-------------------------- MODULE ReplyStreamProofs --------------------------
(***************************************************************************)
(* One reply of the gateway, proved for every text, limit, route and       *)
(* backend.                                                                *)
(***************************************************************************)
EXTENDS ReplyStream, SequenceTheorems, FiniteSetTheorems, WellFoundedInduction, TLAPS

-----------------------------------------------------------------------------
(* Induction over the natural numbers, taken as a set, since the library's  *)
(* induction theorems take an operator.                                     *)

\* The order of the numbers, as the relation the library's theorems take.
LEMMA LessIsWellFounded ==
  IsWellFoundedOn({ss \in Nat \X Nat : ss[1] < ss[2]}, Nat)
<1>1. OpToRel(<, Nat) = {ss \in Nat \X Nat : ss[1] < ss[2]}
  BY DEF OpToRel
<1> QED
  BY <1>1, NatLessThanWellFounded

\* A set of numbers has a least one.
LEMMA LeastNumber ==
  ASSUME NEW S \in SUBSET Nat, S # {}
  PROVE  \E m \in S : \A n \in S : m <= n
<1>1. PICK m \in S : \A n \in S : ~ (<<n, m>> \in {ss \in Nat \X Nat : ss[1] < ss[2]})
  BY LessIsWellFounded, WFMin, Zenon
<1>2. ASSUME NEW n \in S PROVE m <= n
  <2>1. ~ (n < m)
    BY <1>1
  <2> QED BY <2>1
<1> QED BY <1>2

\* A set with 0 and the successors of its members has every number.
LEMMA Induction ==
  ASSUME NEW S \in SUBSET Nat, 0 \in S, \A n \in S : n + 1 \in S
  PROVE  S = Nat
<1> SUFFICES ASSUME NEW k \in Nat \ S PROVE FALSE
  OBVIOUS
<1>1. PICK m \in Nat \ S : \A n \in Nat \ S : m <= n
  BY LeastNumber
<1>2. m # 0 /\ m - 1 \in Nat /\ m - 1 \in S
  BY <1>1
<1> QED BY <1>2

\* The greatest member of a bounded set of numbers.
LEMMA MaxIsGreatest ==
  ASSUME NEW S \in SUBSET Nat, S # {}, NEW b \in Nat, \A n \in S : n <= b
  PROVE  Max(S) \in S /\ \A n \in S : n <= Max(S)
<1> DEFINE R == {b - n : n \in S}
<1>0. \A n \in S : n \in Nat /\ b - n \in Nat
  OBVIOUS
<1>1. R \in SUBSET Nat /\ R # {}
  BY <1>0
<1>2. PICK r \in R : \A n \in R : r <= n
  BY <1>1, LeastNumber
<1>3. PICK m \in S : r = b - m
  BY <1>2
<1>4. \A n \in S : m >= n
  <2> SUFFICES ASSUME NEW n \in S PROVE m >= n
    OBVIOUS
  <2>1. b - m <= b - n
    BY <1>2, <1>3
  <2> QED BY <2>1
<1> QED BY <1>4 DEF Max

\* The least member of a set of numbers.
LEMMA MinIsLeast ==
  ASSUME NEW S \in SUBSET Nat, S # {}
  PROVE  Min(S) \in S /\ \A n \in S : Min(S) <= n
BY LeastNumber DEF Min

-----------------------------------------------------------------------------
(* Joining texts.                                                           *)

\* f holds what the first texts of ss are together.
Flattens(f, ss) ==
  f = [i \in 1 .. Len(ss) |-> IF i = 1 THEN ss[i] ELSE f[i - 1] \o ss[i]]

\* Some function does, for every sequence of texts.
LEMMA FlattenExists ==
  ASSUME NEW T, NEW ss \in Seq(Seq(T))
  PROVE  \E f \in [1 .. Len(ss) -> Seq(T)] : Flattens(f, ss)
<1> DEFINE Is(f, n) == \A i \in 1 .. n : f[i] = IF i = 1 THEN ss[i] ELSE f[i - 1] \o ss[i]
<1> DEFINE S == {n \in Nat : n <= Len(ss) => \E f \in [1 .. n -> Seq(T)] : Is(f, n)}
<1>0. Len(ss) \in Nat /\ \A i \in 1 .. Len(ss) : ss[i] \in Seq(T)
  BY LenProperties
<1>1. 0 \in S
  <2> DEFINE f == [i \in 1 .. 0 |-> <<>>]
  <2>1. f \in [1 .. 0 -> Seq(T)] /\ Is(f, 0)
    OBVIOUS
  <2> QED BY <2>1
<1> HIDE DEF Is
<1>2. ASSUME NEW n \in S PROVE n + 1 \in S
  <2> SUFFICES ASSUME n + 1 <= Len(ss)
               PROVE  \E f \in [1 .. n + 1 -> Seq(T)] : Is(f, n + 1)
    OBVIOUS
  <2>0. n \in Nat /\ n <= Len(ss)
    BY <1>0
  <2>1. PICK f \in [1 .. n -> Seq(T)] : Is(f, n)
    BY <2>0, Zenon
  <2> DEFINE g == [i \in 1 .. n + 1 |->
                     IF i <= n THEN f[i] ELSE IF i = 1 THEN ss[i] ELSE f[i - 1] \o ss[i]]
  <2>2. g \in [1 .. n + 1 -> Seq(T)]
    <3> SUFFICES ASSUME NEW i \in 1 .. n + 1 PROVE g[i] \in Seq(T)
      OBVIOUS
    <3>1. ss[i] \in Seq(T)
      BY <1>0, <2>0
    <3>2. CASE i <= n
      BY <2>1, <3>2
    <3>3. CASE i = 1 /\ ~ (i <= n)
      BY <3>1, <3>3
    <3>4. CASE i # 1 /\ ~ (i <= n)
      <4>1. f[i - 1] \in Seq(T)
        BY <2>1, <3>4
      <4> QED BY <3>1, <3>4, <4>1, ConcatProperties
    <3> QED BY <3>2, <3>3, <3>4
  <2>3. Is(g, n + 1)
    <3> SUFFICES ASSUME NEW i \in 1 .. n + 1
                 PROVE  g[i] = IF i = 1 THEN ss[i] ELSE g[i - 1] \o ss[i]
      BY Zenon DEF Is
    <3>1. i # 1 => g[i - 1] = f[i - 1]
      OBVIOUS
    <3>2. CASE i <= n
      <4>1. i \in 1 .. n
        BY <3>2
      <4>2. f[i] = IF i = 1 THEN ss[i] ELSE f[i - 1] \o ss[i]
        BY <2>1, <4>1, Zenon DEF Is
      <4> QED BY <3>1, <3>2, <4>2
    <3>3. CASE ~ (i <= n)
      BY <3>1, <3>3
    <3> QED BY <3>2, <3>3
  <2> QED BY <2>2, <2>3
<1> HIDE DEF S
<1>3. S = Nat
  BY <1>1, <1>2, Induction DEF S
<1>4. Len(ss) \in S
  BY <1>3, LenProperties
<1>5. PICK f \in [1 .. Len(ss) -> Seq(T)] : Is(f, Len(ss))
  BY <1>4, LenProperties DEF S
<1>6. Flattens(f, ss)
  BY <1>5 DEF Flattens, Is
<1> QED BY <1>6

\* No two functions do.
LEMMA FlattenUnique ==
  ASSUME NEW T, NEW ss \in Seq(Seq(T)), NEW f, NEW g, Flattens(f, ss), Flattens(g, ss)
  PROVE  f = g
<1> DEFINE S == {n \in Nat : n <= Len(ss) => \A i \in 1 .. n : f[i] = g[i]}
<1>1. 0 \in S
  OBVIOUS
<1>2. ASSUME NEW n \in S PROVE n + 1 \in S
  <2> SUFFICES ASSUME n + 1 <= Len(ss), NEW i \in 1 .. n + 1 PROVE f[i] = g[i]
    OBVIOUS
  <2>1. n <= Len(ss) /\ \A j \in 1 .. n : f[j] = g[j]
    BY LenProperties
  <2>2. i \in 1 .. Len(ss)
    BY LenProperties
  <2>3. f[i] = (IF i = 1 THEN ss[i] ELSE f[i - 1] \o ss[i])
    BY <2>2 DEF Flattens
  <2>4. g[i] = (IF i = 1 THEN ss[i] ELSE g[i - 1] \o ss[i])
    BY <2>2 DEF Flattens
  <2>5. i # 1 => f[i - 1] = g[i - 1]
    BY <2>1
  <2> QED BY <2>3, <2>4, <2>5
<1> HIDE DEF S
<1>3. S = Nat
  BY <1>1, <1>2, Induction DEF S
<1>4. Len(ss) \in S /\ Len(ss) \in Nat
  BY <1>3, LenProperties
<1>5. \A i \in 1 .. Len(ss) : f[i] = g[i]
  BY <1>4 DEF S
<1> QED BY <1>5 DEF Flattens

\* FlattenSeq is the last value of that function.
LEMMA FlattenIs ==
  ASSUME NEW T, NEW ss \in Seq(Seq(T)), ss # <<>>,
         NEW f, Flattens(f, ss)
  PROVE  FlattenSeq(ss) = f[Len(ss)]
<1> DEFINE step(h) == [i \in 1 .. Len(ss) |-> IF i = 1 THEN ss[i] ELSE h[i - 1] \o ss[i]]
<1> DEFINE g == CHOOSE h : h = step(h)
<1>1. f = step(f)
  BY DEF Flattens
<1>2. g = step(g)
  BY <1>1, Zenon
<1>3. Flattens(g, ss)
  BY <1>2, Zenon DEF Flattens
<1>4. f = g
  BY <1>3, FlattenUnique, Zenon
<1>5. Len(ss) # 0
  BY EmptySeq
<1>6. FlattenSeq(ss) = g[Len(ss)]
  BY <1>5, Zenon DEF FlattenSeq
<1> QED BY <1>4, <1>6

\* No texts make none.
LEMMA FlattenNothing == FlattenSeq(<<>>) = <<>>
BY DEF FlattenSeq

\* A text more joins the others.
LEMMA FlattenAppend ==
  ASSUME NEW T, NEW ss \in Seq(Seq(T)), NEW t \in Seq(T)
  PROVE  /\ FlattenSeq(ss) \in Seq(T)
         /\ FlattenSeq(Append(ss, t)) = FlattenSeq(ss) \o t
<1>1. PICK f \in [1 .. Len(ss) -> Seq(T)] : Flattens(f, ss)
  BY FlattenExists
<1> DEFINE tt == Append(ss, t)
<1>2. /\ tt \in Seq(Seq(T)) /\ tt # <<>> /\ Len(tt) = Len(ss) + 1 /\ Len(ss) \in Nat
      /\ tt[Len(ss) + 1] = t /\ \A i \in 1 .. Len(ss) : tt[i] = ss[i]
  BY AppendProperties, LenProperties
<1> HIDE DEF tt
<1>3. FlattenSeq(ss) \in Seq(T)
  <2>1. CASE ss = <<>>
    BY <2>1, FlattenNothing, EmptySeq
  <2>2. CASE ss # <<>>
    <3>1. FlattenSeq(ss) = f[Len(ss)]
      BY <1>1, <2>2, FlattenIs
    <3>2. Len(ss) \in 1 .. Len(ss)
      BY <2>2, EmptySeq, LenProperties
    <3> QED BY <1>1, <3>1, <3>2
  <2> QED BY <2>1, <2>2
<1>4. PICK g \in [1 .. Len(tt) -> Seq(T)] : Flattens(g, tt)
  BY <1>2, FlattenExists
<1>5. FlattenSeq(tt) = g[Len(ss) + 1]
  BY <1>2, <1>4, FlattenIs
<1>6. g[Len(ss) + 1] = IF Len(ss) + 1 = 1 THEN t ELSE g[Len(ss)] \o t
  <2> DEFINE n == Len(ss) + 1
  <2>1. n \in 1 .. Len(tt) /\ n - 1 = Len(ss)
    BY <1>2
  <2>2. g[n] = IF n = 1 THEN tt[n] ELSE g[n - 1] \o tt[n]
    <3> HIDE DEF n
    <3> QED BY <1>4, <2>1, Zenon DEF Flattens
  <2> QED BY <1>2, <2>1, <2>2
<1>7. CASE ss = <<>>
  <2>1. Len(ss) = 0
    BY <1>7
  <2>2. FlattenSeq(tt) = t
    BY <1>5, <1>6, <2>1
  <2> QED BY <1>3, <1>7, <2>2, FlattenNothing, ConcatEmptySeq DEF tt
<1>8. CASE ss # <<>>
  <2>1. Len(ss) # 0
    BY <1>8, EmptySeq
  <2> DEFINE h == [i \in 1 .. Len(ss) |-> g[i]]
  <2>2. Flattens(h, ss)
    <3> SUFFICES ASSUME NEW i \in 1 .. Len(ss)
                 PROVE  g[i] = IF i = 1 THEN ss[i] ELSE h[i - 1] \o ss[i]
      BY DEF Flattens
    <3>1. i \in 1 .. Len(tt) /\ tt[i] = ss[i]
      BY <1>2
    <3>2. g[i] = IF i = 1 THEN tt[i] ELSE g[i - 1] \o tt[i]
      BY <1>4, <3>1 DEF Flattens
    <3>3. i # 1 => h[i - 1] = g[i - 1]
      BY <1>2
    <3> QED BY <3>1, <3>2, <3>3
  <2>3. FlattenSeq(ss) = h[Len(ss)]
    <3> HIDE DEF h
    <3> QED BY <1>8, <2>2, FlattenIs
  <2>4. h[Len(ss)] = g[Len(ss)]
    BY <1>2, <2>1
  <2>5. Len(ss) + 1 # 1
    BY <1>2, <2>1
  <2>6. FlattenSeq(tt) = FlattenSeq(ss) \o t
    BY <1>5, <1>6, <2>3, <2>4, <2>5
  <2> QED BY <1>3, <2>6 DEF tt
<1> QED BY <1>7, <1>8

\* A set with the empty sequence and every extension of its members has every
\* sequence.
LEMMA SequenceInduction ==
  ASSUME NEW T, NEW Q \in SUBSET Seq(T), <<>> \in Q,
         \A s \in Q : \A e \in T : Append(s, e) \in Q
  PROVE  Q = Seq(T)
<1> DEFINE S == {n \in Nat : \A s \in Seq(T) : Len(s) = n => s \in Q}
<1>1. 0 \in S
  BY EmptySeq
<1>2. ASSUME NEW n \in S PROVE n + 1 \in S
  <2> SUFFICES ASSUME NEW s \in Seq(T), Len(s) = n + 1 PROVE s \in Q
    OBVIOUS
  <2>1. s # <<>>
    BY EmptySeq
  <2>2. PICK r \in Seq(T), e \in T : s = Append(r, e)
    BY <2>1, SequenceEmptyOrAppend
  <2>3. Len(s) = Len(r) + 1 /\ Len(r) \in Nat
    BY <2>2, AppendProperties, LenProperties
  <2>4. Len(r) = n
    BY <2>3
  <2> QED BY <2>2, <2>4
<1> HIDE DEF S
<1>3. S = Nat
  BY <1>1, <1>2, Induction DEF S
<1> QED BY <1>3, LenProperties DEF S

\* The texts of two sequences follow each other.
LEMMA FlattenConcat ==
  ASSUME NEW T, NEW ss \in Seq(Seq(T)), NEW tt \in Seq(Seq(T))
  PROVE  /\ FlattenSeq(ss) \in Seq(T) /\ FlattenSeq(tt) \in Seq(T)
         /\ FlattenSeq(ss \o tt) = FlattenSeq(ss) \o FlattenSeq(tt)
<1> DEFINE Q == {uu \in Seq(Seq(T)) :
                   FlattenSeq(ss \o uu) = FlattenSeq(ss) \o FlattenSeq(uu)}
<1>0. <<>> \in Seq(T)
  BY EmptySeq
<1>1. \A uu \in Seq(Seq(T)) : FlattenSeq(uu) \in Seq(T)
  BY <1>0, FlattenAppend, Zenon
<1>2. <<>> \in Q
  BY <1>1, EmptySeq, ConcatEmptySeq, FlattenNothing
<1> HIDE DEF Q
<1>3. ASSUME NEW uu \in Q, NEW t \in Seq(T) PROVE Append(uu, t) \in Q
  <2>1. uu \in Seq(Seq(T)) /\ FlattenSeq(ss \o uu) = FlattenSeq(ss) \o FlattenSeq(uu)
    BY DEF Q
  <2>2. Append(uu, t) \in Seq(Seq(T)) /\ ss \o uu \in Seq(Seq(T))
    BY <2>1, AppendProperties, ConcatProperties
  <2>3. ss \o Append(uu, t) = Append(ss \o uu, t)
    <3>1. PICK x : x = <<t>>
      OBVIOUS
    <3>2. PICK vv : vv = ss \o uu
      OBVIOUS
    <3>3. x \in Seq(Seq(T)) /\ vv \in Seq(Seq(T))
      BY <2>2, <3>1, <3>2
    <3>4. Append(uu, t) = uu \o x
      BY <2>1, <3>1, AppendIsConcat
    <3>5. Append(vv, t) = vv \o x
      BY <3>1, <3>3, AppendIsConcat
    <3>6. (ss \o uu) \o x = ss \o (uu \o x)
      <4>1. uu \in Seq(Seq(T)) /\ x \in Seq(Seq(T))
        BY <2>1, <3>3
      <4> QED BY <4>1, ConcatAssociative, SMTT(30)
    <3> QED BY <3>2, <3>4, <3>5, <3>6
  <2>4. FlattenSeq(Append(ss \o uu, t)) = FlattenSeq(ss \o uu) \o t
    BY <2>2, FlattenAppend
  <2>5. (FlattenSeq(ss) \o FlattenSeq(uu)) \o t = FlattenSeq(ss) \o (FlattenSeq(uu) \o t)
    <3>1. FlattenSeq(ss) \in Seq(T) /\ FlattenSeq(uu) \in Seq(T)
      BY <1>1, <2>1
    <3> QED BY <3>1, ConcatAssociative
  <2>6. FlattenSeq(uu) \o t = FlattenSeq(Append(uu, t))
    BY <2>1, FlattenAppend
  <2> QED BY <2>1, <2>2, <2>3, <2>4, <2>5, <2>6 DEF Q
<1>4. Q \in SUBSET Seq(Seq(T))
  BY DEF Q
<1>5. Q = Seq(Seq(T))
  BY <1>2, <1>3, <1>4, SequenceInduction
<1> QED BY <1>1, <1>5 DEF Q

\* One text alone.
LEMMA FlattenOne ==
  ASSUME NEW T, NEW t \in Seq(T)
  PROVE  /\ <<t>> \in Seq(Seq(T))
         /\ FlattenSeq(<<t>>) = t
<1>1. <<>> \in Seq(Seq(T)) /\ Append(<<>>, t) = <<t>> /\ <<t>> \in Seq(Seq(T))
  BY EmptySeq
<1>2. FlattenSeq(Append(<<>>, t)) = FlattenSeq(<<>>) \o t
  BY <1>1, FlattenAppend
<1> QED BY <1>1, <1>2, FlattenNothing, ConcatEmptySeq

-----------------------------------------------------------------------------
(* Texts.                                                                   *)

\* The characters of the texts and of what the gateway says by itself.
Char ==
  (UNION {Range(t) : t \in Texts \cup Deltas}) \cup Range(Prefix) \cup
  {Break, "*", "_", "?", "!", "q", "t", "torn"}
Text == Seq(Char)

\* What goes into a reply is a text.
LEMMA TextsAreTexts ==
  /\ Texts \subseteq Text /\ Deltas \subseteq Text
  /\ Prefix \in Text /\ <<>> \in Text /\ <<Break>> \in Text
  /\ {Placeholder, Ellipsis, NoResponse, Denied, Question, TimedOut, Torn} \subseteq Text
<1>1. ASSUME NEW t \in Texts \cup Deltas PROVE t \in Text
  <2>1. t \in Seq(Range(t)) /\ Range(t) \subseteq Char
    BY ReplyAssumption, Zenon DEF Char
  <2> QED BY <2>1, SeqMonotonic DEF Text
<1>2. Prefix \in Text
  <2>1. Prefix \in Seq(Range(Prefix))
    BY ReplyAssumption, Zenon
  <2>2. Range(Prefix) \subseteq Char
    BY Zenon DEF Char
  <2> QED BY <2>1, <2>2, SeqMonotonic DEF Text
<1>3. /\ Break \in Char /\ "*" \in Char /\ "_" \in Char /\ "?" \in Char /\ "!" \in Char
      /\ "q" \in Char /\ "t" \in Char /\ "torn" \in Char
  BY Zenon DEF Char
<1>4. \A c \in Char : <<c>> \in Text /\ <<c, c, c>> \in Text
  BY DEF Text
<1>5. /\ <<>> \in Text /\ <<Break>> \in Text
      /\ Placeholder \in Text /\ Ellipsis \in Text /\ NoResponse \in Text /\ Denied \in Text
      /\ Question \in Text /\ TimedOut \in Text /\ Torn \in Text
  BY <1>3, <1>4, EmptySeq, Zenon
     DEF Text, Placeholder, Ellipsis, NoResponse, Denied, Question, TimedOut, Torn
<1> QED BY <1>1, <1>2, <1>5, Zenon

\* What each character of a text leaves to be read.
Mark(c) == IF c = Break THEN <<>> ELSE <<c>>
Marks(t) == [i \in DOMAIN t |-> Mark(t[i])]

\* What can be read of a text is its marks in a row.
LEMMA InkOfMarks == \A t : Ink(t) = FlattenSeq(Marks(t))
BY DEF Ink, Marks, Mark

\* Each mark is a text.
LEMMA MarksAreTexts ==
  ASSUME NEW t \in Text
  PROVE  Marks(t) \in Seq(Text) /\ Len(Marks(t)) = Len(t)
<1>1. Len(t) \in Nat /\ DOMAIN t = 1 .. Len(t) /\ \A i \in 1 .. Len(t) : t[i] \in Char
  BY LenProperties DEF Text
<1>2. \A c \in Char : Mark(c) \in Text
  BY DEF Mark, Text
<1>3. Marks(t) \in [1 .. Len(t) -> Text]
  BY <1>1, <1>2 DEF Marks
<1> QED BY <1>1, <1>3

\* What can be read of two texts is what can be read of each.
LEMMA InkConcat ==
  ASSUME NEW s \in Text, NEW t \in Text
  PROVE  /\ Ink(s) \in Text /\ Ink(t) \in Text
         /\ s \o t \in Text
         /\ Ink(s \o t) = Ink(s) \o Ink(t)
<1>1. /\ Len(s) \in Nat /\ DOMAIN s = 1 .. Len(s)
      /\ Len(t) \in Nat /\ DOMAIN t = 1 .. Len(t)
      /\ s \o t \in Text /\ Len(s \o t) = Len(s) + Len(t)
      /\ DOMAIN (s \o t) = 1 .. Len(s) + Len(t)
      /\ \A i \in 1 .. Len(s) + Len(t) : (s \o t)[i] = IF i <= Len(s) THEN s[i] ELSE t[i - Len(s)]
  BY LenProperties, ConcatProperties DEF Text
<1>2. /\ Marks(s) \in Seq(Text) /\ Len(Marks(s)) = Len(s)
      /\ Marks(t) \in Seq(Text) /\ Len(Marks(t)) = Len(t)
      /\ Marks(s \o t) \in Seq(Text) /\ Len(Marks(s \o t)) = Len(s) + Len(t)
  BY <1>1, MarksAreTexts
<1>3. /\ Marks(s) \o Marks(t) \in Seq(Text)
      /\ Len(Marks(s) \o Marks(t)) = Len(s) + Len(t)
      /\ \A i \in 1 .. Len(s) + Len(t) :
           (Marks(s) \o Marks(t))[i] = IF i <= Len(s) THEN Marks(s)[i] ELSE Marks(t)[i - Len(s)]
  <2> DEFINE x == Marks(s)
             y == Marks(t)
  <2>1. x \in Seq(Text) /\ y \in Seq(Text) /\ Len(x) = Len(s) /\ Len(y) = Len(t)
    BY <1>2
  <2> HIDE DEF x, y
  <2>2. /\ x \o y \in Seq(Text)
        /\ Len(x \o y) = Len(x) + Len(y)
        /\ \A i \in 1 .. Len(x) + Len(y) : (x \o y)[i] = IF i <= Len(x) THEN x[i] ELSE y[i - Len(x)]
    BY <2>1, ConcatProperties, Zenon
  <2> QED BY <2>1, <2>2 DEF x, y
<1>4. ASSUME NEW i \in 1 .. Len(s) + Len(t)
      PROVE  Marks(s \o t)[i] = (Marks(s) \o Marks(t))[i]
  <2>1. Marks(s \o t)[i] = Mark((s \o t)[i])
    BY <1>1 DEF Marks
  <2>2. CASE i <= Len(s)
    <3>1. i \in 1 .. Len(s)
      BY <1>1, <2>2
    <3>2. Marks(s)[i] = Mark(s[i])
      BY <1>1, <3>1 DEF Marks
    <3> QED BY <1>1, <1>3, <2>1, <2>2, <3>2
  <2>3. CASE ~ (i <= Len(s))
    <3>1. i - Len(s) \in 1 .. Len(t)
      BY <1>1, <2>3
    <3>2. Marks(t)[i - Len(s)] = Mark(t[i - Len(s)])
      BY <1>1, <3>1 DEF Marks
    <3> QED BY <1>1, <1>3, <2>1, <2>3, <3>2
  <2> QED BY <2>2, <2>3
<1>5. Marks(s \o t) = Marks(s) \o Marks(t)
  <2> DEFINE x == Marks(s \o t)
             y == Marks(s) \o Marks(t)
  <2>1. x \in Seq(Text) /\ y \in Seq(Text) /\ Len(x) = Len(y)
    BY <1>2, <1>3
  <2>2. \A i \in 1 .. Len(x) : x[i] = y[i]
    BY <1>2, <1>4
  <2> HIDE DEF x, y
  <2>3. x = y
    BY <2>1, <2>2, SeqEqual
  <2> QED BY <2>3 DEF x, y
<1> QED BY <1>1, <1>2, <1>5, InkOfMarks, FlattenConcat DEF Text

\* A character alone.
LEMMA InkOne ==
  ASSUME NEW c \in Char
  PROVE  /\ <<c>> \in Text
         /\ Ink(<<c>>) = IF c = Break THEN <<>> ELSE <<c>>
<1>1. Mark(c) \in Text
  BY EmptySeq DEF Mark, Text
<1>2. Marks(<<c>>) = <<Mark(c)>>
  BY DEF Marks
<1>3. FlattenSeq(<<Mark(c)>>) = Mark(c)
  BY <1>1, FlattenOne DEF Text
<1> QED BY <1>2, <1>3, InkOfMarks DEF Mark, Text

\* Nothing can be read of no text.
LEMMA InkNothing == Ink(<<>>) = <<>>
<1>1. Marks(<<>>) = <<>>
  BY DEF Marks
<1> QED BY <1>1, InkOfMarks, FlattenNothing

\* Nothing can be read of a text of breaks, and something of every other.
LEMMA InkOfBreaks ==
  ASSUME NEW t \in Text
  PROVE  Ink(t) = <<>> <=> \A i \in DOMAIN t : t[i] = Break
<1> DEFINE Q == {s \in Text : Ink(s) = <<>> <=> \A i \in 1 .. Len(s) : s[i] = Break}
<1>1. <<>> \in Q
  BY InkNothing, EmptySeq DEF Text
<1> HIDE DEF Q
<1>2. ASSUME NEW s \in Q, NEW c \in Char PROVE Append(s, c) \in Q
  <2>1. s \in Text /\ (Ink(s) = <<>> <=> \A i \in 1 .. Len(s) : s[i] = Break)
    BY DEF Q
  <2>2. /\ Append(s, c) \in Text /\ Append(s, c) = s \o <<c>>
        /\ Len(Append(s, c)) = Len(s) + 1 /\ Len(s) \in Nat
        /\ \A i \in 1 .. Len(s) : Append(s, c)[i] = s[i]
        /\ Append(s, c)[Len(s) + 1] = c
    BY <2>1, AppendProperties, AppendIsConcat, LenProperties DEF Text
  <2>3. /\ Ink(s) \in Text /\ Ink(<<c>>) \in Text
        /\ Ink(Append(s, c)) = Ink(s) \o Ink(<<c>>)
        /\ Ink(<<c>>) = IF c = Break THEN <<>> ELSE <<c>>
    <3>1. <<c>> \in Text /\ Ink(<<c>>) = IF c = Break THEN <<>> ELSE <<c>>
      BY InkOne
    <3>2. Ink(s) \in Text /\ Ink(<<c>>) \in Text /\ Ink(s \o <<c>>) = Ink(s) \o Ink(<<c>>)
      BY <2>1, <3>1, InkConcat
    <3> QED BY <2>2, <3>1, <3>2
  <2>4. Ink(Append(s, c)) = <<>> <=> Ink(s) = <<>> /\ c = Break
    <3>1. Ink(<<c>>) = <<>> <=> c = Break
      <4>1. <<c>> # <<>>
        OBVIOUS
      <4> QED BY <2>3, <4>1
    <3>2. Ink(s) \o Ink(<<c>>) = <<>> <=> Ink(s) = <<>> /\ Ink(<<c>>) = <<>>
      BY <2>3, ConcatEqualIffEmpty DEF Text
    <3> QED BY <2>3, <3>1, <3>2
  <2>5. (\A i \in 1 .. Len(s) + 1 : Append(s, c)[i] = Break)
          <=> (\A i \in 1 .. Len(s) : s[i] = Break) /\ c = Break
    BY <2>2
  <2> QED BY <2>1, <2>2, <2>4, <2>5 DEF Q
<1>3. Q \in SUBSET Text
  BY DEF Q
<1>4. Q = Text
  BY <1>1, <1>2, <1>3, SequenceInduction DEF Text
<1> QED BY <1>4, LenProperties DEF Q, Text

\* The positions of a text.
LEMMA TextShape ==
  ASSUME NEW t \in Text
  PROVE  /\ Len(t) \in Nat /\ DOMAIN t = 1 .. Len(t)
         /\ \A i \in 1 .. Len(t) : t[i] \in Char
         /\ SubSeq(t, 1, Len(t)) = t
         /\ t = <<>> <=> Len(t) = 0
BY LenProperties, SubSeqFull, EmptySeq DEF Text

\* The part of a text from one character to another.
LEMMA SubText ==
  ASSUME NEW t \in Text, NEW i \in Int, NEW j \in Int, i >= 1, j <= Len(t)
  PROVE  /\ SubSeq(t, i, j) \in Text
         /\ Len(SubSeq(t, i, j)) = (IF i <= j THEN j - i + 1 ELSE 0)
         /\ \A k \in 1 .. j - i + 1 : SubSeq(t, i, j)[k] = t[i + k - 1]
<1>1. \A k \in i .. j : t[k] \in Char
  BY TextShape
<1> QED BY <1>1, SubSeqProperties DEF Text

\* Two parts that meet.
LEMMA Meet ==
  ASSUME NEW t \in Text, NEW i \in 1 .. Len(t) + 1, NEW j \in i - 1 .. Len(t),
         NEW k \in j .. Len(t)
  PROVE  SubSeq(t, i, j) \o SubSeq(t, j + 1, k) = SubSeq(t, i, k)
BY ConcatAdjacentSubSeq DEF Text

\* Breaks around a text add nothing to what can be read of it.
LEMMA InkBetween ==
  ASSUME NEW t \in Text, NEW a \in 1 .. Len(t), NEW b \in a .. Len(t),
         \A i \in 1 .. Len(t) : i < a \/ i > b => t[i] = Break
  PROVE  SubSeq(t, a, b) \in Text /\ Ink(SubSeq(t, a, b)) = Ink(t)
<1>1. Len(t) \in Nat
  BY TextShape
<1>2. PICK x : x = SubSeq(t, 1, a - 1)
  OBVIOUS
<1>3. PICK y : y = SubSeq(t, a, b)
  OBVIOUS
<1>4. PICK z : z = SubSeq(t, b + 1, Len(t))
  OBVIOUS
<1>5. y \in Text
  BY <1>1, <1>3, SubText
<1>6. x \in Text /\ Ink(x) = <<>>
  <2>1. /\ x \in Text /\ Len(x) = (IF 1 <= a - 1 THEN a - 1 - 1 + 1 ELSE 0)
        /\ \A k \in 1 .. a - 1 - 1 + 1 : x[k] = t[1 + k - 1]
    BY <1>1, <1>2, SubText
  <2>2. Len(x) = a - 1
    BY <1>1, <2>1
  <2>3. ASSUME NEW k \in 1 .. a - 1 PROVE x[k] = Break
    <3>1. k \in 1 .. a - 1 - 1 + 1 /\ 1 + k - 1 = k /\ k \in 1 .. Len(t) /\ k < a
      BY <1>1
    <3> QED BY <2>1, <3>1
  <2> QED BY <2>1, <2>2, <2>3, TextShape, InkOfBreaks
<1>7. z \in Text /\ Ink(z) = <<>>
  <2>1. /\ z \in Text /\ Len(z) = (IF b + 1 <= Len(t) THEN Len(t) - (b + 1) + 1 ELSE 0)
        /\ \A k \in 1 .. Len(t) - (b + 1) + 1 : z[k] = t[b + 1 + k - 1]
    BY <1>1, <1>4, SubText
  <2>2. Len(z) = Len(t) - b
    BY <1>1, <2>1
  <2>3. ASSUME NEW k \in 1 .. Len(t) - b PROVE z[k] = Break
    <3>1. /\ k \in 1 .. Len(t) - (b + 1) + 1 /\ b + 1 + k - 1 = b + k
          /\ b + k \in 1 .. Len(t) /\ b + k > b
      BY <1>1
    <3> QED BY <2>1, <3>1
  <2> QED BY <2>1, <2>2, <2>3, TextShape, InkOfBreaks
<1>8. t = x \o (y \o z)
  <2>1. /\ a \in 1 .. Len(t) + 1 /\ b \in a - 1 .. Len(t) /\ Len(t) \in b .. Len(t)
        /\ 1 \in 1 .. Len(t) + 1 /\ a - 1 \in 1 - 1 .. Len(t) /\ Len(t) \in a - 1 .. Len(t)
        /\ a - 1 + 1 = a
    BY <1>1
  <2>2. y \o z = SubSeq(t, a, Len(t))
    BY <1>3, <1>4, <2>1, Meet
  <2>3. x \o SubSeq(t, a - 1 + 1, Len(t)) = SubSeq(t, 1, Len(t))
    BY <1>2, <2>1, Meet
  <2> QED BY <2>1, <2>2, <2>3, TextShape
<1>9. y \o z \in Text /\ Ink(y \o z) = Ink(y) \o Ink(z) /\ Ink(y) \in Text
  BY <1>5, <1>7, InkConcat
<1>10. Ink(x \o (y \o z)) = Ink(x) \o Ink(y \o z)
  BY <1>6, <1>9, InkConcat
<1>11. Ink(y) \o <<>> = Ink(y) /\ <<>> \o Ink(y) = Ink(y)
  BY <1>9, ConcatEmptySeq DEF Text
<1>12. Ink(t) = Ink(y)
  <2>1. Ink(t) = Ink(x) \o Ink(y \o z)
    BY <1>8, <1>10, Zenon
  <2>2. Ink(t) = <<>> \o (Ink(y) \o <<>>)
    BY <1>6, <1>7, <1>9, <2>1, Zenon
  <2>3. <<>> \o (Ink(y) \o <<>>) = Ink(y)
    BY <1>11
  <2> QED BY <2>2, <2>3, Zenon
<1> QED BY <1>3, <1>5, <1>12

\* A text without the breaks around it can be read as before.
LEMMA InkOfTrim ==
  ASSUME NEW t \in Text
  PROVE  /\ Trim(t) \in Text
         /\ Ink(Trim(t)) = Ink(t)
         /\ Trim(t) = <<>> <=> Ink(t) = <<>>
<1> DEFINE ink == {i \in DOMAIN t : t[i] # Break}
<1>1. Len(t) \in Nat /\ DOMAIN t = 1 .. Len(t)
  BY TextShape
<1>2. CASE ink = {}
  <2>1. Trim(t) = <<>>
    BY <1>2 DEF Trim
  <2>2. Ink(t) = <<>>
    BY <1>2, InkOfBreaks
  <2> QED BY <2>1, <2>2, InkNothing, TextsAreTexts
<1>3. CASE ink # {}
  <2> DEFINE a == Min(ink)
             b == Max(ink)
  <2>1. Trim(t) = SubSeq(t, a, b)
    BY <1>3 DEF Trim
  <2>2. ink \in SUBSET Nat /\ \A i \in ink : i <= Len(t)
    BY <1>1
  <2>3. a \in ink /\ b \in ink /\ \A i \in ink : a <= i /\ i <= b
    <3> HIDE DEF ink
    <3> QED BY <1>1, <1>3, <2>2, MinIsLeast, MaxIsGreatest
  <2> HIDE DEF a, b
  <2>4. /\ a \in 1 .. Len(t) /\ b \in a .. Len(t) /\ t[a] # Break
        /\ \A i \in 1 .. Len(t) : i < a \/ i > b => t[i] = Break
    BY <1>1, <2>3
  <2>5. SubSeq(t, a, b) \in Text /\ Ink(SubSeq(t, a, b)) = Ink(t)
    BY <2>4, InkBetween
  <2>6. Ink(t) # <<>>
    BY <1>1, <2>4, InkOfBreaks
  <2> QED BY <2>1, <2>5, <2>6, InkNothing
<1> QED BY <1>2, <1>3

-----------------------------------------------------------------------------
(* Cutting texts.                                                           *)

\* The positions of a text from its end: a set of them that has each position
\* whose later ones it has is the set of all.
LEMMA FromTheEnd ==
  ASSUME NEW n \in Nat, NEW S,
         \A i \in 1 .. n + 1 : (\A j \in i + 1 .. n + 1 : j \in S) => i \in S
  PROVE  \A i \in 1 .. n + 1 : i \in S
<1> SUFFICES ASSUME NEW i \in 1 .. n + 1, i \notin S PROVE FALSE
  OBVIOUS
<1>1. PICK R : R = {m \in Nat : m \in 1 .. n + 1 /\ m \notin S}
  OBVIOUS
<1>2. R \in SUBSET Nat /\ R # {} /\ \A m \in R : m <= n + 1
  BY <1>1
<1>3. PICK k : k \in R /\ \A m \in R : m <= k
  <2>1. n + 1 \in Nat
    OBVIOUS
  <2>2. Max(R) \in R /\ \A m \in R : m <= Max(R)
    BY <1>2, <2>1, MaxIsGreatest
  <2> QED BY <2>2
<1>4. k \in 1 .. n + 1 /\ k \notin S
  BY <1>1, <1>3
<1>5. ASSUME NEW j \in k + 1 .. n + 1 PROVE j \in S
  BY <1>1, <1>3, <1>4
<1> QED BY <1>4, <1>5

\* f gives what a text is cut into from each position on: nothing more than
\* h at the positions in stop, a piece and what follows it at the others.
Cuts(f, n, stop, h, p, nxt) ==
  f = [i \in 1 .. n + 1 |-> IF i \in stop THEN h[i] ELSE <<p[i]>> \o f[nxt[i]]]

\* Some function does, when the pieces lead to the end.
LEMMA CutsExist ==
  ASSUME NEW T, NEW n \in Nat, NEW stop, NEW h, NEW p, NEW nxt,
         \A i \in 1 .. n + 1 : IF i \in stop THEN h[i] \in Seq(T)
                               ELSE p[i] \in T /\ nxt[i] \in i + 1 .. n + 1
  PROVE  \E f : Cuts(f, n, stop, h, p, nxt)
<1> DEFINE Is(f, k) == \A i \in n + 1 - k .. n + 1 :
                         f[i] = IF i \in stop THEN h[i] ELSE <<p[i]>> \o f[nxt[i]]
           S == {k \in Nat : k <= n => \E f \in [n + 1 - k .. n + 1 -> Seq(T)] : Is(f, k)}
<1> HIDE DEF Is
<1>1. 0 \in S
  <2> DEFINE f == [i \in n + 1 - 0 .. n + 1 |-> h[n + 1]]
  <2>1. n + 1 - 0 .. n + 1 = {n + 1}
    OBVIOUS
  <2>2. n + 1 \in stop /\ h[n + 1] \in Seq(T)
    <3>1. n + 1 \in 1 .. n + 1 /\ n + 1 + 1 .. n + 1 = {}
      OBVIOUS
    <3> QED BY <3>1
  <2>3. f \in [n + 1 - 0 .. n + 1 -> Seq(T)]
    BY <2>2
  <2>4. Is(f, 0)
    BY <2>1, <2>2 DEF Is
  <2> QED BY <2>3, <2>4
<1>2. ASSUME NEW k \in S PROVE k + 1 \in S
  <2> SUFFICES ASSUME k + 1 <= n
               PROVE  \E f \in [n + 1 - (k + 1) .. n + 1 -> Seq(T)] : Is(f, k + 1)
    OBVIOUS
  <2>1. k \in Nat /\ k <= n
    OBVIOUS
  <2>2. PICK f \in [n + 1 - k .. n + 1 -> Seq(T)] : Is(f, k)
    BY <2>1
  <2>3. PICK m : m = n - k
    OBVIOUS
  <2>4. /\ m \in 1 .. n + 1 /\ n + 1 - (k + 1) = m /\ n + 1 - k = m + 1
    BY <2>1, <2>3
  <2> DEFINE v == IF m \in stop THEN h[m] ELSE <<p[m]>> \o f[nxt[m]]
             g == [i \in m .. n + 1 |-> IF i = m THEN v ELSE f[i]]
  <2>5. v \in Seq(T)
    <3>1. CASE m \in stop
      BY <2>4, <3>1
    <3>2. CASE m \notin stop
      <4>1. p[m] \in T /\ nxt[m] \in m + 1 .. n + 1
        BY <2>4, <3>2
      <4>2. <<p[m]>> \in Seq(T) /\ f[nxt[m]] \in Seq(T)
        BY <2>2, <2>4, <4>1
      <4> QED BY <3>2, <4>2, ConcatProperties
    <3> QED BY <3>1, <3>2
  <2>6. g \in [m .. n + 1 -> Seq(T)]
    <3> HIDE DEF v
    <3> QED BY <2>2, <2>4, <2>5
  <2>7. Is(g, k + 1)
    <3>1. ASSUME NEW i \in m .. n + 1
          PROVE  g[i] = IF i \in stop THEN h[i] ELSE <<p[i]>> \o g[nxt[i]]
      <4>1. i \notin stop => nxt[i] \in i + 1 .. n + 1
        BY <2>4
      <4>2. i \notin stop => nxt[i] \in m .. n + 1 /\ nxt[i] # m
        BY <2>4, <4>1
      <4>3. i \notin stop => g[nxt[i]] = f[nxt[i]]
        BY <4>2
      <4>4. CASE i = m
        BY <4>3, <4>4
      <4>5. CASE i # m
        <5>1. i \in n + 1 - k .. n + 1
          BY <2>4, <4>5
        <5>2. f[i] = IF i \in stop THEN h[i] ELSE <<p[i]>> \o f[nxt[i]]
          BY <2>2, <5>1 DEF Is
        <5>3. g[i] = f[i]
          BY <4>5
        <5> QED BY <4>3, <5>2, <5>3
      <4> QED BY <4>4, <4>5
    <3> HIDE DEF g
    <3> QED BY <2>4, <3>1 DEF Is
  <2> QED BY <2>4, <2>6, <2>7
<1> HIDE DEF S
<1>3. S = Nat
  BY <1>1, <1>2, Induction DEF S
<1>4. CASE n = 0
  <2> DEFINE f == [i \in 1 .. n + 1 |-> h[i]]
  <2>1. \A i \in 1 .. n + 1 : i \in stop
    BY <1>4
  <2>2. Cuts(f, n, stop, h, p, nxt)
    BY <2>1 DEF Cuts
  <2> QED BY <2>2
<1>5. CASE n # 0
  <2>1. n \in S /\ n + 1 - n = 1
    BY <1>3
  <2>2. PICK f \in [1 .. n + 1 -> Seq(T)] : Is(f, n)
    BY <2>1 DEF S
  <2>3. Cuts(f, n, stop, h, p, nxt)
    BY <2>1, <2>2 DEF Is, Cuts
  <2> QED BY <2>3
<1> QED BY <1>4, <1>5

\* A chunk ends in the text, and no later than it may.
LEMMA SplitEndInside ==
  ASSUME NEW t \in Text, NEW i \in 1 .. Len(t)
  PROVE  /\ SplitEnd(t, i) \in i .. Len(t)
         /\ SplitEnd(t, i) - i + 1 \in 1 .. MaxChars
<1> DEFINE window == i .. (i + MaxChars - 1)
<1>1. Len(t) \in Nat /\ MaxChars \in Nat \ {0}
  BY TextShape, ReplyAssumption
<1>2. CASE Len(t) - i + 1 <= MaxChars
  <2>1. SplitEnd(t, i) = Len(t)
    BY <1>2, <1>1 DEF SplitEnd
  <2> QED BY <1>1, <1>2, <2>1
<1>3. CASE Len(t) - i + 1 > MaxChars
  <2>1. ASSUME NEW R \in SUBSET window, R # {} PROVE Max(R) \in window
    <3>1. R \in SUBSET Nat /\ \A n \in R : n <= i + MaxChars - 1
      BY <1>1
    <3>2. i + MaxChars - 1 \in Nat
      BY <1>1
    <3> HIDE DEF window
    <3> QED BY <2>1, <3>1, <3>2, MaxIsGreatest
  <2>2. i + MaxChars - 1 \in window
    BY <1>1
  <2>3. SplitEnd(t, i) \in window
    <3> DEFINE near   == Max({MaxChars - 150, (2 * MaxChars) \div 3})
               breaks == {j \in window : t[j] = Break}
               stops  == {j \in window : t[j] = Stop /\ j - i + 1 >= near}
    <3>1. ~ (Len(t) - i + 1 <= MaxChars)
      BY <1>1, <1>3
    <3>2. SplitEnd(t, i) = IF breaks # {} THEN Max(breaks)
                           ELSE IF stops # {} THEN Max(stops) ELSE i + MaxChars - 1
      <4> HIDE DEF near, breaks, stops
      <4> QED BY <1>3, <3>1 DEF SplitEnd, near, breaks, stops
    <3>3. breaks \in SUBSET window /\ stops \in SUBSET window
      OBVIOUS
    <3> HIDE DEF near, breaks, stops, window
    <3> QED BY <2>1, <2>2, <3>2, <3>3
  <2> QED BY <1>1, <1>3, <2>3
<1> QED BY <1>1, <1>2, <1>3

\* c cuts a text from position i on, and what is left of it is no chunk.
CutsFrom(c, t, i, least) ==
  /\ c \in Seq(Text)
  /\ \A d \in Range(c) : Len(d) \in 1 .. MaxChars
  /\ \E e \in i - 1 .. Len(t) :
       FlattenSeq(c) = SubSeq(t, i, e) /\ Len(t) - e < least

\* The chunks of a text: none is empty or too long, together they are the
\* beginning of it, and what is left of it is no chunk.
LEMMA ChunksOfText ==
  ASSUME NEW t \in Text, NEW least \in Nat \ {0}
  PROVE  CutsFrom(Chunks(t, least), t, 1, least)
<1> DEFINE n == Len(t)
           stop == {i \in 1 .. n + 1 : n - i + 1 < least}
           h == [i \in 1 .. n + 1 |-> <<>>]
           p == [i \in 1 .. n + 1 |-> SubSeq(t, i, SplitEnd(t, i))]
           nxt == [i \in 1 .. n + 1 |-> SplitEnd(t, i) + 1]
           step(g) == [i \in 1 .. n + 1 |->
                         IF n - i + 1 < least THEN <<>>
                         ELSE <<SubSeq(t, i, SplitEnd(t, i))>> \o g[SplitEnd(t, i) + 1]]
           from == CHOOSE g : g = step(g)
<1>1. n \in Nat
  BY TextShape
<1>2. ASSUME NEW i \in 1 .. n + 1, i \notin stop
      PROVE  /\ i \in 1 .. n
             /\ SplitEnd(t, i) \in i .. n
             /\ SplitEnd(t, i) - i + 1 \in 1 .. MaxChars
             /\ SubSeq(t, i, SplitEnd(t, i)) \in Text
             /\ Len(SubSeq(t, i, SplitEnd(t, i))) \in 1 .. MaxChars
  <2>1. i \in 1 .. n
    BY <1>1, <1>2
  <2>2. SplitEnd(t, i) \in i .. n /\ SplitEnd(t, i) - i + 1 \in 1 .. MaxChars
    BY <2>1, SplitEndInside
  <2> HIDE DEF stop, h, p, nxt, from
  <2>3. PICK e : e = SplitEnd(t, i)
    OBVIOUS
  <2>4. e \in i .. n /\ e - i + 1 \in 1 .. MaxChars
    BY <2>2, <2>3
  <2>5. e \in Int /\ i \in Int /\ i >= 1 /\ e <= Len(t) /\ i <= e
    BY <1>1, <2>4
  <2>6. SubSeq(t, i, e) \in Text /\ Len(SubSeq(t, i, e)) = e - i + 1
    BY <2>5, SubText
  <2> QED BY <2>1, <2>3, <2>4, <2>6
<1>3. \A i \in 1 .. n + 1 : IF i \in stop THEN h[i] \in Seq(Text)
                            ELSE p[i] \in Text /\ nxt[i] \in i + 1 .. n + 1
  <2> SUFFICES ASSUME NEW i \in 1 .. n + 1
               PROVE  IF i \in stop THEN h[i] \in Seq(Text)
                      ELSE p[i] \in Text /\ nxt[i] \in i + 1 .. n + 1
    OBVIOUS
  <2>1. h[i] = <<>> /\ p[i] = SubSeq(t, i, SplitEnd(t, i)) /\ nxt[i] = SplitEnd(t, i) + 1
    OBVIOUS
  <2>2. CASE i \in stop
    BY <2>1, <2>2, EmptySeq
  <2>3. CASE i \notin stop
    <3>1. SplitEnd(t, i) \in i .. n /\ SubSeq(t, i, SplitEnd(t, i)) \in Text
      BY <1>2, <2>3
    <3> HIDE DEF stop, h, p, nxt
    <3> QED BY <1>1, <2>1, <2>3, <3>1
  <2> QED BY <2>2, <2>3
<1>4. PICK f : Cuts(f, n, stop, h, p, nxt)
  <2> HIDE DEF n, stop, h, p, nxt
  <2> QED BY <1>1, <1>3, CutsExist
<1>5. f = step(f)
  BY <1>4 DEF Cuts
<1>6. from = step(from)
  <2> HIDE DEF step
  <2> QED BY <1>5, Zenon
<1>7. Chunks(t, least) = from[1]
  BY DEF Chunks
<1>8. /\ \A i \in stop : from[i] = <<>>
      /\ \A i \in (1 .. n + 1) \ stop :
           from[i] = <<SubSeq(t, i, SplitEnd(t, i))>> \o from[SplitEnd(t, i) + 1]
  <2> HIDE DEF from
  <2> QED BY <1>6
<1> DEFINE S == {i \in 1 .. n + 1 : CutsFrom(from[i], t, i, least)}
<1>9. ASSUME NEW i \in 1 .. n + 1, \A j \in i + 1 .. n + 1 : j \in S PROVE i \in S
  <2> HIDE DEF from, step
  <2> SUFFICES CutsFrom(from[i], t, i, least)
    OBVIOUS
  <2>0. \A j \in i + 1 .. n + 1 : CutsFrom(from[j], t, j, least)
    BY <1>1, <1>9
  <2>1. CASE i \in stop
    <3>1. from[i] = <<>>
      BY <1>8, <2>1
    <3>2. SubSeq(t, i, i - 1) = <<>>
      BY SubSeqEmpty
    <3>3. i - 1 \in i - 1 .. n /\ n - (i - 1) < least
      BY <1>1, <2>1
    <3>4. FlattenSeq(from[i]) = SubSeq(t, i, i - 1)
      BY <3>1, <3>2, FlattenNothing
    <3>5. from[i] \in Seq(Text) /\ Range(from[i]) = {}
      BY <3>1, EmptySeq DEF Range
    <3> QED BY <3>3, <3>4, <3>5 DEF CutsFrom
  <2>2. CASE i \notin stop
    <3>1. PICK m : m = SplitEnd(t, i)
      OBVIOUS
    <3>2. PICK c : c = SubSeq(t, i, m)
      OBVIOUS
    <3>3. i \in 1 .. n /\ m \in i .. n /\ c \in Text /\ Len(c) \in 1 .. MaxChars
      BY <1>2, <2>2, <3>1, <3>2
    <3>4. PICK r : r = from[m + 1]
      OBVIOUS
    <3>5. from[i] = <<c>> \o r
      BY <1>8, <2>2, <3>1, <3>2, <3>4
    <3>6. CutsFrom(r, t, m + 1, least)
      <4>1. m + 1 \in i + 1 .. n + 1
        BY <1>1, <3>3
      <4> QED BY <2>0, <3>4, <4>1
    <3>7. /\ r \in Seq(Text)
          /\ \A d \in Range(r) : Len(d) \in 1 .. MaxChars
          /\ \E e \in m .. n : FlattenSeq(r) = SubSeq(t, m + 1, e) /\ n - e < least
      <4>1. (m + 1) - 1 = m
        BY <1>1, <3>3
      <4> QED BY <3>6, <4>1 DEF CutsFrom
    <3> HIDE DEF stop, h, p, nxt
    <3>8. PICK e \in m .. n : FlattenSeq(r) = SubSeq(t, m + 1, e) /\ n - e < least
      BY <3>7
    <3>9. <<c>> \in Seq(Text) /\ FlattenSeq(<<c>>) = c
      BY <3>3, FlattenOne DEF Text
    <3>10. <<c>> \o r \in Seq(Text)
      BY <3>7, <3>9, ConcatProperties
    <3>11. Range(<<c>> \o r) = {c} \cup Range(r)
      <4>1. Range(<<c>>) = {c}
        BY DEF Range
      <4>2. Range(<<c>> \o r) = Range(<<c>>) \cup Range(r)
        <5>1. PICK cc : cc = <<c>>
          OBVIOUS
        <5>2. cc \in Seq(Text) /\ r \in Seq(Text)
          BY <3>7, <3>9, <5>1
        <5>3. Range(cc \o r) = Range(cc) \cup Range(r)
          BY <5>2, RangeConcatenation
        <5> QED BY <5>1, <5>3
      <4> QED BY <4>1, <4>2
    <3>12. FlattenSeq(<<c>> \o r) = c \o FlattenSeq(r)
      BY <3>7, <3>9, FlattenConcat DEF Text
    <3>13. c \o SubSeq(t, m + 1, e) = SubSeq(t, i, e)
      <4>1. i \in 1 .. Len(t) + 1 /\ m \in i - 1 .. Len(t) /\ e \in m .. Len(t)
        BY <1>1, <3>3
      <4> QED BY <3>2, <4>1, Meet
    <3>14. e \in i - 1 .. n
      BY <1>1, <3>3
    <3>15. CutsFrom(<<c>> \o r, t, i, least)
      BY <3>3, <3>5, <3>7, <3>8, <3>10, <3>11, <3>12, <3>13, <3>14 DEF CutsFrom
    <3> QED BY <3>5, <3>15
  <2> QED BY <2>1, <2>2
<1>10. 1 \in S
  <2> HIDE DEF S, n
  <2>1. \A i \in 1 .. n + 1 : i \in S
    BY <1>1, <1>9, FromTheEnd
  <2> QED BY <1>1, <2>1
<1> HIDE DEF from
<1>11. CutsFrom(from[1], t, 1, least)
  BY <1>10
<1> QED BY <1>7, <1>11

\* split_text_chars: the pieces of a text are all of it.
LEMMA SplitCharsKeepsText ==
  ASSUME NEW t \in Text, t # <<>>
  PROVE  /\ SplitChars(t) \in Seq(Text)
         /\ \A c \in Range(SplitChars(t)) : Len(c) \in 1 .. MaxChars
         /\ FlattenSeq(SplitChars(t)) = t
<1>1. SplitChars(t) = Chunks(t, 1)
  BY DEF SplitChars
<1>2. CutsFrom(Chunks(t, 1), t, 1, 1)
  BY ChunksOfText
<1>3. PICK e \in 1 - 1 .. Len(t) :
        FlattenSeq(Chunks(t, 1)) = SubSeq(t, 1, e) /\ Len(t) - e < 1
  BY <1>2 DEF CutsFrom
<1>4. e = Len(t)
  BY <1>3, TextShape
<1> QED BY <1>1, <1>2, <1>3, <1>4, TextShape DEF CutsFrom

\* take_full_chunks: the chunks and what is left are all of the buffer.
LEMMA FullChunksKeepText ==
  ASSUME NEW t \in Text
  PROVE  /\ FullChunks(t).chunks \in Seq(Text)
         /\ FullChunks(t).rest \in Text
         /\ FlattenSeq(FullChunks(t).chunks) \in Text
         /\ FlattenSeq(FullChunks(t).chunks) \o FullChunks(t).rest = t
<1>1. PICK c : c = Chunks(t, MaxChars)
  OBVIOUS
<1>2. /\ FullChunks(t).chunks = c
      /\ FullChunks(t).rest = SubSeq(t, Len(FlattenSeq(c)) + 1, Len(t))
  BY <1>1 DEF FullChunks
<1>3. CutsFrom(c, t, 1, MaxChars)
  BY <1>1, ChunksOfText, ReplyAssumption
<1>4. PICK e \in 1 - 1 .. Len(t) : FlattenSeq(c) = SubSeq(t, 1, e)
  BY <1>3 DEF CutsFrom
<1>5. Len(t) \in Nat /\ e \in 0 .. Len(t)
  BY TextShape
<1>6. SubSeq(t, 1, e) \in Text /\ Len(SubSeq(t, 1, e)) = e
  BY <1>5, SubText
<1>7. SubSeq(t, e + 1, Len(t)) \in Text
  BY <1>5, SubText
<1>8. SubSeq(t, 1, e) \o SubSeq(t, e + 1, Len(t)) = t
  <2>1. 1 \in 1 .. Len(t) + 1 /\ e \in 1 - 1 .. Len(t) /\ Len(t) \in e .. Len(t)
    BY <1>5
  <2> QED BY <2>1, Meet, TextShape
<1>9. c \in Seq(Text)
  BY <1>3 DEF CutsFrom
<1> QED BY <1>2, <1>4, <1>6, <1>7, <1>8, <1>9

\* c cuts a text from position i on into pieces of which each fits, unless a
\* cut tears a character.
CutsBytes(c, t, i) ==
  /\ c \in Seq(Text)
  /\ \A d \in Range(c) : Bytes(d) <= MaxBytes \/ d = Torn
  /\ Torn \notin Range(c) => FlattenSeq(c) = SubSeq(t, i, Len(t))

\* A piece in front of such pieces.
LEMMA OnePieceMore ==
  ASSUME NEW c \in Text, NEW r \in Seq(Text)
  PROVE  /\ <<c>> \o r \in Seq(Text)
         /\ Range(<<c>> \o r) = {c} \cup Range(r)
         /\ FlattenSeq(<<c>> \o r) = c \o FlattenSeq(r)
<1>1. PICK cc : cc = <<c>>
  OBVIOUS
<1>2. cc \in Seq(Text) /\ FlattenSeq(cc) = c
  BY <1>1, FlattenOne DEF Text
<1>3. Range(cc) = {c}
  BY <1>1 DEF Range
<1>4. cc \o r \in Seq(Text) /\ Range(cc \o r) = Range(cc) \cup Range(r)
  BY <1>2, ConcatProperties, RangeConcatenation
<1>5. FlattenSeq(cc \o r) = FlattenSeq(cc) \o FlattenSeq(r)
  BY <1>2, FlattenConcat DEF Text
<1> QED BY <1>1, <1>2, <1>3, <1>4, <1>5

\* split_text: the pieces of a text fit, and are all of it.
LEMMA SplitBytesKeepsText ==
  ASSUME NEW t \in Text
  PROVE  CutsBytes(SplitBytes(t), t, 1)
<1> DEFINE n == Len(t)
           upTo(i, j) == Bytes(SubSeq(t, i, j))
           fits(i)   == {j \in i .. n : upTo(i, j) <= MaxBytes}
           full(i)   == {j \in fits(i) : upTo(i, j) = MaxBytes}
           breaks(i) == {j \in fits(i) : t[j] = Break}
           end(i)    == IF breaks(i) # {} THEN Max(breaks(i)) ELSE Max(full(i))
           stop == {i \in 1 .. n + 1 : i > n \/ upTo(i, n) <= MaxBytes \/ full(i) = {}}
           h == [i \in 1 .. n + 1 |-> IF i > n THEN <<>>
                                      ELSE IF upTo(i, n) <= MaxBytes THEN <<SubSeq(t, i, n)>>
                                      ELSE <<Torn>>]
           p == [i \in 1 .. n + 1 |-> SubSeq(t, i, end(i))]
           nxt == [i \in 1 .. n + 1 |-> end(i) + 1]
           step(g) == [i \in 1 .. n + 1 |->
                         IF i > n THEN <<>>
                         ELSE IF upTo(i, n) <= MaxBytes THEN <<SubSeq(t, i, n)>>
                         ELSE IF full(i) = {} THEN <<Torn>>
                         ELSE <<SubSeq(t, i, end(i))>> \o g[end(i) + 1]]
           from == CHOOSE g : g = step(g)
<1>1. n \in Nat /\ Torn \in Text
  BY TextShape, TextsAreTexts
<1>2. CASE Bytes(t) <= MaxBytes
  <2>1. SplitBytes(t) = <<t>>
    BY <1>2 DEF SplitBytes
  <2>2. <<t>> \in Seq(Text) /\ Range(<<t>>) = {t} /\ FlattenSeq(<<t>>) = t
    BY FlattenOne DEF Range, Text
  <2> QED BY <1>2, <2>1, <2>2, TextShape DEF CutsBytes
<1>3. CASE ~ (Bytes(t) <= MaxBytes)
  <2>1. SplitBytes(t) = from[1]
    BY <1>3 DEF SplitBytes
  <2>2. ASSUME NEW i \in 1 .. n + 1, i \notin stop
        PROVE  /\ i \in 1 .. n
               /\ end(i) \in i .. n /\ upTo(i, end(i)) <= MaxBytes
               /\ SubSeq(t, i, end(i)) \in Text
    <3>1. i \in 1 .. n /\ full(i) # {}
      BY <1>1, <2>2
    <3>2. fits(i) \subseteq i .. n
      OBVIOUS
    <3>3. ASSUME NEW R \in SUBSET fits(i), R # {} PROVE Max(R) \in fits(i)
      <4> HIDE DEF fits, full, breaks, end, stop, h, p, nxt, from
      <4>1. R \in SUBSET Nat /\ \A m \in R : m <= n
        BY <1>1, <3>1, <3>2
      <4> QED BY <1>1, <3>3, <4>1, MaxIsGreatest
    <3>4. full(i) \in SUBSET fits(i) /\ breaks(i) \in SUBSET fits(i)
      OBVIOUS
    <3>5. end(i) \in fits(i)
      <4> HIDE DEF fits, full, breaks
      <4> QED BY <3>1, <3>3, <3>4
    <3>6. PICK e : e = end(i)
      OBVIOUS
    <3>7. e \in i .. n /\ upTo(i, e) <= MaxBytes
      BY <3>5, <3>6
    <3>8. SubSeq(t, i, e) \in Text
      BY <1>1, <3>1, <3>7, SubText
    <3> QED BY <3>1, <3>6, <3>7, <3>8
  <2>3. \A i \in 1 .. n + 1 : IF i \in stop THEN h[i] \in Seq(Text)
                              ELSE p[i] \in Text /\ nxt[i] \in i + 1 .. n + 1
    <3> SUFFICES ASSUME NEW i \in 1 .. n + 1
                 PROVE  IF i \in stop THEN h[i] \in Seq(Text)
                        ELSE p[i] \in Text /\ nxt[i] \in i + 1 .. n + 1
      OBVIOUS
    <3>1. CASE i \in stop
      <4>1. <<>> \in Seq(Text) /\ <<Torn>> \in Seq(Text)
        BY <1>1
      <4>2. i <= n => SubSeq(t, i, n) \in Text
        BY <1>1, SubText
      <4>3. i <= n => <<SubSeq(t, i, n)>> \in Seq(Text)
        BY <4>2
      <4>4. h[i] \in {<<>>, <<SubSeq(t, i, n)>>, <<Torn>>} /\ (i > n => h[i] = <<>>)
        OBVIOUS
      <4>5. i > n \/ i <= n
        BY <1>1
      <4> HIDE DEF h, stop, n, p, nxt
      <4> QED BY <3>1, <4>1, <4>3, <4>4, <4>5
    <3>2. CASE i \notin stop
      <4>1. PICK e : e = end(i)
        OBVIOUS
      <4>2. e \in i .. n /\ SubSeq(t, i, e) \in Text
        BY <2>2, <3>2, <4>1
      <4>3. p[i] = SubSeq(t, i, e) /\ nxt[i] = e + 1
        BY <4>1
      <4> HIDE DEF stop, h, p, nxt
      <4> QED BY <1>1, <3>2, <4>2, <4>3
    <3> QED BY <3>1, <3>2
  <2>4. PICK f : Cuts(f, n, stop, h, p, nxt)
    <3> HIDE DEF n, stop, h, p, nxt
    <3> QED BY <1>1, <2>3, CutsExist
  <2>5. f = step(f)
    <3>1. \A i \in 1 .. n + 1 :
            (IF i \in stop THEN h[i] ELSE <<p[i]>> \o f[nxt[i]]) = step(f)[i]
      <4> SUFFICES ASSUME NEW i \in 1 .. n + 1
                   PROVE  (IF i \in stop THEN h[i] ELSE <<p[i]>> \o f[nxt[i]]) = step(f)[i]
        OBVIOUS
      <4> HIDE DEF upTo, full, end
      <4> QED OBVIOUS
    <3> HIDE DEF stop, h, p, nxt, upTo, full, end
    <3> QED BY <2>4, <3>1 DEF Cuts
  <2>6. from = step(from)
    <3> HIDE DEF step
    <3> QED BY <2>5, Zenon
  <2>7. ASSUME NEW i \in 1 .. n + 1
        PROVE  from[i] = IF i \in stop THEN h[i] ELSE <<SubSeq(t, i, end(i))>> \o from[end(i) + 1]
    <3> HIDE DEF from, upTo, full, end
    <3> QED BY <2>6
  <2> DEFINE S == {i \in 1 .. n + 1 : CutsBytes(from[i], t, i)}
  <2>8. ASSUME NEW i \in 1 .. n + 1, \A j \in i + 1 .. n + 1 : j \in S PROVE i \in S
    <3> HIDE DEF from, step
    <3> SUFFICES CutsBytes(from[i], t, i)
      OBVIOUS
    <3>1. \A j \in i + 1 .. n + 1 : CutsBytes(from[j], t, j)
      BY <1>1, <2>8
    <3>2. CASE i \in stop
      <4>1. from[i] = h[i]
        <5> HIDE DEF stop, h
        <5> QED BY <2>7, <3>2
      <4>2. CASE i > n
        <5>1. h[i] = <<>>
          BY <4>2
        <5>2. SubSeq(t, i, n) = <<>>
          BY <1>1, <4>2, SubSeqEmpty
        <5>3. <<>> \in Seq(Text) /\ Range(<<>>) = {}
          BY EmptySeq DEF Range
        <5> HIDE DEF h, stop
        <5> QED BY <4>1, <5>1, <5>2, <5>3, FlattenNothing DEF CutsBytes
      <4>3. CASE ~ (i > n) /\ upTo(i, n) <= MaxBytes
        <5>1. h[i] = <<SubSeq(t, i, n)>>
          BY <4>3
        <5>2. PICK c : c = SubSeq(t, i, n)
          OBVIOUS
        <5>3. c \in Text
          BY <1>1, <4>3, <5>2, SubText
        <5>4. <<c>> \in Seq(Text) /\ Range(<<c>>) = {c} /\ FlattenSeq(<<c>>) = c
          BY <5>3, FlattenOne DEF Range, Text
        <5>5. from[i] = <<c>> /\ Bytes(c) <= MaxBytes /\ c = SubSeq(t, i, Len(t))
          <6>1. Bytes(c) <= MaxBytes
            BY <4>3, <5>2
          <6> HIDE DEF h, stop
          <6> QED BY <4>1, <5>1, <5>2, <6>1
        <5>6. CutsBytes(<<c>>, t, i)
          <6> HIDE DEF h, stop, p, nxt
          <6> QED BY <5>4, <5>5 DEF CutsBytes
        <5> QED BY <5>5, <5>6
      <4>4. CASE ~ (i > n) /\ ~ (upTo(i, n) <= MaxBytes)
        <5>1. h[i] = <<Torn>>
          BY <4>4
        <5>2. <<Torn>> \in Seq(Text) /\ Range(<<Torn>>) = {Torn}
          BY <1>1 DEF Range
        <5> HIDE DEF h, stop
        <5> QED BY <4>1, <5>1, <5>2 DEF CutsBytes
      <4> QED BY <4>2, <4>3, <4>4
    <3>3. CASE i \notin stop
      <4>1. PICK m : m = end(i)
        OBVIOUS
      <4>2. PICK c : c = SubSeq(t, i, m)
        OBVIOUS
      <4>3. i \in 1 .. n /\ m \in i .. n /\ c \in Text /\ Bytes(c) <= MaxBytes
        BY <2>2, <3>3, <4>1, <4>2
      <4>4. PICK r : r = from[m + 1]
        OBVIOUS
      <4> HIDE DEF end
      <4>5. from[i] = <<c>> \o r
        <5> HIDE DEF stop, h
        <5> QED BY <2>7, <3>3, <4>1, <4>2, <4>4
      <4> HIDE DEF stop, h, p, nxt
      <4>6. CutsBytes(r, t, m + 1)
        <5>1. m + 1 \in i + 1 .. n + 1
          BY <1>1, <4>3
        <5> QED BY <3>1, <4>4, <5>1
      <4>7. r \in Seq(Text)
        BY <4>6 DEF CutsBytes
      <4>8. /\ <<c>> \o r \in Seq(Text)
            /\ Range(<<c>> \o r) = {c} \cup Range(r)
            /\ FlattenSeq(<<c>> \o r) = c \o FlattenSeq(r)
        BY <4>3, <4>7, OnePieceMore
      <4>9. c \o SubSeq(t, m + 1, n) = SubSeq(t, i, n)
        <5>1. i \in 1 .. Len(t) + 1 /\ m \in i - 1 .. Len(t) /\ n \in m .. Len(t)
          BY <1>1, <4>3
        <5> QED BY <4>2, <5>1, Meet
      <4>10. CutsBytes(<<c>> \o r, t, i)
        BY <4>3, <4>6, <4>8, <4>9 DEF CutsBytes
      <4> QED BY <4>5, <4>10
    <3> QED BY <3>2, <3>3
  <2>9. 1 \in S
    <3> HIDE DEF S, n
    <3>1. \A i \in 1 .. n + 1 : i \in S
      BY <1>1, <2>8, FromTheEnd
    <3> QED BY <1>1, <3>1
  <2> HIDE DEF from
  <2> QED BY <2>1, <2>9
<1> QED BY <1>2, <1>3

-----------------------------------------------------------------------------
(* A text shown to its end.                                                    *)

\* The limits are numbers, and a piece of a text is no longer than a message.
LEMMA Limits ==
  /\ MaxChars \in Nat \ {0} /\ MaxBytes \in Nat \ {0} /\ MaxMessage \in Nat \ {0}
  /\ MaxOutput \in Nat \ {0}
  /\ MaxBytes <= MaxMessage /\ MaxMessage > 4
<1>1. {MaxChars, MaxBytes, MaxMessage, MaxOutput} \subseteq Nat \ {0}
  BY ReplyAssumption, Zenon
<1>2. MaxBytes <= MaxMessage /\ MaxMessage > 4
  BY ReplyAssumption, Zenon
<1> QED BY <1>1, <1>2

\* Characters of one byte in front of a text take a byte each.
LEMMA BytesBehindEllipsis ==
  ASSUME NEW x \in Text
  PROVE  /\ Bytes(x) \in Nat
         /\ Ellipsis \o x \in Text
         /\ Bytes(Ellipsis \o x) <= Bytes(x) + 3
<1>1. PICK y : y = Ellipsis \o x
  OBVIOUS
<1>2. /\ Len(x) \in Nat /\ DOMAIN x = 1 .. Len(x)
      /\ Ellipsis \in Text /\ Len(Ellipsis) = 3
      /\ \A i \in 1 .. 3 : Ellipsis[i] \notin Wide
  <2>1. Ellipsis \in Text
    BY TextsAreTexts
  <2>2. Len(Ellipsis) = 3 /\ DOMAIN Ellipsis = 1 .. 3
    <3>1. Len(Ellipsis) = 3
      BY DEF Ellipsis
    <3> QED BY <2>1, <3>1, TextShape
  <2>3. \A i \in DOMAIN Ellipsis : Ellipsis[i] \in Range(Ellipsis)
    BY DEF Range
  <2>4. \A c \in Range(Ellipsis) : c \notin Wide
    BY ReplyAssumption, Zenon
  <2> QED BY <2>1, <2>2, <2>3, <2>4, TextShape
<1>3. /\ y \in Text /\ Len(y) = Len(x) + 3 /\ DOMAIN y = 1 .. Len(x) + 3
      /\ \A i \in 1 .. 3 : y[i] \notin Wide
      /\ \A i \in 1 .. Len(x) : y[i + 3] = x[i]
  <2>0. PICK e : e = Ellipsis
    OBVIOUS
  <2>1. /\ y \in Text /\ Len(y) = 3 + Len(x)
        /\ \A i \in 1 .. 3 + Len(x) : y[i] = IF i <= 3 THEN Ellipsis[i] ELSE x[i - 3]
    <3>1. e \in Seq(Char) /\ x \in Seq(Char) /\ Len(e) = 3 /\ y = e \o x
      BY <1>1, <1>2, <2>0 DEF Text
    <3>2. /\ y \in Seq(Char) /\ Len(y) = Len(e) + Len(x)
          /\ \A i \in 1 .. Len(e) + Len(x) : y[i] = IF i <= Len(e) THEN e[i] ELSE x[i - Len(e)]
      BY <3>1, ConcatProperties
    <3> QED BY <2>0, <3>1, <3>2 DEF Text
  <2>2. \A i \in 1 .. 3 + Len(x) : y[i] = IF i <= 3 THEN Ellipsis[i] ELSE x[i - 3]
    BY <2>1
  <2>3. \A i \in 1 .. 3 : y[i] = Ellipsis[i]
    BY <1>2, <2>2
  <2>4. ASSUME NEW i \in 1 .. Len(x) PROVE y[i + 3] = x[i]
    <3>1. i + 3 \in 1 .. 3 + Len(x) /\ ~ (i + 3 <= 3) /\ (i + 3) - 3 = i
      BY <1>2
    <3> QED BY <2>2, <3>1
  <2> QED BY <1>2, <2>1, <2>3, <2>4, TextShape
<1>4. PICK S : S = {i \in DOMAIN x : x[i] \in Wide}
  OBVIOUS
<1>5. PICK R : R = {i \in DOMAIN y : y[i] \in Wide}
  OBVIOUS
<1>6. IsFiniteSet(S) /\ Cardinality(S) \in Nat
  <2>1. S \in SUBSET (1 .. Len(x)) /\ IsFiniteSet(1 .. Len(x))
    BY <1>2, <1>4, FS_Interval
  <2> QED BY <2>1, FS_Subset, FS_CardinalityType
<1>7. IsFiniteSet(R) /\ Cardinality(R) \in Nat /\ Cardinality(R) <= Cardinality(S)
  <2> DEFINE g == [i \in S |-> i + 3]
  <2>1. \A i \in S : i + 3 \in R
    BY <1>2, <1>3, <1>4, <1>5
  <2>2. \A j \in R : j - 3 \in S /\ (j - 3) + 3 = j
    <3> SUFFICES ASSUME NEW j \in R PROVE j - 3 \in S /\ (j - 3) + 3 = j
      OBVIOUS
    <3>1. j \in 1 .. Len(x) + 3 /\ y[j] \in Wide
      BY <1>3, <1>5
    <3>2. j \notin 1 .. 3
      BY <1>3, <3>1
    <3>3. j - 3 \in 1 .. Len(x) /\ (j - 3) + 3 = j
      BY <1>2, <3>1, <3>2
    <3>4. x[j - 3] \in Wide
      BY <1>3, <3>1, <3>3
    <3> QED BY <1>2, <1>4, <3>3, <3>4
  <2>3. g \in Surjection(S, R)
    BY <2>1, <2>2 DEF Surjection
  <2> QED BY <1>6, <2>3, FS_Surjection, FS_CardinalityType
<1>8. Bytes(x) = Len(x) + 2 * Cardinality(S)
  BY <1>4 DEF Bytes
<1>9. Bytes(y) = (Len(x) + 3) + 2 * Cardinality(R)
  BY <1>3, <1>5 DEF Bytes
<1>10. Bytes(x) \in Nat /\ Bytes(y) <= Bytes(x) + 3
  BY <1>2, <1>6, <1>7, <1>8, <1>9
<1> QED BY <1>1, <1>3, <1>10

\* on_stream_delta: what is shown of a text fits.
LEMMA ShownFits ==
  ASSUME NEW t \in Text
  PROVE  /\ Shown(t) \in Text
         /\ Shown(t) = Torn \/ Bytes(Shown(t)) <= MaxMessage
<1> DEFINE room  == MaxMessage - 4
           whole == {i \in DOMAIN t : Bytes(SubSeq(t, i, Len(t))) = room}
<1>1. Len(t) \in Nat /\ DOMAIN t = 1 .. Len(t) /\ MaxMessage \in Nat
  BY TextShape, Limits
<1>2. CASE Bytes(t) <= MaxMessage
  BY <1>2 DEF Shown
<1>3. CASE ~ (Bytes(t) <= MaxMessage) /\ whole = {}
  BY <1>3, TextsAreTexts DEF Shown
<1>4. CASE ~ (Bytes(t) <= MaxMessage) /\ whole # {}
  <2>1. PICK m : m = Max(whole)
    OBVIOUS
  <2>2. m \in whole
    <3>1. whole \in SUBSET Nat /\ \A i \in whole : i <= Len(t)
      BY <1>1
    <3> HIDE DEF whole
    <3> QED BY <1>1, <1>4, <2>1, <3>1, MaxIsGreatest
  <2>3. PICK x : x = SubSeq(t, m, Len(t))
    OBVIOUS
  <2>4. x \in Text /\ Bytes(x) = room
    BY <1>1, <2>2, <2>3, SubText
  <2>5. Shown(t) = Ellipsis \o x
    BY <1>4, <2>1, <2>3 DEF Shown
  <2>6. Ellipsis \o x \in Text /\ Bytes(Ellipsis \o x) <= Bytes(x) + 3
    BY <2>4, BytesBehindEllipsis
  <2>7. Bytes(Ellipsis \o x) \in Int
    BY <2>6, BytesBehindEllipsis, TextShape
  <2> QED BY <1>1, <2>4, <2>5, <2>6, <2>7
<1> QED BY <1>2, <1>3, <1>4

\* A message of one character, and one without any.
LEMMA ShortTextsFit ==
  Bytes(Placeholder) <= MaxMessage /\ Bytes(<<>>) <= MaxMessage
<1>1. MaxMessage \in Nat /\ MaxMessage > 4
  BY Limits
<1>2. Bytes(<<>>) = 0
  <2>1. {i \in DOMAIN <<>> : <<>>[i] \in Wide} = {}
    OBVIOUS
  <2> QED BY <2>1, FS_EmptySet DEF Bytes
<1>3. Bytes(Placeholder) <= 3
  <2>1. PICK S : S = {i \in DOMAIN Placeholder : Placeholder[i] \in Wide}
    OBVIOUS
  <2>2. S \in SUBSET {1} /\ IsFiniteSet({1}) /\ Cardinality({1}) = 1
    <3>1. DOMAIN Placeholder = {1}
      BY DEF Placeholder
    <3> QED BY <2>1, <3>1, FS_Singleton
  <2>3. Cardinality(S) \in Nat /\ Cardinality(S) <= 1
    BY <2>2, FS_Subset, FS_CardinalityType
  <2>4. Bytes(Placeholder) = 1 + 2 * Cardinality(S)
    BY <2>1 DEF Bytes, Placeholder
  <2> QED BY <2>3, <2>4
<1> QED
  <2>1. Bytes(Placeholder) \in Int
    BY TextsAreTexts, BytesBehindEllipsis
  <2> QED BY <1>1, <1>2, <1>3, <2>1

-----------------------------------------------------------------------------
(* Types.                                                                      *)

AnyId == Ids \cup {NoId, Fresh}
Partial(S, T) == UNION {[D -> T] : D \in SUBSET S}

Agents == [open : SUBSET AnyId, over : BOOLEAN, asking : BOOLEAN,
           asked : BOOLEAN, n : Nat]
Events == [kind : {"announced", "delta", "completed", "failed", "error"},
           id : AnyId, text : Text, content : BOOLEAN]
Sinks  == [seen : SUBSET Text, buffer : Text, sent : BOOLEAN, failed : Nat,
           bubble : Nat]
Calls  == [op : {"send", "place", "edit", "final", "delete"}, text : Text,
           at : Nat]

AgentOK == agent \in Agents /\ coming \in Seq(Events)
PipeOK ==
  /\ typed \subseteq AnyId /\ buffers \in Partial(AnyId, Text)
  /\ segments \in Seq(Text) /\ spoken \in Seq(Text)
  /\ last \in Text /\ parts \in Seq(Text)
SinkOK == sink \in Sinks /\ outbox \in Seq(Calls)
ChatOK == chat \in Seq(Text) /\ hidden \in BOOLEAN
TypeOK ==
  /\ route \in Routes /\ source \in Sources
  /\ AgentOK /\ PipeOK /\ SinkOK /\ ChatOK
  /\ stage \in {"reading", "closing", "ok", "error", "panicked"}

\* A function on some of the keys.
LEMMA PartialShape ==
  ASSUME NEW S, NEW T, NEW f \in Partial(S, T)
  PROVE  /\ DOMAIN f \subseteq S
         /\ \A k \in DOMAIN f : f[k] \in T
         /\ f = [k \in DOMAIN f |-> f[k]]
BY DEF Partial

\* A function on some of the keys, from its values.
LEMMA PartialOf ==
  ASSUME NEW S, NEW T, NEW D \in SUBSET S, NEW f \in [D -> T]
  PROVE  f \in Partial(S, T)
BY DEF Partial

\* A key more.
LEMMA PartialMore ==
  ASSUME NEW S, NEW T, NEW f \in Partial(S, T), NEW k \in S, NEW v \in T
  PROVE  /\ With(f, k, v) \in Partial(S, T)
         /\ [f EXCEPT ![k] = v] \in Partial(S, T)
<1>1. DOMAIN f \cup {k} \in SUBSET S
  BY PartialShape
<1>2. With(f, k, v) \in [DOMAIN f \cup {k} -> T]
  BY PartialShape DEF With
<1>3. [f EXCEPT ![k] = v] \in [DOMAIN f -> T]
  BY PartialShape
<1>4. With(f, k, v) \in Partial(S, T)
  BY <1>1, <1>2, PartialOf
<1>5. [f EXCEPT ![k] = v] \in Partial(S, T)
  <2>1. DOMAIN f \in SUBSET S
    BY PartialShape
  <2> QED BY <1>3, <2>1, PartialOf
<1> QED BY <1>4, <1>5

\* A key less.
LEMMA PartialLess ==
  ASSUME NEW S, NEW T, NEW f \in Partial(S, T), NEW k
  PROVE  Without(f, k) \in Partial(S, T)
<1>1. Without(f, k) \in [DOMAIN f \ {k} -> T] /\ DOMAIN f \ {k} \in SUBSET S
  BY PartialShape DEF Without
<1> QED BY <1>1, PartialOf

\* The texts of calls, one after the other.
TextsOf(calls) == FlattenSeq([i \in DOMAIN calls |-> calls[i].text])

\* The calls that send the pieces of a text.
SendsOf(pieces) == [i \in DOMAIN pieces |-> Call("send", pieces[i], 0)]

\* The calls that send pieces carry their texts.
LEMMA SendsCarry ==
  ASSUME NEW pieces \in Seq(Text)
  PROVE  /\ SendsOf(pieces) \in Seq(Calls) /\ Len(SendsOf(pieces)) = Len(pieces)
         /\ \A i \in DOMAIN SendsOf(pieces) : SendsOf(pieces)[i].op = "send"
         /\ \A i \in DOMAIN SendsOf(pieces) : SendsOf(pieces)[i].at = 0
         /\ TextsOf(SendsOf(pieces)) = FlattenSeq(pieces)
<1>1. PICK n : n = Len(pieces)
  OBVIOUS
<1>2. n \in Nat /\ DOMAIN pieces = 1 .. n /\ \A i \in 1 .. n : pieces[i] \in Text
  BY <1>1, LenProperties
<1>3. PICK s : s = SendsOf(pieces)
  OBVIOUS
<1>4. s = [i \in 1 .. n |-> [op |-> "send", text |-> pieces[i], at |-> 0]]
  BY <1>2, <1>3 DEF SendsOf, Call
<1>5. s \in [1 .. n -> Calls]
  BY <1>2, <1>4 DEF Calls
<1>6. s \in Seq(Calls) /\ Len(s) = n /\ DOMAIN s = 1 .. n
  BY <1>2, <1>5
<1>7. [i \in DOMAIN s |-> s[i].text] = pieces
  <2>1. [i \in DOMAIN s |-> s[i].text] = [i \in 1 .. n |-> pieces[i]]
    BY <1>4, <1>6
  <2> QED BY <1>1, <1>2, <2>1
<1>8. TextsOf(s) = FlattenSeq(pieces)
  BY <1>7, Zenon DEF TextsOf
<1>9. \A i \in DOMAIN s : s[i].op = "send" /\ s[i].at = 0
  BY <1>4, <1>6
<1> QED BY <1>1, <1>3, <1>6, <1>8, <1>9

\* The texts of two lists of calls, of one call and of none.
LEMMA TextsOfCalls ==
  ASSUME NEW a \in Seq(Calls), NEW b \in Seq(Calls), NEW c \in Calls
  PROVE  /\ TextsOf(a) \in Text /\ TextsOf(b) \in Text
         /\ TextsOf(a \o b) = TextsOf(a) \o TextsOf(b)
         /\ TextsOf(<<c>>) = c.text
         /\ TextsOf(<<>>) = <<>>
<1> DEFINE T(s) == [i \in DOMAIN s |-> s[i].text]
<1>1. ASSUME NEW s \in Seq(Calls)
      PROVE  T(s) \in Seq(Text) /\ Len(T(s)) = Len(s) /\ DOMAIN T(s) = 1 .. Len(s)
  <2>1. Len(s) \in Nat /\ DOMAIN s = 1 .. Len(s) /\ \A i \in 1 .. Len(s) : s[i] \in Calls
    BY LenProperties
  <2>2. T(s) \in [1 .. Len(s) -> Text]
    BY <2>1 DEF Calls
  <2> QED BY <2>1, <2>2
<1>2. a \o b \in Seq(Calls) /\ Len(a \o b) = Len(a) + Len(b)
  BY ConcatProperties
<1>3. T(a \o b) = T(a) \o T(b)
  <2>1. Len(a) \in Nat /\ Len(b) \in Nat /\ DOMAIN a = 1 .. Len(a) /\ DOMAIN b = 1 .. Len(b)
    BY LenProperties
  <2>2. PICK x : x = T(a)
    OBVIOUS
  <2>3. PICK y : y = T(b)
    OBVIOUS
  <2>4. PICK z : z = T(a \o b)
    OBVIOUS
  <2>5. /\ x \in Seq(Text) /\ Len(x) = Len(a)
        /\ y \in Seq(Text) /\ Len(y) = Len(b)
        /\ z \in Seq(Text) /\ Len(z) = Len(a) + Len(b)
    <3> HIDE DEF T
    <3> QED BY <1>1, <1>2, <2>2, <2>3, <2>4
  <2>6. ASSUME NEW i \in 1 .. Len(a) + Len(b)
        PROVE  z[i] = IF i <= Len(x) THEN x[i] ELSE y[i - Len(x)]
    <3>1. z[i] = (a \o b)[i].text
      <4>1. DOMAIN (a \o b) = 1 .. Len(a) + Len(b)
        BY <1>2, LenProperties
      <4> QED BY <2>4, <4>1
    <3>2. (a \o b)[i] = IF i <= Len(a) THEN a[i] ELSE b[i - Len(a)]
      BY ConcatProperties
    <3>3. CASE i <= Len(a)
      BY <2>1, <2>2, <2>5, <3>1, <3>2, <3>3
    <3>4. CASE ~ (i <= Len(a))
      <4>1. i - Len(a) \in DOMAIN b
        BY <2>1, <3>4
      <4> QED BY <2>1, <2>3, <2>5, <3>1, <3>2, <3>4, <4>1
    <3> QED BY <3>3, <3>4
  <2>7. /\ x \o y \in Seq(Text) /\ Len(x \o y) = Len(a) + Len(b)
        /\ \A i \in 1 .. Len(a) + Len(b) :
             (x \o y)[i] = IF i <= Len(x) THEN x[i] ELSE y[i - Len(x)]
    <3>1. x \in Seq(Text) /\ y \in Seq(Text)
      BY <2>5
    <3>2. /\ x \o y \in Seq(Text) /\ Len(x \o y) = Len(x) + Len(y)
          /\ \A i \in 1 .. Len(x) + Len(y) :
               (x \o y)[i] = IF i <= Len(x) THEN x[i] ELSE y[i - Len(x)]
      BY <3>1, ConcatProperties
    <3> HIDE DEF T
    <3> QED BY <2>5, <3>2
  <2>8. z = x \o y
    <3> HIDE DEF T
    <3>1. PICK w : w = x \o y
      OBVIOUS
    <3>2. /\ w \in Seq(Text) /\ Len(w) = Len(z)
          /\ \A i \in 1 .. Len(z) : w[i] = z[i]
      BY <2>5, <2>6, <2>7, <3>1
    <3> QED BY <2>5, <3>1, <3>2, SeqEqual
  <2> HIDE DEF T
  <2> QED BY <2>2, <2>3, <2>4, <2>8
<1>4. T(a) \in Seq(Seq(Char)) /\ T(b) \in Seq(Seq(Char))
  BY <1>1 DEF Text
<1>5. /\ FlattenSeq(T(a)) \in Text /\ FlattenSeq(T(b)) \in Text
      /\ FlattenSeq(T(a) \o T(b)) = FlattenSeq(T(a)) \o FlattenSeq(T(b))
  <2> HIDE DEF T
  <2> QED BY <1>4, FlattenConcat DEF Text
<1>6. T(<<c>>) = <<c.text>> /\ T(<<>>) = <<>>
  OBVIOUS
<1>7. c.text \in Seq(Char)
  BY DEF Calls, Text
<1>8. /\ TextsOf(a) = FlattenSeq(T(a)) /\ TextsOf(b) = FlattenSeq(T(b))
      /\ TextsOf(a \o b) = FlattenSeq(T(a \o b))
      /\ TextsOf(<<c>>) = FlattenSeq(T(<<c>>)) /\ TextsOf(<<>>) = FlattenSeq(T(<<>>))
  BY Zenon DEF TextsOf
<1> HIDE DEF T
<1> QED BY <1>3, <1>5, <1>6, <1>7, <1>8, FlattenOne, FlattenNothing

\* Texts in a row are a text.
LEMMA FlattenText ==
  ASSUME NEW ss \in Seq(Text)
  PROVE  FlattenSeq(ss) \in Text
<1>1. ss \in Seq(Seq(Char)) /\ <<>> \in Seq(Char)
  BY DEF Text
<1> QED BY <1>1, FlattenAppend DEF Text

\* Two texts and a break between them, and what the pieces of a sequence are.
LEMMA TextConcat ==
  ASSUME NEW s \in Text, NEW t \in Text
  PROVE  s \o t \in Text
BY ConcatProperties DEF Text

\* The text of a reply and what is sent at its end are texts.
LEMMA NoticesAreTexts ==
  ASSUME TypeOK
  PROVE  /\ Whole \in Text /\ Answer \in Text /\ PlainReply \in Text
         /\ Joined(segments) \in Text
<1>1. segments \in Seq(Text) /\ last \in Text /\ parts \in Seq(Text)
  BY DEF TypeOK, PipeOK
<1>2. NoResponse \in Text /\ <<Break>> \in Text
  BY TextsAreTexts
<1>3. Joined(segments) \in Text
  <2> DEFINE f == [i \in DOMAIN segments |->
                     IF i = 1 THEN segments[i] ELSE <<Break>> \o segments[i]]
  <2>1. \A i \in DOMAIN segments : segments[i] \in Text
    BY <1>1, LenProperties
  <2>2. \A i \in DOMAIN segments : <<Break>> \o segments[i] \in Text
    BY <1>2, <2>1, TextConcat
  <2>3. DOMAIN segments = 1 .. Len(segments) /\ Len(segments) \in Nat
    BY <1>1, LenProperties
  <2>4. f \in [1 .. Len(segments) -> Text]
    BY <2>1, <2>2, <2>3
  <2>5. f \in Seq(Text)
    BY <2>3, <2>4
  <2>6. Joined(segments) = FlattenSeq(f)
    BY DEF Joined
  <2> HIDE DEF f
  <2> QED BY <2>5, <2>6, FlattenText
<1>4. Whole \in Text /\ Answer \in Text
  BY <1>1, <1>2, <1>3 DEF Whole, Answer
<1>5. parts # <<>> => parts[1] \in Text
  BY <1>1, LenProperties, EmptySeq
<1> QED BY <1>3, <1>4, <1>5 DEF PlainReply

\* append_output leaves a text.
LEMMA OutputIsText ==
  ASSUME NEW t \in Text
  PROVE  Output(t) \in Text
<1> DEFINE cut == {i \in 0 .. Len(t) : Bytes(SubSeq(t, 1, i)) = MaxOutput}
<1>1. Len(t) \in Nat /\ Torn \in Text
  BY TextShape, TextsAreTexts
<1>2. CASE Bytes(t) < MaxOutput
  BY <1>2 DEF Output
<1>3. CASE ~ (Bytes(t) < MaxOutput) /\ cut = {}
  BY <1>1, <1>3 DEF Output
<1>4. CASE ~ (Bytes(t) < MaxOutput) /\ cut # {}
  <2>1. PICK m : m = Max(cut)
    OBVIOUS
  <2>2. m \in 0 .. Len(t)
    <3>1. cut \in SUBSET Nat /\ \A i \in cut : i <= Len(t) /\ i \in 0 .. Len(t)
      BY <1>1
    <3> HIDE DEF cut
    <3> QED BY <1>1, <1>4, <2>1, <3>1, MaxIsGreatest
  <2>3. Output(t) = SubSeq(t, 1, m)
    BY <1>4, <2>1 DEF Output
  <2> QED BY <1>1, <2>2, <2>3, SubText
<1> QED BY <1>2, <1>3, <1>4

\* A sink is a record of its fields.
LEMMA SinkFields ==
  ASSUME NEW s \in Sinks
  PROVE  /\ s.seen \in SUBSET Text /\ s.buffer \in Text /\ s.sent \in BOOLEAN
         /\ s.failed \in Nat /\ s.bubble \in Nat
         /\ s = [seen |-> s.seen, buffer |-> s.buffer, sent |-> s.sent,
                 failed |-> s.failed, bubble |-> s.bubble]
BY DEF Sinks

\* What append_segment makes of a sink and a text.
Joins(s, text, made) ==
  /\ made.sink \in Sinks /\ made.calls \in Seq(Calls)
  /\ \A i \in DOMAIN made.calls : made.calls[i].op = "send" /\ made.calls[i].at = 0
  /\ made.sink.sent = s.sent /\ made.sink.failed = s.failed
  /\ made.sink.bubble = s.bubble
  /\ made.sink.seen = s.seen \cup ({Trim(text)} \ {<<>>})
  /\ Ink(TextsOf(made.calls)) \o Ink(made.sink.buffer) =
       Ink(s.buffer) \o (IF Trim(text) \in s.seen THEN <<>> ELSE Ink(text))

\* append_segment: of a text that was not seen before everything that can be
\* read joins what is on its way, and of a text that was seen nothing does.
LEMMA SegmentJoins ==
  ASSUME NEW s \in Sinks, NEW text \in Text
  PROVE  Joins(s, text, AppendSegment(s, text))
<1>0. PICK made : made = AppendSegment(s, text)
  OBVIOUS
<1> SUFFICES Joins(s, text, made)
  BY <1>0
<1>1. PICK t : t = Trim(text)
  OBVIOUS
<1>2. t \in Text /\ Ink(t) = Ink(text) /\ (t = <<>> <=> Ink(text) = <<>>)
  BY <1>1, InkOfTrim
<1>3. /\ s.seen \in SUBSET Text /\ s.buffer \in Text /\ s.sent \in BOOLEAN
      /\ s.failed \in Nat /\ s.bubble \in Nat
  BY SinkFields
<1>4. Ink(s.buffer) \in Seq(Char) /\ Ink(t) \in Seq(Char)
  BY <1>2, <1>3, InkConcat DEF Text
<1>5. CASE t = <<>> \/ t \in s.seen
  <2>1. made = [sink |-> s, calls |-> <<>>]
    BY <1>0, <1>1, <1>5 DEF AppendSegment
  <2>2. Ink(TextsOf(<<>>)) = <<>>
    BY TextsOfCalls, InkNothing, FlattenNothing DEF TextsOf
  <2>3. <<>> \o Ink(s.buffer) = Ink(s.buffer) /\ Ink(s.buffer) \o <<>> = Ink(s.buffer)
    BY <1>4, ConcatEmptySeq
  <2>4. t = <<>> => Ink(text) = <<>>
    BY <1>2
  <2>5. made.sink = s /\ made.calls = <<>>
    BY <2>1
  <2>6. s.seen = s.seen \cup ({t} \ {<<>>})
    BY <1>5
  <2>7. Ink(TextsOf(made.calls)) \o Ink(made.sink.buffer) =
          Ink(s.buffer) \o (IF t \in s.seen THEN <<>> ELSE Ink(text))
    BY <1>5, <2>2, <2>3, <2>4, <2>5
  <2>8. DOMAIN made.calls = {} /\ made.calls \in Seq(Calls)
    BY <2>5
  <2> QED BY <1>1, <2>5, <2>6, <2>7, <2>8 DEF Joins
<1>6. CASE ~ (t = <<>> \/ t \in s.seen)
  <2>1. PICK b : b = IF s.buffer = <<>> THEN t ELSE s.buffer \o <<Break>> \o t
    OBVIOUS
  <2>2. PICK f : f = FullChunks(b)
    OBVIOUS
  <2>3. made = [sink |-> [s EXCEPT !.seen = @ \cup {t}, !.buffer = f.rest],
                calls |-> SendsOf(f.chunks)]
    BY <1>0, <1>1, <1>6, <2>1, <2>2 DEF AppendSegment, SendsOf
  <2>4. b \in Text /\ Ink(b) = Ink(s.buffer) \o Ink(t)
    <3>1. CASE s.buffer = <<>>
      BY <1>2, <1>4, <2>1, <3>1, InkNothing, ConcatEmptySeq
    <3>2. CASE s.buffer # <<>>
      <4>1. <<Break>> \in Text /\ Ink(<<Break>>) = <<>>
        <5>1. Break \in Char
          BY DEF Char
        <5> QED BY <5>1, InkOne
      <4>2. /\ s.buffer \o <<Break>> \in Text
            /\ Ink(s.buffer \o <<Break>>) = Ink(s.buffer) \o <<>>
        <5>1. PICK x : x = s.buffer
          OBVIOUS
        <5>2. PICK y : y = <<Break>>
          OBVIOUS
        <5>3. x \in Text /\ y \in Text
          BY <1>3, <4>1, <5>1, <5>2
        <5>4. x \o y \in Text /\ Ink(x \o y) = Ink(x) \o Ink(y)
          BY <5>3, InkConcat
        <5> QED BY <4>1, <5>1, <5>2, <5>4
      <4>3. Ink(s.buffer) \o <<>> = Ink(s.buffer)
        BY <1>4, ConcatEmptySeq
      <4>4. /\ (s.buffer \o <<Break>>) \o t \in Text
            /\ Ink((s.buffer \o <<Break>>) \o t) = Ink(s.buffer \o <<Break>>) \o Ink(t)
        BY <1>2, <4>2, InkConcat
      <4> QED BY <2>1, <3>2, <4>2, <4>3, <4>4
    <3> QED BY <3>1, <3>2
  <2>5. /\ f.chunks \in Seq(Text) /\ f.rest \in Text
        /\ FlattenSeq(f.chunks) \in Text /\ FlattenSeq(f.chunks) \o f.rest = b
    BY <2>2, <2>4, FullChunksKeepText
  <2>6. Ink(b) = Ink(FlattenSeq(f.chunks)) \o Ink(f.rest)
    BY <2>5, InkConcat
  <2>7. /\ SendsOf(f.chunks) \in Seq(Calls)
        /\ \A i \in DOMAIN SendsOf(f.chunks) :
             SendsOf(f.chunks)[i].op = "send" /\ SendsOf(f.chunks)[i].at = 0
        /\ TextsOf(SendsOf(f.chunks)) = FlattenSeq(f.chunks)
    BY <2>5, SendsCarry
  <2>8. made.sink = [s EXCEPT !.seen = @ \cup {t}, !.buffer = f.rest]
        /\ made.calls = SendsOf(f.chunks)
    BY <2>3
  <2>9. /\ made.sink \in Sinks /\ made.sink.seen = s.seen \cup {t}
        /\ made.sink.buffer = f.rest /\ made.sink.sent = s.sent
        /\ made.sink.failed = s.failed /\ made.sink.bubble = s.bubble
    <3>1. s = [seen |-> s.seen, buffer |-> s.buffer, sent |-> s.sent,
               failed |-> s.failed, bubble |-> s.bubble]
      BY SinkFields
    <3>2. made.sink = [seen |-> s.seen \cup {t}, buffer |-> f.rest, sent |-> s.sent,
                       failed |-> s.failed, bubble |-> s.bubble]
      BY <2>8, <3>1
    <3>3. s.seen \cup {t} \in SUBSET Text
      BY <1>2, <1>3
    <3> QED BY <1>3, <2>5, <3>2, <3>3 DEF Sinks
  <2>10. {t} \ {<<>>} = {t}
    BY <1>6
  <2> QED BY <1>1, <1>2, <1>6, <2>4, <2>6, <2>7, <2>8, <2>9, <2>10 DEF Joins
<1> QED BY <1>5, <1>6

\* What on_stream_end of Telegram makes of a sink and a text: calls that send
\* it, put it in the place of its placeholder, or delete that before.
Ends(s, text, made) ==
  /\ made.sink \in Sinks /\ made.calls \in Seq(Calls)
  /\ made.sink.bubble = 0
  /\ \E i \in DOMAIN made.calls :
       made.calls[i].op \in {"send", "final"} /\ made.calls[i].text = text
  /\ s.bubble = 0 => \A i \in DOMAIN made.calls : made.calls[i].op = "send"
  /\ \A i \in DOMAIN made.calls :
       LET c == made.calls[i]
       IN  \/ c.op = "send" /\ c.at = 0
           \/ c.op = "delete" /\ c.at = s.bubble /\ c.text = <<>>
           \/ /\ c.op = "final" /\ c.at = s.bubble /\ s.bubble # 0
              /\ Bytes(c.text) <= MaxBytes /\ Len(made.calls) = 1

\* on_stream_end of Telegram: the text is in one of its calls.
LEMMA EndSends ==
  ASSUME NEW s \in Sinks, NEW text \in Text
  PROVE  Ends(s, text, TelegramEnd(s, text))
<1>0. PICK made : made = TelegramEnd(s, text)
  OBVIOUS
<1> SUFFICES Ends(s, text, made)
  BY <1>0
<1>1. /\ s.seen \in SUBSET Text /\ s.buffer \in Text /\ s.sent \in BOOLEAN
      /\ s.failed \in Nat /\ s.bubble \in Nat /\ <<>> \in Text
  BY SinkFields, TextsAreTexts
<1>2. CASE s.bubble = 0
  <2>1. made.sink = s /\ made.calls = <<Call("send", text, 0)>>
    BY <1>0, <1>2 DEF TelegramEnd
  <2>2. Call("send", text, 0) \in Calls
    BY DEF Call, Calls
  <2>3. \A i \in DOMAIN made.calls : made.calls[i] = Call("send", text, 0)
    BY <2>1
  <2>4. made.calls[1] = Call("send", text, 0) /\ 1 \in DOMAIN made.calls
    BY <2>1
  <2>5. made.calls \in Seq(Calls)
    BY <2>1, <2>2
  <2> QED BY <1>1, <1>2, <2>1, <2>3, <2>4, <2>5 DEF Call, Ends
<1>3. CASE s.bubble # 0
  <2>1. made.sink = [s EXCEPT !.bubble = 0, !.sent = TRUE]
    BY <1>0, <1>3 DEF TelegramEnd
  <2>2. made.sink \in Sinks /\ made.sink.bubble = 0
    <3>1. s = [seen |-> s.seen, buffer |-> s.buffer, sent |-> s.sent,
               failed |-> s.failed, bubble |-> s.bubble]
      BY SinkFields
    <3>2. made.sink = [seen |-> s.seen, buffer |-> s.buffer, sent |-> TRUE,
                       failed |-> s.failed, bubble |-> 0]
      BY <2>1, <3>1
    <3> QED BY <1>1, <3>2 DEF Sinks
  <2>3. CASE Bytes(text) <= MaxBytes
    <3>1. made.calls = <<Call("final", text, s.bubble)>>
      BY <1>0, <1>3, <2>3 DEF TelegramEnd
    <3>2. Call("final", text, s.bubble) \in Calls
      BY <1>1 DEF Call, Calls
    <3>3. /\ made.calls[1] = Call("final", text, s.bubble) /\ 1 \in DOMAIN made.calls
          /\ Len(made.calls) = 1 /\ made.calls \in Seq(Calls)
          /\ \A i \in DOMAIN made.calls : made.calls[i] = Call("final", text, s.bubble)
      BY <3>1, <3>2
    <3> QED BY <1>3, <2>2, <2>3, <3>3 DEF Call, Ends
  <2>4. CASE ~ (Bytes(text) <= MaxBytes)
    <3>1. made.calls = <<Call("delete", <<>>, s.bubble), Call("send", text, 0)>>
      BY <1>0, <1>3, <2>4 DEF TelegramEnd, LongEnd
    <3>2. Call("delete", <<>>, s.bubble) \in Calls /\ Call("send", text, 0) \in Calls
      BY <1>1 DEF Call, Calls
    <3>3. DOMAIN made.calls = 1 .. 2
      BY <3>1
    <3>4. made.calls[1] = Call("delete", <<>>, s.bubble)
          /\ made.calls[2] = Call("send", text, 0)
      BY <3>1
    <3>5. made.calls \in Seq(Calls)
      BY <3>1, <3>2
    <3> QED BY <1>3, <2>2, <3>3, <3>4, <3>5 DEF Call, Ends
  <2> QED BY <2>3, <2>4
<1> QED BY <1>2, <1>3

-----------------------------------------------------------------------------
(* Every state has its type.                                                   *)

Kinds == {"announced", "delta", "completed", "failed", "error"}

\* An event by itself.
LEMMA OneEvent ==
  ASSUME NEW kind \in Kinds, NEW id \in AnyId, NEW text \in Text,
         NEW content \in BOOLEAN
  PROVE  /\ Event(kind, id, text, content) \in Events
         /\ <<Event(kind, id, text, content)>> \in Seq(Events)
BY DEF Event, Events, Kinds

\* An agent is a record of its fields.
LEMMA AgentFields ==
  ASSUME NEW a \in Agents
  PROVE  /\ a.open \in SUBSET AnyId
         /\ a.over \in BOOLEAN /\ a.asking \in BOOLEAN /\ a.asked \in BOOLEAN
         /\ a.n \in Nat
         /\ a = [open |-> a.open, over |-> a.over, asking |-> a.asking,
                 asked |-> a.asked, n |-> a.n]
BY DEF Agents

\* An agent that changed in some fields is an agent.
LEMMA AgentOf ==
  ASSUME NEW d \in SUBSET AnyId, NEW o \in BOOLEAN, NEW a \in BOOLEAN,
         NEW q \in BOOLEAN, NEW n \in Nat
  PROVE  [open |-> d, over |-> o, asking |-> a, asked |-> q, n |-> n] \in Agents
BY DEF Agents

\* The actions of the backends.
HttpActs  == HttpAnnounces \/ HttpStreams \/ HttpCompletes \/ HttpSpeaks
             \/ HttpFails \/ HttpEnds
CodexActs == CodexSpeaks \/ CodexAsks \/ AnswerOrDeadline \/ CodexEnds
CliActs   == CliHelps \/ CliRefuses \/ CliPrints \/ CliTimesOut
Backend   == HttpActs \/ CodexActs \/ CliActs \/ Echoes

\* A backend leaves the pipeline, the sink and the chat alone, and acts when
\* its last event is handled.
LEMMA BackendFrame ==
  ASSUME Backend
  PROVE  /\ UNCHANGED <<fixed, pipeVars, sinkVars, chatVars, stage>>
         /\ stage = "reading" /\ coming = <<>> /\ outbox = <<>>
<1>1. Polled => /\ UNCHANGED <<fixed, pipeVars, sinkVars, chatVars, stage>>
                /\ stage = "reading" /\ coming = <<>> /\ outbox = <<>>
  BY DEF Polled
<1>2. CASE HttpActs
  <2>1. Talks("http") \/ StreamEnds("http")
    BY <1>2, Zenon DEF HttpActs, HttpAnnounces, HttpStreams, HttpCompletes, HttpSpeaks,
      HttpFails, HttpEnds
  <2>2. Polled
    BY <2>1, Zenon DEF Talks, StreamEnds
  <2> QED BY <1>1, <2>2
<1>3. CASE CodexActs
  BY <1>1, <1>3 DEF CodexActs, CodexSpeaks, CodexAsks, AnswerOrDeadline, CodexEnds,
    StreamEnds, Talks, Waits
<1>4. CASE CliActs \/ Echoes
  BY <1>1, <1>4 DEF CliActs, CliHelps, CliRefuses, CliPrints, CliTimesOut, CliAnswers,
    Echoes, Talks
<1> QED BY <1>2, <1>3, <1>4 DEF Backend

\* The HTTP backend yields events.
LEMMA HttpTypes ==
  ASSUME TypeOK, HttpActs
  PROVE  agent' \in Agents /\ coming' \in Seq(Events)
<1>1. /\ agent.open \in SUBSET AnyId
      /\ agent.over \in BOOLEAN /\ agent.asking \in BOOLEAN /\ agent.asked \in BOOLEAN
      /\ agent.n \in Nat /\ agent.n + 1 \in Nat
      /\ agent = [open |-> agent.open, over |-> agent.over,
                  asking |-> agent.asking, asked |-> agent.asked, n |-> agent.n]
  <2>1. agent \in Agents
    BY DEF TypeOK, AgentOK
  <2> QED BY <2>1, AgentFields
<1>2. /\ Texts \subseteq Text /\ <<>> \in Text /\ NoId \in AnyId /\ Fresh \in AnyId
      /\ Ids \subseteq AnyId
  BY TextsAreTexts DEF AnyId
<1>3. /\ "announced" \in Kinds /\ "delta" \in Kinds /\ "completed" \in Kinds
      /\ "failed" \in Kinds /\ "error" \in Kinds
  BY DEF Kinds
<1>4. CASE HttpAnnounces
  <2>1. PICK id \in (Ids \cup {NoId}) \ agent.open :
          /\ agent' = Counted([agent EXCEPT !.open = @ \cup {id}])
          /\ Yield(Event("announced", id, <<>>, FALSE))
    BY <1>4 DEF HttpAnnounces
  <2>2. id \in AnyId /\ agent.open \cup {id} \in SUBSET AnyId
    BY <1>1, <1>2
  <2>3. agent' = [open |-> agent.open \cup {id}, over |-> agent.over,
                  asking |-> agent.asking, asked |-> agent.asked, n |-> agent.n + 1]
    BY <1>1, <2>1 DEF Counted
  <2>4. agent' \in Agents
    BY <1>1, <2>2, <2>3, AgentOf
  <2>5. coming' = <<Event("announced", id, <<>>, FALSE)>>
    BY <2>1 DEF Yield
  <2> QED BY <1>2, <1>3, <2>2, <2>4, <2>5, OneEvent
<1>5. CASE HttpStreams
  <2>1. agent' = Counted(agent) /\ \E id \in agent.open, t \in Deltas :
                                     Yield(Event("delta", id, t, FALSE))
    BY <1>5 DEF HttpStreams
  <2>2. PICK id \in agent.open, t \in Deltas : Yield(Event("delta", id, t, FALSE))
    BY <2>1
  <2>3. agent' = [open |-> agent.open, over |-> agent.over, asking |-> agent.asking,
                  asked |-> agent.asked, n |-> agent.n + 1]
    BY <1>1, <2>1 DEF Counted
  <2>4. agent' \in Agents
    BY <1>1, <2>3, AgentOf
  <2>5. coming' = <<Event("delta", id, t, FALSE)>> /\ id \in AnyId /\ t \in Text
    BY <1>1, <2>2, TextsAreTexts DEF Yield
  <2> QED BY <1>3, <2>4, <2>5, OneEvent
<1>6. CASE HttpCompletes
  <2>1. PICK id \in agent.open, kind \in {"completed", "failed"}, m \in Messages :
          /\ agent' = Counted([agent EXCEPT !.open = @ \ {id}])
          /\ Yield(Event(kind, id, m.text, m.content))
    BY <1>6 DEF HttpCompletes
  <2>2. id \in AnyId /\ m.text \in Text /\ m.content \in BOOLEAN /\ kind \in Kinds
    BY <1>1, <1>2, <1>3 DEF Messages
  <2>3. agent' = [open |-> agent.open \ {id}, over |-> agent.over,
                  asking |-> agent.asking, asked |-> agent.asked, n |-> agent.n + 1]
    BY <1>1, <2>1 DEF Counted
  <2>4. agent' \in Agents
    BY <1>1, <2>3, AgentOf
  <2>5. coming' = <<Event(kind, id, m.text, m.content)>>
    BY <2>1 DEF Yield
  <2> QED BY <2>2, <2>4, <2>5, OneEvent
<1>7. CASE HttpSpeaks
  <2>1. agent' = Counted(agent) /\ \E kind \in {"completed", "failed"}, m \in Messages :
                                     Yield(Event(kind, Fresh, m.text, m.content))
    BY <1>7 DEF HttpSpeaks
  <2>2. PICK kind \in {"completed", "failed"}, m \in Messages :
          Yield(Event(kind, Fresh, m.text, m.content))
    BY <2>1
  <2>3. m.text \in Text /\ m.content \in BOOLEAN /\ kind \in Kinds
    BY <1>2, <1>3 DEF Messages
  <2>4. agent' = [open |-> agent.open, over |-> agent.over, asking |-> agent.asking,
                  asked |-> agent.asked, n |-> agent.n + 1]
    BY <1>1, <2>1 DEF Counted
  <2>5. agent' \in Agents
    BY <1>1, <2>4, AgentOf
  <2>6. coming' = <<Event(kind, Fresh, m.text, m.content)>>
    BY <2>2 DEF Yield
  <2> QED BY <1>2, <2>3, <2>5, <2>6, OneEvent
<1>8. CASE HttpFails
  <2>1. agent' = Counted(agent) /\ coming' = <<Event("error", Fresh, <<>>, FALSE)>>
    BY <1>8 DEF HttpFails, Yield
  <2>2. agent' = [open |-> agent.open,
                  over |-> agent.over, asking |-> agent.asking, asked |-> agent.asked,
                  n |-> agent.n + 1]
    BY <1>1, <2>1 DEF Counted
  <2>3. agent' \in Agents
    BY <1>1, <2>2, AgentOf
  <2> QED BY <1>2, <1>3, <2>1, <2>3, OneEvent
<1>9. CASE HttpEnds
  <2>1. agent' = [agent EXCEPT !.over = TRUE] /\ coming' = coming
    BY <1>9 DEF HttpEnds, StreamEnds
  <2>2. agent' = [open |-> agent.open,
                  over |-> TRUE, asking |-> agent.asking, asked |-> agent.asked,
                  n |-> agent.n]
    BY <1>1, <2>1
  <2>3. agent' \in Agents
    BY <1>1, <2>2, AgentOf
  <2> QED BY <2>1, <2>3 DEF TypeOK, AgentOK
<1> QED BY <1>4, <1>5, <1>6, <1>7, <1>8, <1>9 DEF HttpActs

\* The other backends yield events.
LEMMA OtherTypes ==
  ASSUME TypeOK, CodexActs \/ CliActs \/ Echoes
  PROVE  agent' \in Agents /\ coming' \in Seq(Events)
<1>1. /\ agent.open \in SUBSET AnyId
      /\ agent.over \in BOOLEAN /\ agent.asking \in BOOLEAN /\ agent.asked \in BOOLEAN
      /\ agent.n \in Nat /\ agent.n + 1 \in Nat
      /\ agent = [open |-> agent.open, over |-> agent.over,
                  asking |-> agent.asking, asked |-> agent.asked, n |-> agent.n]
  <2>1. agent \in Agents
    BY DEF TypeOK, AgentOK
  <2> QED BY <2>1, AgentFields
<1>2. /\ Texts \subseteq Text /\ <<>> \in Text /\ NoId \in AnyId /\ Fresh \in AnyId
      /\ Question \in Text /\ TimedOut \in Text /\ Denied \in Text
  BY TextsAreTexts DEF AnyId
<1>3. /\ "announced" \in Kinds /\ "delta" \in Kinds /\ "completed" \in Kinds
      /\ "failed" \in Kinds
  BY DEF Kinds
<1>4. ASSUME NEW o \in BOOLEAN, NEW a \in BOOLEAN, NEW q \in BOOLEAN, NEW n \in Nat,
             agent' = [open |-> agent.open, over |-> o,
                       asking |-> a, asked |-> q, n |-> n]
      PROVE  agent' \in Agents
  BY <1>1, <1>4, AgentOf
<1>5. CASE CodexSpeaks
  <2>1. PICK t \in Texts, notice \in BOOLEAN :
          /\ agent' = Counted([agent EXCEPT !.over = notice])
          /\ Yield(Event("completed", Fresh, t, notice))
    BY <1>5 DEF CodexSpeaks
  <2>2. agent' = [open |-> agent.open, over |-> notice,
                  asking |-> agent.asking, asked |-> agent.asked, n |-> agent.n + 1]
    BY <1>1, <2>1 DEF Counted
  <2>3. coming' = <<Event("completed", Fresh, t, notice)>> /\ t \in Text
    BY <1>2, <2>1 DEF Yield
  <2> QED BY <1>1, <1>2, <1>3, <1>4, <2>2, <2>3, OneEvent
<1>6. CASE CodexAsks
  <2>1. agent' = [open |-> agent.open, over |-> agent.over,
                  asking |-> TRUE, asked |-> TRUE, n |-> agent.n + 1]
    BY <1>1, <1>6 DEF CodexAsks, Counted
  <2>2. coming' = <<Event("completed", Fresh, Question, TRUE)>>
    BY <1>6 DEF CodexAsks, Yield
  <2> QED BY <1>1, <1>2, <1>3, <1>4, <2>1, <2>2, OneEvent
<1>7. CASE AnswerOrDeadline
  <2>1. CASE agent' = [agent EXCEPT !.asking = FALSE] /\ UNCHANGED coming
    <3>1. agent' = [open |-> agent.open, over |-> agent.over,
                    asking |-> FALSE, asked |-> agent.asked, n |-> agent.n]
      BY <1>1, <2>1
    <3> QED BY <1>1, <1>4, <2>1, <3>1 DEF TypeOK, AgentOK
  <2>2. CASE agent' = [agent EXCEPT !.asking = FALSE, !.over = TRUE]
             /\ Yield(Event("completed", Fresh, TimedOut, TRUE))
    <3>1. agent' = [open |-> agent.open, over |-> TRUE,
                    asking |-> FALSE, asked |-> agent.asked, n |-> agent.n]
      BY <1>1, <2>2
    <3>2. coming' = <<Event("completed", Fresh, TimedOut, TRUE)>>
      BY <2>2 DEF Yield
    <3> QED BY <1>1, <1>2, <1>3, <1>4, <3>1, <3>2, OneEvent
  <2> QED BY <1>7, <2>1, <2>2 DEF AnswerOrDeadline
<1>8. CASE CodexEnds
  <2>1. agent' = [open |-> agent.open, over |-> TRUE,
                  asking |-> agent.asking, asked |-> agent.asked, n |-> agent.n]
    BY <1>1, <1>8 DEF CodexEnds, StreamEnds
  <2>2. coming' = coming
    BY <1>8 DEF CodexEnds, StreamEnds
  <2> QED BY <1>1, <1>4, <2>1, <2>2 DEF TypeOK, AgentOK
<1>9. ASSUME agent' = Counted([agent EXCEPT !.over = TRUE]) PROVE agent' \in Agents
  <2>1. agent' = [open |-> agent.open, over |-> TRUE,
                  asking |-> agent.asking, asked |-> agent.asked, n |-> agent.n + 1]
    BY <1>1, <1>9 DEF Counted
  <2> QED BY <1>1, <1>4, <2>1
<1>10. CASE CliActs
  <2>1. agent' \in Agents
    BY <1>9, <1>10 DEF CliActs, CliHelps, CliRefuses, CliPrints, CliTimesOut, CliAnswers
  <2>2. coming' = <<>> \/ \E kind \in Kinds, id \in AnyId, t \in Text, c \in BOOLEAN :
                            coming' = <<Event(kind, id, t, c)>>
    <3>1. ASSUME NEW t \in Texts PROVE Output(t) \in Text
      BY <1>2, OutputIsText
    <3>2. CASE CliHelps
      BY <1>2, <1>3, <3>2 DEF CliHelps, Yield
    <3>3. CASE CliRefuses
      BY <1>2, <1>3, <3>3 DEF CliRefuses, Yield
    <3>4. CASE CliPrints
      BY <1>2, <1>3, <3>1, <3>4 DEF CliPrints, Yield
    <3>5. CASE CliTimesOut
      BY <1>2, <1>3, <3>5 DEF CliTimesOut, Yield
    <3> QED BY <1>10, <3>2, <3>3, <3>4, <3>5 DEF CliActs
  <2>3. <<>> \in Seq(Events)
    OBVIOUS
  <2>4. coming' \in Seq(Events)
    BY <2>2, <2>3, OneEvent, Zenon
  <2> QED BY <2>1, <2>4
<1>11. CASE Echoes
  <2>1. PICK t \in Texts :
          coming' = <<Event("announced", NoId, <<>>, FALSE),
                      Event("completed", Fresh, t, TRUE)>>
    BY <1>11 DEF Echoes
  <2>2. /\ Event("announced", NoId, <<>>, FALSE) \in Events
        /\ Event("completed", Fresh, t, TRUE) \in Events
    BY <1>2, <1>3, OneEvent
  <2>3. agent' \in Agents
    BY <1>9, <1>11 DEF Echoes
  <2>4. ASSUME NEW a \in Events, NEW b \in Events PROVE <<a, b>> \in Seq(Events)
    OBVIOUS
  <2> QED BY <2>1, <2>2, <2>3, <2>4, Zenon
<1> QED BY <1>5, <1>6, <1>7, <1>8, <1>10, <1>11 DEF CodexActs

\* The next event of the stream is an event, and leaves the rest.
LEMMA TakenTypes ==
  ASSUME TypeOK, NEW kind, Taken(kind)
  PROVE  /\ coming[1] \in Events
         /\ coming[1].id \in AnyId /\ coming[1].text \in Text
         /\ coming[1].content \in BOOLEAN
         /\ coming' \in Seq(Events) /\ outbox = <<>>
         /\ UNCHANGED <<fixed, agent, chatVars>>
<1>1. coming \in Seq(Events) /\ coming # <<>> /\ coming' = Tail(coming)
  BY DEF TypeOK, AgentOK, Taken
<1>2. Head(coming) \in Events /\ Tail(coming) \in Seq(Events) /\ Head(coming) = coming[1]
  BY <1>1, HeadTailProperties
<1>3. outbox = <<>> /\ UNCHANGED <<fixed, agent, chatVars>>
  BY DEF Taken
<1> QED BY <1>1, <1>2, <1>3 DEF Events

\* The end of a text is handed to the sink of the chat.
LEMMA EndTypes ==
  ASSUME TypeOK, NEW text \in Text
  PROVE  /\ OnStreamEnd(text).sink \in Sinks
         /\ OnStreamEnd(text).calls \in Seq(Calls)
<1>1. sink \in Sinks
  BY DEF TypeOK, SinkOK
<1>2. Joins(sink, text, AppendSegment(sink, text)) /\ Ends(sink, text, TelegramEnd(sink, text))
  BY <1>1, SegmentJoins, EndSends
<1> QED BY <1>2 DEF OnStreamEnd, Joins, Ends

\* A message in progress opens its buffer.
LEMMA AnnouncedTypes ==
  ASSUME TypeOK, TakeAnnounced
  PROVE  TypeOK'
<1>1. /\ coming[1].id \in AnyId /\ coming' \in Seq(Events)
      /\ UNCHANGED <<fixed, agent, chatVars>>
  BY TakenTypes DEF TakeAnnounced
<1>2. PICK id : id = coming[1].id
  OBVIOUS
<1>3. PipeOK' /\ SinkOK'
  <2>1. UNCHANGED <<segments, spoken, last, parts>>
    BY DEF TakeAnnounced
  <2>2. CASE Streaming
    <3>1. /\ buffers' = With(buffers, id, <<>>) /\ typed' = typed \cup ({id} \ {NoId})
          /\ Do(OnStreamStart)
      BY <1>2, <2>2 DEF TakeAnnounced
    <3>2. buffers' \in Partial(AnyId, Text)
      BY <1>1, <1>2, <3>1, PartialMore, TextsAreTexts DEF TypeOK, PipeOK
    <3>3. typed' \subseteq AnyId
      BY <1>1, <1>2, <3>1 DEF TypeOK, PipeOK
    <3>4. sink' = sink /\ outbox' = OnStreamStart.calls
      BY <3>1 DEF Do, OnStreamStart
    <3>5. OnStreamStart.calls \in Seq(Calls)
      <4>1. Call("place", Placeholder, 0) \in Calls
        BY TextsAreTexts DEF Call, Calls
      <4> QED BY <4>1 DEF OnStreamStart
    <3> QED BY <2>1, <3>2, <3>3, <3>4, <3>5 DEF TypeOK, PipeOK, SinkOK
  <2>3. CASE ~ Streaming
    BY <2>1, <2>3 DEF TakeAnnounced, TypeOK, PipeOK, SinkOK, sinkVars
  <2> QED BY <2>2, <2>3
<1>4. stage' = stage
  BY DEF TakeAnnounced
<1> QED BY <1>1, <1>3, <1>4 DEF TypeOK, AgentOK, ChatOK, fixed, chatVars

\* A delta joins the buffer of its message.
LEMMA DeltaTypes ==
  ASSUME TypeOK, TakeDelta
  PROVE  TypeOK'
<1>1. /\ coming[1].id \in AnyId /\ coming[1].text \in Text /\ coming' \in Seq(Events)
      /\ UNCHANGED <<fixed, agent, chatVars>>
  BY TakenTypes DEF TakeDelta
<1>2. PICK id : id = coming[1].id
  OBVIOUS
<1>3. PICK text : text = buffers[id] \o coming[1].text
  OBVIOUS
<1>4. UNCHANGED <<typed, segments, spoken, last, parts>>
  BY DEF TakeDelta
<1>5. stage \in {"reading", "closing", "ok", "error", "panicked"} /\ SinkOK
      /\ buffers \in Partial(AnyId, Text)
  BY DEF TypeOK, PipeOK
<1>6. /\ buffers' \in Partial(AnyId, Text) /\ SinkOK'
      /\ stage' \in {"reading", "closing", "ok", "error", "panicked"}
  <2>1. CASE ~ Streaming \/ id \notin typed \cap DOMAIN buffers
    BY <1>2, <1>5, <2>1 DEF TakeDelta, SinkOK, sinkVars
  <2>2. CASE ~ (~ Streaming \/ id \notin typed \cap DOMAIN buffers)
    <3>1. buffers' = [buffers EXCEPT ![id] = text] /\ OnStreamDelta(text)
      BY <1>2, <1>3, <2>2 DEF TakeDelta
    <3>2. text \in Text
      <4>1. buffers[id] \in Text
        BY <1>5, <2>2, PartialShape
      <4> QED BY <1>1, <1>3, <4>1, TextConcat
    <3>3. buffers' \in Partial(AnyId, Text)
      BY <1>1, <1>2, <1>5, <3>1, <3>2, PartialMore
    <3>4. CASE UNCHANGED <<sinkVars, stage>>
      BY <1>5, <3>3, <3>4 DEF SinkOK, sinkVars
    <3>5. CASE sink' = sink /\ stage' = "panicked" /\ outbox' = <<>>
      BY <1>5, <3>3, <3>5 DEF SinkOK
    <3>6. CASE /\ sink' = sink /\ stage' = stage
               /\ outbox' = <<Call("edit", Shown(text), sink.bubble)>>
      <4>1. Call("edit", Shown(text), sink.bubble) \in Calls
        <5>1. Shown(text) \in Text
          BY <3>2, ShownFits
        <5>2. sink.bubble \in Nat
          BY <1>5, SinkFields DEF SinkOK
        <5> QED BY <5>1, <5>2 DEF Call, Calls
      <4> QED BY <1>5, <3>3, <3>6, <4>1 DEF SinkOK
    <3> QED BY <3>1, <3>4, <3>5, <3>6 DEF OnStreamDelta
  <2> QED BY <2>1, <2>2
<1> QED BY <1>1, <1>4, <1>6 DEF TypeOK, AgentOK, PipeOK, ChatOK, fixed, chatVars

\* A completed message ends its buffer.
LEMMA CompletedTypes ==
  ASSUME TypeOK, TakeCompleted
  PROVE  TypeOK'
<1>1. /\ coming[1].id \in AnyId /\ coming[1].text \in Text /\ coming' \in Seq(Events)
      /\ outbox = <<>> /\ UNCHANGED <<fixed, agent, chatVars>>
  BY TakenTypes DEF TakeCompleted
<1>2. PICK e : e = coming[1]
  OBVIOUS
<1>3. PICK said : said = IF e.id \in DOMAIN buffers THEN buffers[e.id] ELSE <<>>
  OBVIOUS
<1>4. PICK final : final = IF said # <<>> THEN said ELSE e.text
  OBVIOUS
<1>5. /\ buffers \in Partial(AnyId, Text) /\ typed \subseteq AnyId
      /\ segments \in Seq(Text) /\ spoken \in Seq(Text) /\ last \in Text
      /\ parts \in Seq(Text) /\ SinkOK /\ stage' = stage
  BY DEF TypeOK, PipeOK, TakeCompleted
<1>6. said \in Text /\ final \in Text /\ e.text \in Text
  BY <1>1, <1>2, <1>3, <1>4, <1>5, PartialShape, TextsAreTexts
<1>7. CASE Streaming
  <2>1. /\ buffers' = Without(buffers, e.id) /\ typed' = typed \ {e.id}
        /\ spoken' = IF final = <<>> THEN spoken ELSE Append(spoken, final)
        /\ Do(IF final = <<>> THEN Nothing ELSE OnStreamEnd(final))
        /\ segments' = IF e.text = <<>> THEN segments ELSE Append(segments, e.text)
        /\ parts' = IF e.content \/ e.text # <<>> THEN <<e.text>> ELSE parts
        /\ UNCHANGED last
    BY <1>2, <1>3, <1>4, <1>7 DEF TakeCompleted
  <2>2. buffers' \in Partial(AnyId, Text) /\ typed' \subseteq AnyId
    BY <1>5, <2>1, PartialLess
  <2>3. spoken' \in Seq(Text) /\ segments' \in Seq(Text)
    BY <1>5, <1>6, <2>1, AppendProperties
  <2>4. sink' \in Sinks /\ outbox' \in Seq(Calls)
    <3>1. CASE final = <<>>
      <4>1. sink' = sink /\ outbox' = <<>>
        BY <2>1, <3>1 DEF Do, Nothing
      <4> QED BY <1>5, <4>1 DEF SinkOK
    <3>2. CASE final # <<>>
      <4>1. sink' = OnStreamEnd(final).sink /\ outbox' = OnStreamEnd(final).calls
        BY <2>1, <3>2 DEF Do
      <4> QED BY <1>6, <4>1, EndTypes
    <3> QED BY <3>1, <3>2
  <2>5. parts' \in Seq(Text)
    BY <1>5, <1>6, <2>1
  <2>6. PipeOK' /\ SinkOK'
    BY <1>5, <2>1, <2>2, <2>3, <2>4, <2>5 DEF PipeOK, SinkOK
  <2> QED BY <1>1, <1>5, <2>6 DEF TypeOK, AgentOK, ChatOK, fixed, chatVars
<1>8. CASE ~ Streaming
  <2>1. /\ last' = IF e.text = <<>> THEN last ELSE e.text
        /\ parts' = IF e.content THEN <<e.text>> ELSE parts
        /\ UNCHANGED <<buffers, typed, spoken, segments, sinkVars>>
    BY <1>2, <1>8 DEF TakeCompleted
  <2>2. PipeOK' /\ SinkOK'
    BY <1>5, <1>6, <2>1 DEF PipeOK, SinkOK, sinkVars
  <2> QED BY <1>1, <1>5, <2>2 DEF TypeOK, AgentOK, ChatOK, fixed, chatVars
<1> QED BY <1>7, <1>8

\* A failed message, and an error.
LEMMA FailedTypes ==
  ASSUME TypeOK, TakeFailed \/ TakeError
  PROVE  TypeOK'
<1>1. \E kind : Taken(kind)
  BY DEF TakeFailed, TakeError
<1>2. /\ coming[1].text \in Text /\ coming' \in Seq(Events)
      /\ UNCHANGED <<fixed, agent, chatVars>>
  BY <1>1, TakenTypes
<1>3. CASE TakeFailed
  <2>1. /\ UNCHANGED <<typed, buffers, segments, spoken, sinkVars, stage>>
        /\ last' \in {last, coming[1].text} /\ parts' \in {parts, <<coming[1].text>>}
    BY <1>3 DEF TakeFailed
  <2>2. last \in Text /\ parts \in Seq(Text) /\ <<coming[1].text>> \in Seq(Text)
    BY <1>2 DEF TypeOK, PipeOK
  <2>3. PipeOK' /\ SinkOK'
    BY <1>2, <2>1, <2>2 DEF TypeOK, PipeOK, SinkOK, sinkVars
  <2> QED BY <1>2, <2>1, <2>3 DEF TypeOK, AgentOK, ChatOK, fixed, chatVars
<1>4. CASE TakeError
  BY <1>2, <1>4 DEF TakeError, TypeOK, AgentOK, PipeOK, SinkOK, ChatOK, fixed, chatVars,
    pipeVars, sinkVars
<1> QED BY <1>3, <1>4

\* flush_remainder: what waits is sent.
LEMMA RestSends ==
  ASSUME NEW s \in Sinks
  PROVE  /\ Rest(s) \in Seq(Calls)
         /\ \A i \in DOMAIN Rest(s) : Rest(s)[i].op = "send" /\ Rest(s)[i].at = 0
         /\ TextsOf(Rest(s)) = s.buffer
<1>1. s.buffer \in Text
  BY SinkFields
<1>2. CASE s.buffer = <<>>
  <2>1. Rest(s) = <<>> /\ TextsOf(<<>>) = <<>>
    BY <1>2, FlattenNothing DEF Rest, TextsOf
  <2> QED BY <1>2, <2>1
<1>3. CASE s.buffer # <<>>
  <2>1. PICK c : c = Call("send", s.buffer, 0)
    OBVIOUS
  <2>2. c \in Calls /\ c.op = "send" /\ c.at = 0 /\ c.text = s.buffer
    BY <1>1, <2>1 DEF Call, Calls
  <2>3. Rest(s) = <<c>>
    BY <1>3, <2>1 DEF Rest
  <2>4. <<c>> \in Seq(Calls) /\ <<>> \in Seq(Calls)
    BY <2>2
  <2>5. TextsOf(<<c>>) = c.text
    BY <2>2, <2>4, TextsOfCalls
  <2>6. \A i \in DOMAIN <<c>> : <<c>>[i] = c
    OBVIOUS
  <2> QED BY <2>2, <2>3, <2>4, <2>5, <2>6
<1> QED BY <1>2, <1>3

\* Calls after calls: what all of either are, all of both are.
LEMMA CallsAfterCalls ==
  ASSUME NEW a \in Seq(Calls), NEW b \in Seq(Calls), NEW C,
         \A i \in DOMAIN a : a[i] \in C, \A i \in DOMAIN b : b[i] \in C
  PROVE  /\ a \o b \in Seq(Calls)
         /\ \A i \in DOMAIN (a \o b) : (a \o b)[i] \in C
<1>1. /\ a \o b \in Seq(Calls) /\ Len(a \o b) = Len(a) + Len(b)
      /\ \A i \in 1 .. Len(a) + Len(b) :
           (a \o b)[i] = IF i <= Len(a) THEN a[i] ELSE b[i - Len(a)]
  BY ConcatProperties
<1>2. /\ DOMAIN (a \o b) = 1 .. Len(a) + Len(b)
      /\ DOMAIN a = 1 .. Len(a) /\ DOMAIN b = 1 .. Len(b)
      /\ Len(a) \in Nat /\ Len(b) \in Nat
  BY <1>1, LenProperties
<1>3. ASSUME NEW i \in 1 .. Len(a) + Len(b) PROVE (a \o b)[i] \in C
  <2>1. CASE i <= Len(a)
    BY <1>1, <1>2, <2>1
  <2>2. CASE ~ (i <= Len(a))
    <3>1. i - Len(a) \in DOMAIN b
      BY <1>2, <2>2
    <3> QED BY <1>1, <2>2, <3>1
  <2> QED BY <2>1, <2>2
<1> QED BY <1>1, <1>2, <1>3

\* What on_completed makes of the sink and the whole reply.
Flushes(text, made) ==
  /\ made.sink \in Sinks /\ made.calls \in Seq(Calls)
  /\ \A i \in DOMAIN made.calls : made.calls[i].op = "send" /\ made.calls[i].at = 0
  /\ made.sink.sent = sink.sent /\ made.sink.failed = sink.failed
  /\ made.sink.bubble = sink.bubble
  /\ WeChat =>
       /\ made.sink.buffer = <<>>
       /\ Ink(TextsOf(made.calls)) =
            IF sink.sent \/ sink.buffer # <<>> \/ Trim(text) \in sink.seen
            THEN Ink(sink.buffer) ELSE Ink(text)

\* on_completed: what waits is sent, and the whole reply when nothing was.
LEMMA CompletedSends ==
  ASSUME sink \in Sinks, NEW text \in Text
  PROVE  Flushes(text, OnCompleted(text))
<1>0. PICK made : made = OnCompleted(text)
  OBVIOUS
<1> SUFFICES Flushes(text, made)
  BY <1>0
<1>1. CASE WeChat
  <2>1. PICK more : more = IF ~ sink.sent /\ sink.buffer = <<>>
                           THEN AppendSegment(sink, text) ELSE Nothing
    OBVIOUS
  <2>2. made = [sink  |-> [more.sink EXCEPT !.buffer = <<>>],
                calls |-> more.calls \o Rest(more.sink)]
    BY <1>0, <1>1, <2>1 DEF OnCompleted
  <2>3. /\ more.sink \in Sinks /\ more.calls \in Seq(Calls)
        /\ \A i \in DOMAIN more.calls : more.calls[i].op = "send" /\ more.calls[i].at = 0
        /\ more.sink.sent = sink.sent /\ more.sink.failed = sink.failed
        /\ more.sink.bubble = sink.bubble
        /\ Ink(TextsOf(more.calls)) \o Ink(more.sink.buffer) =
             IF sink.sent \/ sink.buffer # <<>> \/ Trim(text) \in sink.seen
             THEN Ink(sink.buffer) ELSE Ink(text)
    <3>1. Ink(sink.buffer) \in Seq(Char) /\ Ink(text) \in Seq(Char)
      BY SinkFields, InkConcat DEF Text
    <3>2. CASE ~ sink.sent /\ sink.buffer = <<>>
      <4>1. more = AppendSegment(sink, text)
        BY <2>1, <3>2
      <4>2. Ink(sink.buffer) = <<>>
        BY <3>2, InkNothing
      <4>3. <<>> \o Ink(text) = Ink(text) /\ <<>> \o <<>> = <<>>
        BY <3>1, ConcatEmptySeq
      <4>4. /\ more.sink \in Sinks /\ more.calls \in Seq(Calls)
            /\ \A i \in DOMAIN more.calls :
                 more.calls[i].op = "send" /\ more.calls[i].at = 0
            /\ more.sink.sent = sink.sent /\ more.sink.failed = sink.failed
            /\ more.sink.bubble = sink.bubble
            /\ Ink(TextsOf(more.calls)) \o Ink(more.sink.buffer) =
                 Ink(sink.buffer) \o (IF Trim(text) \in sink.seen THEN <<>> ELSE Ink(text))
        <5>1. Joins(sink, text, AppendSegment(sink, text))
          BY SegmentJoins
        <5>2. Joins(sink, text, more)
          BY <4>1, <5>1
        <5> QED BY <5>2 DEF Joins
      <4>5. CASE Trim(text) \in sink.seen
        BY <4>2, <4>3, <4>4, <4>5
      <4>6. CASE Trim(text) \notin sink.seen
        BY <3>2, <4>2, <4>3, <4>4, <4>6
      <4> QED BY <4>5, <4>6
    <3>3. CASE ~ (~ sink.sent /\ sink.buffer = <<>>)
      <4>1. more.sink = sink /\ more.calls = <<>>
        BY <2>1, <3>3 DEF Nothing
      <4>2. Ink(TextsOf(<<>>)) = <<>>
        BY InkNothing, FlattenNothing DEF TextsOf
      <4>3. <<>> \o Ink(sink.buffer) = Ink(sink.buffer)
        BY <3>1, ConcatEmptySeq
      <4>4. DOMAIN more.calls = {} /\ more.calls \in Seq(Calls)
        BY <4>1
      <4>5. sink.sent \/ sink.buffer # <<>>
        BY <3>3
      <4> QED BY <4>1, <4>2, <4>3, <4>4, <4>5
    <3> QED BY <3>2, <3>3
  <2>4. /\ Rest(more.sink) \in Seq(Calls)
        /\ \A i \in DOMAIN Rest(more.sink) :
             Rest(more.sink)[i].op = "send" /\ Rest(more.sink)[i].at = 0
        /\ TextsOf(Rest(more.sink)) = more.sink.buffer
    BY <2>3, RestSends
  <2>5. PICK C : C = {c \in Calls : c.op = "send" /\ c.at = 0}
    OBVIOUS
  <2>6. /\ more.calls \o Rest(more.sink) \in Seq(Calls)
        /\ \A i \in DOMAIN (more.calls \o Rest(more.sink)) :
             (more.calls \o Rest(more.sink))[i] \in C
    <3>1. \A i \in DOMAIN more.calls : more.calls[i] \in C
      BY <2>3, <2>5, LenProperties
    <3>2. \A i \in DOMAIN Rest(more.sink) : Rest(more.sink)[i] \in C
      BY <2>4, <2>5, LenProperties
    <3> QED BY <2>3, <2>4, <3>1, <3>2, CallsAfterCalls
  <2>7. /\ TextsOf(more.calls) \in Text /\ more.sink.buffer \in Text
        /\ TextsOf(more.calls \o Rest(more.sink)) = TextsOf(more.calls) \o more.sink.buffer
    <3>1. Call("send", <<>>, 0) \in Calls
      BY TextsAreTexts DEF Call, Calls
    <3> QED BY <2>3, <2>4, <3>1, TextsOfCalls, SinkFields
  <2>8. Ink(TextsOf(more.calls) \o more.sink.buffer) =
          Ink(TextsOf(more.calls)) \o Ink(more.sink.buffer)
    BY <2>7, InkConcat
  <2>9. /\ made.sink = [more.sink EXCEPT !.buffer = <<>>]
        /\ made.calls = more.calls \o Rest(more.sink)
    <3>1. PICK x : x = [more.sink EXCEPT !.buffer = <<>>]
      OBVIOUS
    <3>2. PICK y : y = more.calls \o Rest(more.sink)
      OBVIOUS
    <3>3. made = [sink |-> x, calls |-> y]
      BY <2>2, <3>1, <3>2, Zenon
    <3>4. made.sink = x /\ made.calls = y
      BY <3>3
    <3> QED BY <3>1, <3>2, <3>4, Zenon
  <2>10. /\ made.sink \in Sinks /\ made.sink.buffer = <<>>
         /\ made.sink.sent = more.sink.sent /\ made.sink.failed = more.sink.failed
         /\ made.sink.bubble = more.sink.bubble
    <3>1. PICK s : s = more.sink
      OBVIOUS
    <3>2. s = [seen |-> s.seen, buffer |-> s.buffer, sent |-> s.sent,
               failed |-> s.failed, bubble |-> s.bubble]
      BY <2>3, <3>1, SinkFields
    <3>3. made.sink = [seen |-> s.seen, buffer |-> <<>>, sent |-> s.sent,
                       failed |-> s.failed, bubble |-> s.bubble]
      BY <2>9, <3>1, <3>2
    <3>4. /\ s.seen \in SUBSET Text /\ s.sent \in BOOLEAN
          /\ s.failed \in Nat /\ s.bubble \in Nat /\ <<>> \in Text
      BY <2>3, <3>1, SinkFields, TextsAreTexts
    <3> QED BY <3>1, <3>3, <3>4 DEF Sinks
  <2>11. \A i \in DOMAIN made.calls : made.calls[i].op = "send" /\ made.calls[i].at = 0
    BY <2>5, <2>6, <2>9
  <2>12. Ink(TextsOf(made.calls)) = Ink(TextsOf(more.calls)) \o Ink(more.sink.buffer)
    BY <2>7, <2>8, <2>9
  <2> QED BY <2>3, <2>6, <2>9, <2>10, <2>11, <2>12 DEF Flushes
<1>2. CASE ~ WeChat
  <2>1. /\ made.sink = sink
        /\ made.calls = IF sink.sent \/ text = <<>> THEN <<>>
                         ELSE <<Call("send", text, 0)>>
    BY <1>0, <1>2 DEF OnCompleted
  <2>2. Call("send", text, 0) \in Calls
    BY DEF Call, Calls
  <2>3. <<>> \in Seq(Calls) /\ <<Call("send", text, 0)>> \in Seq(Calls)
    BY <2>2
  <2>4. \A i \in DOMAIN made.calls : made.calls[i] = Call("send", text, 0)
    BY <2>1
  <2> QED BY <1>2, <2>1, <2>3, <2>4 DEF Call, Flushes
<1> QED BY <1>1, <1>2

Stages == {"reading", "closing", "ok", "error", "panicked"}

\* The reply comes to its end.
LEMMA OverTypes ==
  ASSUME TypeOK, StreamOver
  PROVE  TypeOK'
<1>1. UNCHANGED <<fixed, agent, coming, pipeVars, chatVars>>
  BY DEF StreamOver
<1>2. stage' \in Stages /\ sink' \in Sinks /\ outbox' \in Seq(Calls)
  <2>1. sink \in Sinks /\ outbox \in Seq(Calls)
    BY DEF TypeOK, SinkOK
  <2>2. CASE stage' = "error" /\ UNCHANGED sinkVars
    BY <2>1, <2>2 DEF Stages, sinkVars
  <2>3. CASE stage' = "closing" /\ Streaming /\ Do(OnCompleted(Whole))
    <3>1. Flushes(Whole, OnCompleted(Whole))
      BY <2>1, NoticesAreTexts, CompletedSends
    <3> QED BY <2>3, <3>1 DEF Do, Flushes, Stages
  <2>4. CASE stage' = "closing" /\ ~ Streaming /\ Do(SendReply)
    <3>1. Call("send", PlainReply, 0) \in Calls
      BY NoticesAreTexts DEF Call, Calls
    <3>2. sink' = sink /\ outbox' \in {<<>>, <<Call("send", PlainReply, 0)>>}
      BY <2>4 DEF Do, SendReply
    <3>3. <<>> \in Seq(Calls) /\ <<Call("send", PlainReply, 0)>> \in Seq(Calls)
      BY <3>1
    <3> QED BY <2>1, <2>4, <3>2, <3>3 DEF Stages
  <2> QED BY <2>2, <2>3, <2>4 DEF StreamOver
<1> QED BY <1>1, <1>2 DEF TypeOK, AgentOK, PipeOK, SinkOK, ChatOK, Stages, fixed, pipeVars,
  chatVars

\* A reply that ends, and a task that is gone.
LEMMA EndingTypes ==
  ASSUME TypeOK, FinishWeChat \/ FinishTelegram \/ AgentPanics
  PROVE  TypeOK'
<1>1. CASE FinishWeChat \/ FinishTelegram
  <2>1. /\ stage' \in Stages
        /\ UNCHANGED <<fixed, agentVars, pipeVars, sinkVars, chatVars>>
    BY <1>1 DEF FinishWeChat, FinishTelegram, Finish, Stages
  <2> QED BY <2>1 DEF TypeOK, AgentOK, PipeOK, SinkOK, ChatOK, Stages, fixed, pipeVars,
    chatVars, sinkVars, agentVars
<1>2. CASE AgentPanics
  <2>1. /\ stage' \in Stages /\ coming' = <<>>
        /\ UNCHANGED <<fixed, agent, pipeVars, sinkVars, chatVars>>
    BY <1>2 DEF AgentPanics, Stages
  <2>2. coming' \in Seq(Events)
    BY <2>1
  <2> QED BY <2>1, <2>2 DEF TypeOK, AgentOK, PipeOK, SinkOK, ChatOK, Stages, fixed, pipeVars,
    chatVars, sinkVars
<1> QED BY <1>1, <1>2

\* The next call of the chat.
LEMMA CallingTypes ==
  ASSUME TypeOK, NEW op, Calling(op)
  PROVE  /\ outbox[1] \in Calls /\ outbox[1].text \in Text /\ outbox[1].at \in Nat
         /\ Tail(outbox) \in Seq(Calls) /\ outbox # <<>> /\ outbox \in Seq(Calls)
         /\ UNCHANGED <<fixed, agentVars, pipeVars>>
<1>1. outbox \in Seq(Calls) /\ outbox # <<>>
  BY DEF TypeOK, SinkOK, Calling
<1>2. Head(outbox) \in Calls /\ Tail(outbox) \in Seq(Calls) /\ Head(outbox) = outbox[1]
  BY <1>1, HeadTailProperties
<1>3. UNCHANGED <<fixed, agentVars, pipeVars>>
  BY DEF Calling
<1> QED BY <1>1, <1>2, <1>3 DEF Calls

\* The pieces that arrive are texts.
LEMMA SentTypes ==
  ASSUME TypeOK, NEW pieces \in Seq(Text), NEW n \in 0 .. Len(pieces),
         Sent(pieces, n)
  PROVE  /\ chat' \in Seq(Text) /\ SubSeq(pieces, 1, n) \in Seq(Text)
         /\ Len(SubSeq(pieces, 1, n)) = n
         /\ \A i \in 1 .. n : SubSeq(pieces, 1, n)[i] = pieces[i]
<1>1. Len(pieces) \in Nat
  BY LenProperties
<1>2. /\ SubSeq(pieces, 1, n) \in Seq(Text) /\ Len(SubSeq(pieces, 1, n)) = n
      /\ \A i \in 1 .. n : SubSeq(pieces, 1, n)[i] = pieces[i]
  <2>1. 1 \in 1 .. Len(pieces) + 1 /\ n \in 1 - 1 .. Len(pieces)
    BY <1>1
  <2> QED BY <1>1, <2>1, SubSeqProperties
<1>3. chat \in Seq(Text) /\ chat' = chat \o SubSeq(pieces, 1, n)
  BY DEF TypeOK, ChatOK, Sent
<1>4. chat' \in Seq(Text)
  BY <1>2, <1>3, ConcatProperties
<1> QED BY <1>2, <1>4

\* The pieces that a call of WeChat sends, and what it tells them of.
WeChatText   == IF Streaming THEN Trim(outbox[1].text) ELSE outbox[1].text
WeChatBody   == IF sink.sent THEN WeChatText ELSE Prefix \o WeChatText
WeChatPieces ==
  IF Streaming /\ WeChatText = <<>> THEN <<>> ELSE SplitChars(WeChatBody)

\* What a call of WeChat sends says its text, with the prefix when it is the
\* first; with streaming a message of nothing is not sent.
LEMMA WeChatSends ==
  ASSUME TypeOK, Calling("send")
  PROVE  /\ WeChatText \in Text /\ Ink(WeChatText) = Ink(outbox[1].text)
         /\ WeChatBody \in Text
         /\ WeChatPieces \in Seq(Text)
         /\ \A i \in DOMAIN WeChatPieces :
              Len(WeChatPieces[i]) <= MaxChars /\ (Streaming => WeChatPieces[i] # <<>>)
         /\ WeChatPieces = <<>> => Streaming /\ WeChatText = <<>>
         /\ WeChatPieces # <<>> => FlattenSeq(WeChatPieces) = WeChatBody
<1>1. outbox[1].text \in Text
  BY CallingTypes
<1>2. WeChatText \in Text /\ Ink(WeChatText) = Ink(outbox[1].text)
  BY <1>1, InkOfTrim DEF WeChatText
<1>3. WeChatBody \in Text
  BY <1>2, TextsAreTexts, TextConcat DEF WeChatBody
<1>4. CASE Streaming /\ WeChatText = <<>>
  <2>1. WeChatPieces = <<>>
    BY <1>4 DEF WeChatPieces
  <2> QED BY <1>2, <1>3, <1>4, <2>1
<1>5. CASE ~ (Streaming /\ WeChatText = <<>>) /\ WeChatBody = <<>>
  <2>1. WeChatPieces = <<<<>>>>
    BY <1>5 DEF WeChatPieces, SplitChars
  <2>2. ~ Streaming
    <3>1. WeChatText # <<>> => Prefix \o WeChatText # <<>>
      <4>1. Prefix \in Seq(Char) /\ WeChatText \in Seq(Char)
        BY <1>2, TextsAreTexts DEF Text
      <4> QED BY <4>1, ConcatEqualIffEmpty
    <3> QED BY <1>5, <3>1 DEF WeChatBody
  <2>3. FlattenSeq(WeChatPieces) = WeChatBody
    BY <1>3, <1>5, <2>1, FlattenOne DEF Text
  <2>4. Len(<<>>) <= MaxChars
    BY Limits, SMT
  <2>5. <<<<>>>> \in Seq(Text) /\ <<<<>>>> # <<>>
        /\ \A i \in DOMAIN <<<<>>>> : <<<<>>>>[i] = <<>>
    BY TextsAreTexts
  <2> QED BY <1>2, <1>3, <2>1, <2>2, <2>3, <2>4, <2>5
<1>6. CASE ~ (Streaming /\ WeChatText = <<>>) /\ WeChatBody # <<>>
  <2>1. WeChatPieces = SplitChars(WeChatBody)
    BY <1>6 DEF WeChatPieces
  <2>2. /\ SplitChars(WeChatBody) \in Seq(Text)
        /\ \A c \in Range(SplitChars(WeChatBody)) : Len(c) \in 1 .. MaxChars
        /\ FlattenSeq(SplitChars(WeChatBody)) = WeChatBody
    BY <1>3, <1>6, SplitCharsKeepsText
  <2>3. \A i \in DOMAIN WeChatPieces :
          Len(WeChatPieces[i]) <= MaxChars /\ WeChatPieces[i] # <<>>
    <3>1. \A i \in DOMAIN WeChatPieces : WeChatPieces[i] \in Range(SplitChars(WeChatBody))
      BY <2>1 DEF Range
    <3> QED BY <2>2, <3>1, Limits
  <2>4. WeChatPieces # <<>>
    BY <1>6, <2>1, <2>2, FlattenNothing
  <2> QED BY <1>2, <1>3, <2>1, <2>2, <2>3, <2>4
<1> QED BY <1>4, <1>5, <1>6

\* A call that sends text.
LEMMA SendTypes ==
  ASSUME TypeOK, SendWeChat \/ SendTelegram
  PROVE  TypeOK'
<1>1. Calling("send")
  BY DEF SendWeChat, SendTelegram
<1>2. /\ outbox[1].text \in Text /\ Tail(outbox) \in Seq(Calls)
      /\ UNCHANGED <<fixed, agentVars, pipeVars>>
  BY <1>1, CallingTypes
<1>3. sink \in Sinks /\ stage \in Stages /\ chat \in Seq(Text) /\ hidden \in BOOLEAN
  BY DEF TypeOK, SinkOK, ChatOK, Stages
<1>4. chat' \in Seq(Text) /\ sink' \in Sinks /\ outbox' \in Seq(Calls) /\ stage' \in Stages
      /\ hidden' = hidden
  <2>1. CASE SendWeChat
    <3>1. PICK n \in 0 .. Len(WeChatPieces) :
            /\ Sent(WeChatPieces, n) /\ outbox' = Tail(outbox)
            /\ sink' = IF n < Len(WeChatPieces) THEN [sink EXCEPT !.failed = @ + 1]
                       ELSE [sink EXCEPT !.sent = @ \/ WeChatPieces # <<>>]
      BY <2>1, Zenon DEF SendWeChat, WeChatPieces, WeChatBody, WeChatText
    <3>2. WeChatPieces \in Seq(Text)
      BY <1>1, WeChatSends
    <3>3. chat' \in Seq(Text)
      BY <3>1, <3>2, SentTypes
    <3>4. sink' \in Sinks
      <4>1. /\ sink.seen \in SUBSET Text /\ sink.buffer \in Text /\ sink.sent \in BOOLEAN
            /\ sink.failed \in Nat /\ sink.bubble \in Nat
            /\ sink = [seen |-> sink.seen, buffer |-> sink.buffer, sent |-> sink.sent,
                       failed |-> sink.failed, bubble |-> sink.bubble]
        BY <1>3, SinkFields
      <4>2. CASE sink' = [sink EXCEPT !.failed = @ + 1]
        <5>1. sink' = [seen |-> sink.seen, buffer |-> sink.buffer, sent |-> sink.sent,
                       failed |-> sink.failed + 1, bubble |-> sink.bubble]
          BY <4>1, <4>2
        <5> QED BY <4>1, <5>1 DEF Sinks
      <4>3. CASE sink' = [sink EXCEPT !.sent = @ \/ WeChatPieces # <<>>]
        <5>1. PICK b : b = (sink.sent \/ WeChatPieces # <<>>)
          OBVIOUS
        <5>2. sink' = [seen |-> sink.seen, buffer |-> sink.buffer, sent |-> b,
                       failed |-> sink.failed, bubble |-> sink.bubble]
          BY <4>1, <4>3, <5>1
        <5>3. b \in BOOLEAN
          BY <5>1
        <5> QED BY <4>1, <5>2, <5>3 DEF Sinks
      <4> QED BY <3>1, <4>2, <4>3
    <3>5. UNCHANGED <<stage, hidden>>
      BY <2>1 DEF SendWeChat
    <3> QED BY <1>2, <1>3, <3>1, <3>3, <3>4, <3>5
  <2>2. CASE SendTelegram
    <3>1. PICK pieces : pieces = SplitBytes(Prefix \o outbox[1].text)
      OBVIOUS
    <3>2. pieces \in Seq(Text)
      BY <1>2, <3>1, TextsAreTexts, TextConcat, SplitBytesKeepsText DEF CutsBytes
    <3>3. UNCHANGED <<sink, hidden>>
      BY <2>2 DEF SendTelegram
    <3>4. <<>> \in Seq(Calls)
      OBVIOUS
    <3>5. CASE Torn \in Range(pieces)
      <4>1. stage' = "panicked" /\ outbox' = <<>> /\ UNCHANGED <<chat, troubles>>
        BY <2>2, <3>1, <3>5 DEF SendTelegram
      <4> QED BY <1>3, <3>3, <3>4, <4>1 DEF Stages
    <3>6. CASE Torn \notin Range(pieces)
      <4>1. PICK n \in 0 .. Len(pieces) :
              /\ Sent(pieces, n)
              /\ IF n = Len(pieces) THEN outbox' = Tail(outbox) /\ UNCHANGED stage
                 ELSE outbox' = <<>> /\ stage' = "error"
        BY <2>2, <3>1, <3>6 DEF SendTelegram
      <4>2. chat' \in Seq(Text)
        BY <3>2, <4>1, SentTypes
      <4> QED BY <1>2, <1>3, <3>3, <3>4, <4>1, <4>2 DEF Stages
    <3> QED BY <3>5, <3>6
  <2> QED BY <2>1, <2>2
<1> QED BY <1>2, <1>4 DEF TypeOK, AgentOK, PipeOK, SinkOK, ChatOK, Stages, fixed, pipeVars,
  agentVars

\* A message that changes leaves the others.
LEMMA MessageChanges ==
  ASSUME NEW s \in Seq(Text), NEW t \in Text, NEW k
  PROVE  /\ [s EXCEPT ![k] = t] \in Seq(Text)
         /\ Len([s EXCEPT ![k] = t]) = Len(s)
         /\ \A i \in 1 .. Len(s) : [s EXCEPT ![k] = t][i] = IF i = k THEN t ELSE s[i]
<1>1. /\ Len(s) \in Nat /\ DOMAIN s = 1 .. Len(s)
      /\ \A i \in 1 .. Len(s) : s[i] \in Text
  BY LenProperties
<1>2. PICK r : r = [i \in 1 .. Len(s) |-> IF i = k THEN t ELSE s[i]]
  OBVIOUS
<1>3. [s EXCEPT ![k] = t] = r
  BY <1>1, <1>2
<1>4. r \in [1 .. Len(s) -> Text]
  BY <1>1, <1>2
<1>5. r \in Seq(Text) /\ Len(r) = Len(s)
  BY <1>1, <1>4
<1> QED BY <1>2, <1>3, <1>5

\* A placeholder, and a change of a message.
LEMMA ChangeTypes ==
  ASSUME TypeOK, Place \/ Change
  PROVE  TypeOK'
<1>1. PICK op : Calling(op)
  BY DEF Place, Change
<1>2. /\ outbox[1] \in Calls /\ outbox[1].text \in Text /\ Tail(outbox) \in Seq(Calls)
      /\ UNCHANGED <<fixed, agentVars, pipeVars>>
  BY <1>1, CallingTypes
<1>3. sink \in Sinks /\ stage \in Stages /\ chat \in Seq(Text) /\ hidden \in BOOLEAN
  BY DEF TypeOK, SinkOK, ChatOK, Stages
<1>4. chat' \in Seq(Text) /\ sink' \in Sinks /\ outbox' \in Seq(Calls) /\ stage' \in Stages
      /\ hidden' \in BOOLEAN
  <2>1. CASE Place
    <3>1. /\ outbox' = Tail(outbox) /\ UNCHANGED <<stage, hidden>>
          /\ \/ /\ chat' = Append(chat, Placeholder)
                /\ sink' = [sink EXCEPT !.bubble = Len(chat) + 1]
             \/ UNCHANGED <<chat, sink>>
      BY <2>1 DEF Place
    <3>2. CASE chat' = Append(chat, Placeholder) /\ sink' = [sink EXCEPT !.bubble = Len(chat) + 1]
      <4>1. Append(chat, Placeholder) \in Seq(Text) /\ Len(chat) + 1 \in Nat
        BY <1>3, TextsAreTexts, AppendProperties, LenProperties
      <4>2. /\ sink.seen \in SUBSET Text /\ sink.buffer \in Text /\ sink.sent \in BOOLEAN
            /\ sink.failed \in Nat /\ sink.bubble \in Nat
            /\ sink = [seen |-> sink.seen, buffer |-> sink.buffer, sent |-> sink.sent,
                       failed |-> sink.failed, bubble |-> sink.bubble]
        BY <1>3, SinkFields
      <4>3. sink' = [seen |-> sink.seen, buffer |-> sink.buffer, sent |-> sink.sent,
                     failed |-> sink.failed, bubble |-> Len(chat) + 1]
        BY <3>2, <4>2
      <4>4. sink' \in Sinks
        BY <4>1, <4>2, <4>3 DEF Sinks
      <4> QED BY <1>2, <1>3, <3>1, <3>2, <4>1, <4>4
    <3> QED BY <1>2, <1>3, <3>1, <3>2
  <2>2. CASE Change
    <3>1. /\ outbox' = Tail(outbox) /\ UNCHANGED <<sink, stage>>
          /\ \/ /\ chat' = [chat EXCEPT ![outbox[1].at] =
                              IF outbox[1].op = "delete" THEN <<>>
                              ELSE EditBody(outbox[1].text)]
                /\ UNCHANGED hidden
             \/ UNCHANGED chat /\ hidden' = (hidden \/ outbox[1].op = "final")
      BY <2>2 DEF Change
    <3>2. [chat EXCEPT ![outbox[1].at] = IF outbox[1].op = "delete" THEN <<>>
                                         ELSE EditBody(outbox[1].text)] \in Seq(Text)
      <4>1. EditBody(outbox[1].text) \in Text /\ <<>> \in Text
        BY <1>2, TextsAreTexts DEF EditBody
      <4> QED BY <1>2, <1>3, <4>1, MessageChanges
    <3> QED BY <1>2, <1>3, <3>1, <3>2
  <2> QED BY <2>1, <2>2
<1> QED BY <1>2, <1>4 DEF TypeOK, AgentOK, PipeOK, SinkOK, ChatOK, Stages, fixed, pipeVars,
  agentVars

\* The pieces of a reply have their types: the events, the buffers, the calls
\* and the messages in the chat.
THEOREM TypeCorrect == Spec => []TypeOK
<1>1. Init => TypeOK
  <2> SUFFICES ASSUME Init PROVE TypeOK
    OBVIOUS
  <2>0. PICK blocked \in {Blocked(sender) : sender \in Senders} :
          /\ route \in Routes /\ source \in Sources
          /\ agent = [open |-> {}, over |-> blocked, asking |-> FALSE,
                      asked |-> FALSE, n |-> 0]
          /\ coming = <<>> /\ typed = {} /\ buffers = <<>>
          /\ segments = IF blocked THEN <<Denied>> ELSE <<>>
          /\ last = IF blocked THEN Denied ELSE <<>>
          /\ parts = segments /\ spoken = <<>>
          /\ sink = EmptySink /\ outbox = <<>>
          /\ chat = <<>> /\ stage = "reading" /\ hidden = FALSE
    BY DEF Init
  <2>1. blocked \in BOOLEAN
    <3>1. \A sender \in Senders : Blocked(sender) \in BOOLEAN
      BY Zenon DEF Blocked
    <3> QED BY <3>1, Zenon
  <2>2. ASSUME NEW T PROVE <<>> \in Partial(AnyId, T)
    <3>1. {} \in SUBSET AnyId /\ <<>> \in [{} -> T]
      OBVIOUS
    <3> QED BY <3>1, PartialOf
  <2>3. Denied \in Text /\ <<>> \in Text
    BY TextsAreTexts
  <2>4. <<>> \in Seq(Events) /\ <<>> \in Seq(Calls) /\ <<>> \in Seq(Text) /\ <<Denied>> \in Seq(Text)
    BY <2>3
  <2>5. AgentOK
    <3>1. {} \in SUBSET AnyId /\ FALSE \in BOOLEAN /\ 0 \in Nat
      OBVIOUS
    <3>2. agent \in Agents
      BY <2>0, <2>1, <2>2, <3>1, AgentOf
    <3> QED BY <2>0, <2>1, <2>4, <3>2 DEF AgentOK
  <2>6. PipeOK
    BY <2>0, <2>1, <2>2, <2>3, <2>4 DEF PipeOK
  <2>7. SinkOK
    <3>1. EmptySink \in Sinks
      BY <2>3 DEF EmptySink, Sinks
    <3> QED BY <2>0, <2>1, <2>4, <3>1 DEF SinkOK
  <2> QED BY <2>0, <2>1, <2>4, <2>5, <2>6, <2>7 DEF TypeOK, ChatOK
<1>2. TypeOK /\ [Next]_vars => TypeOK'
  <2> SUFFICES ASSUME TypeOK, [Next]_vars PROVE TypeOK'
    OBVIOUS
  <2>1. CASE Backend
    <3>1. UNCHANGED <<fixed, pipeVars, sinkVars, chatVars, stage>>
      BY <2>1, BackendFrame
    <3>2. agent' \in Agents /\ coming' \in Seq(Events)
      BY <2>1, HttpTypes, OtherTypes DEF Backend
    <3> QED BY <3>1, <3>2 DEF TypeOK, AgentOK, PipeOK, SinkOK, ChatOK, fixed, pipeVars,
          sinkVars, chatVars
  <2>2. CASE UNCHANGED vars
    BY <2>2 DEF vars, TypeOK, AgentOK, PipeOK, SinkOK, ChatOK
  <2>3. Next => \/ Backend \/ TakeAnnounced \/ TakeDelta \/ TakeCompleted
                \/ (TakeFailed \/ TakeError) \/ StreamOver
                \/ (FinishWeChat \/ FinishTelegram \/ AgentPanics)
                \/ (SendWeChat \/ SendTelegram) \/ (Place \/ Change)
    BY Zenon DEF Next, Backend, HttpActs, CodexActs, CliActs
  <2> QED BY <2>1, <2>2, <2>3, AnnouncedTypes, DeltaTypes, CompletedTypes, FailedTypes,
        OverTypes, EndingTypes, SendTypes, ChangeTypes
<1> QED BY <1>1, <1>2, PTL DEF Spec

-----------------------------------------------------------------------------
(* Every message fits.                                                         *)

\* The calls that cannot make a message too long, and the messages that fit.
FitCalls ==
  {c \in Calls : IF WeChat THEN c.op = "send"
                 ELSE c.op \in {"edit", "final", "delete"} => Bytes(c.text) <= MaxMessage}
FitMessages ==
  {t \in Text : IF WeChat THEN Len(t) <= MaxChars /\ (Streaming => t # <<>>)
                ELSE Bytes(t) <= MaxMessage}

FitInv == outbox \in Seq(FitCalls) /\ chat \in Seq(FitMessages)

\* Calls that fit, one by one, and messages.
LEMMA FitOneByOne ==
  /\ \A s \in Seq(Calls) : (\A i \in DOMAIN s : s[i] \in FitCalls) => s \in Seq(FitCalls)
  /\ \A s \in Seq(Text) : (\A i \in DOMAIN s : s[i] \in FitMessages) => s \in Seq(FitMessages)
<1>1. ASSUME NEW s \in Seq(Calls), \A i \in DOMAIN s : s[i] \in FitCalls
      PROVE  s \in Seq(FitCalls)
  BY <1>1, LenProperties
<1>2. ASSUME NEW s \in Seq(Text), \A i \in DOMAIN s : s[i] \in FitMessages
      PROVE  s \in Seq(FitMessages)
  BY <1>2, LenProperties
<1> QED BY <1>1, <1>2

\* The members of a sequence are in its set.
LEMMA MembersOf ==
  ASSUME NEW T, NEW s \in Seq(T)
  PROVE  Len(s) \in Nat /\ DOMAIN s = 1 .. Len(s) /\ \A i \in DOMAIN s : s[i] \in T
BY LenProperties

\* The next action of a reply, with the ones that are alike together.
LEMMA NextActs ==
  ASSUME Next
  PROVE  \/ Backend \/ TakeAnnounced \/ TakeDelta \/ TakeCompleted
         \/ TakeFailed \/ TakeError \/ StreamOver
         \/ FinishWeChat \/ FinishTelegram \/ AgentPanics
         \/ SendWeChat \/ SendTelegram \/ Place \/ Change
BY Zenon DEF Next, Backend, HttpActs, CodexActs, CliActs

\* The way to the chat and the backend of a reply stay.
LEMMA FixedStays ==
  ASSUME [Next]_vars
  PROVE  UNCHANGED fixed
<1>1. CASE UNCHANGED vars
  BY <1>1 DEF vars, fixed
<1>2. CASE Backend
  BY <1>2, BackendFrame
<1>3. CASE TakeAnnounced \/ TakeDelta \/ TakeCompleted \/ TakeFailed \/ TakeError
  BY <1>3 DEF TakeAnnounced, TakeDelta, TakeCompleted, TakeFailed, TakeError, Taken
<1>4. CASE StreamOver \/ AgentPanics
  BY <1>4 DEF StreamOver, AgentPanics
<1>5. CASE FinishWeChat \/ FinishTelegram
  BY <1>5 DEF FinishWeChat, FinishTelegram, Finish
<1>6. CASE SendWeChat \/ SendTelegram
  BY <1>6 DEF SendWeChat, SendTelegram, Calling
<1>7. CASE Place \/ Change
  BY <1>7 DEF Place, Change, Calling
<1> QED BY <1>1, <1>2, <1>3, <1>4, <1>5, <1>6, <1>7, NextActs

\* The calls that an event makes fit.
LEMMA TakeFits ==
  ASSUME TypeOK, TakeAnnounced \/ TakeDelta \/ TakeCompleted \/ TakeFailed \/ TakeError
  PROVE  outbox' \in Seq(FitCalls) /\ chat' = chat
<1>1. PICK kind : Taken(kind)
  BY DEF TakeAnnounced, TakeDelta, TakeCompleted, TakeFailed, TakeError
<1>2. outbox = <<>> /\ chat' = chat
  BY <1>1, TakenTypes DEF chatVars
<1>3. <<>> \in Seq(FitCalls)
  OBVIOUS
<1>4. sink \in Sinks /\ sink.bubble \in Nat
  BY SinkFields DEF TypeOK, SinkOK
<1>5. CASE outbox' = outbox \/ outbox' = <<>>
  BY <1>2, <1>3, <1>5
<1>6. CASE TakeAnnounced
  <2>1. CASE outbox' = OnStreamStart.calls
    <3>1. ~ WeChat => Call("place", Placeholder, 0) \in FitCalls
      BY TextsAreTexts DEF FitCalls, Call, Calls
    <3> QED BY <1>2, <1>3, <2>1, <3>1 DEF OnStreamStart
  <2>2. outbox' = outbox \/ outbox' = OnStreamStart.calls
    BY <1>6 DEF TakeAnnounced, Do, sinkVars
  <2> QED BY <1>5, <2>1, <2>2
<1>7. CASE TakeDelta
  <2>1. PICK text : text = buffers[coming[1].id] \o coming[1].text
    OBVIOUS
  <2>2. CASE ~ Streaming \/ coming[1].id \notin typed \cap DOMAIN buffers
    <3>1. outbox' = outbox
      BY <1>7, <2>2 DEF TakeDelta, sinkVars
    <3> QED BY <1>5, <3>1
  <2>3. CASE ~ (~ Streaming \/ coming[1].id \notin typed \cap DOMAIN buffers)
    <3>1. OnStreamDelta(text)
      BY <1>7, <2>1, <2>3 DEF TakeDelta
    <3>2. text \in Text
      <4>1. buffers \in Partial(AnyId, Text)
        BY DEF TypeOK, PipeOK
      <4>2. buffers[coming[1].id] \in Text
        BY <2>3, <4>1, PartialShape
      <4>3. coming[1].text \in Text
        BY <1>1, TakenTypes
      <4> QED BY <2>1, <4>2, <4>3, TextConcat
    <3>3. \/ outbox' = outbox \/ outbox' = <<>>
          \/ /\ ~ WeChat /\ Shown(text) # Torn
             /\ outbox' = <<Call("edit", Shown(text), sink.bubble)>>
      BY <3>1 DEF OnStreamDelta, sinkVars
    <3>4. (~ WeChat /\ Shown(text) # Torn) => Call("edit", Shown(text), sink.bubble) \in FitCalls
      <4>1. Shown(text) \in Text /\ (Shown(text) = Torn \/ Bytes(Shown(text)) <= MaxMessage)
        BY <3>2, ShownFits
      <4>2. PICK x : x = Shown(text)
        OBVIOUS
      <4>3. Call("edit", x, sink.bubble) \in Calls /\ Call("edit", x, sink.bubble).text = x
        BY <1>4, <4>1, <4>2 DEF Call, Calls
      <4>4. (~ WeChat /\ Bytes(x) <= MaxMessage) => Call("edit", x, sink.bubble) \in FitCalls
        BY <4>3 DEF FitCalls
      <4>5. x # Torn => Bytes(x) <= MaxMessage
        BY <4>1, <4>2
      <4>6. (~ WeChat /\ x # Torn) => Call("edit", x, sink.bubble) \in FitCalls
        BY <4>4, <4>5
      <4> QED BY <4>2, <4>6
    <3>5. \A d \in FitCalls : <<d>> \in Seq(FitCalls)
      OBVIOUS
    <3>6. outbox' = outbox \/ outbox' = <<>> \/ outbox' \in Seq(FitCalls)
      BY <3>3, <3>4, <3>5, Zenon
    <3> QED BY <1>2, <1>3, <3>6
  <2> QED BY <2>2, <2>3
<1>8. CASE TakeCompleted
  <2>1. PICK said : said = IF coming[1].id \in DOMAIN buffers
                           THEN buffers[coming[1].id] ELSE <<>>
    OBVIOUS
  <2>2. PICK final : final = IF said # <<>> THEN said ELSE coming[1].text
    OBVIOUS
  <2>3. final \in Text
    <3>1. buffers \in Partial(AnyId, Text)
      BY DEF TypeOK, PipeOK
    <3>2. said \in Text
      BY <2>1, <3>1, PartialShape, TextsAreTexts
    <3> QED BY <1>1, <2>2, <3>2, TakenTypes
  <2>4. outbox' = outbox \/ outbox' = <<>> \/ outbox' = OnStreamEnd(final).calls
    BY <1>8, <2>1, <2>2 DEF TakeCompleted, Do, Nothing, sinkVars
  <2>5. OnStreamEnd(final).calls \in Seq(FitCalls)
    <3>1. CASE WeChat
      <4>1. Joins(sink, final, OnStreamEnd(final))
        BY <1>4, <2>3, <3>1, SegmentJoins DEF OnStreamEnd
      <4>2. \A i \in DOMAIN OnStreamEnd(final).calls : OnStreamEnd(final).calls[i] \in FitCalls
        <5>1. PICK calls : calls = OnStreamEnd(final).calls
          OBVIOUS
        <5>2. calls \in Seq(Calls) /\ \A i \in DOMAIN calls : calls[i].op = "send"
          BY <4>1, <5>1 DEF Joins
        <5>3. \A i \in DOMAIN calls : calls[i] \in Calls
          BY <5>2, MembersOf
        <5> QED BY <3>1, <5>1, <5>2, <5>3 DEF FitCalls
      <4>3. OnStreamEnd(final).calls \in Seq(Calls)
        BY <4>1 DEF Joins
      <4> QED BY <4>2, <4>3, FitOneByOne
    <3>2. CASE ~ WeChat
      <4>1. Ends(sink, final, OnStreamEnd(final))
        BY <1>4, <2>3, <3>2, EndSends DEF OnStreamEnd
      <4>2. PICK calls : calls = OnStreamEnd(final).calls
        OBVIOUS
      <4>3. calls \in Seq(Calls)
        BY <4>1, <4>2 DEF Ends
      <4>4. ASSUME NEW i \in DOMAIN calls PROVE calls[i] \in FitCalls
        <5>1. calls[i] \in Calls
          BY <4>3, LenProperties
        <5>2. \/ calls[i].op = "send"
              \/ calls[i].op = "delete" /\ calls[i].text = <<>>
              \/ calls[i].op = "final" /\ Bytes(calls[i].text) <= MaxBytes
          BY <4>1, <4>2 DEF Ends
        <5>3. Bytes(<<>>) <= MaxMessage
          BY ShortTextsFit
        <5>4. calls[i].op = "final" => Bytes(calls[i].text) <= MaxMessage
          <6>1. calls[i].text \in Text
            BY <5>1 DEF Calls
          <6>2. Bytes(calls[i].text) \in Nat
            BY <6>1, BytesBehindEllipsis
          <6> QED BY <5>2, <6>2, Limits
        <5>5. calls[i].op \in {"edit", "final", "delete"} => Bytes(calls[i].text) <= MaxMessage
          BY <5>2, <5>3, <5>4
        <5> QED BY <3>2, <5>1, <5>5 DEF FitCalls
      <4> QED BY <4>2, <4>3, <4>4, FitOneByOne
    <3> QED BY <3>1, <3>2
  <2> QED BY <1>2, <1>5, <2>4, <2>5
<1>9. CASE TakeFailed \/ TakeError
  <2>1. outbox' = outbox
    BY <1>9 DEF TakeFailed, TakeError, sinkVars
  <2> QED BY <1>5, <2>1
<1> QED BY <1>6, <1>7, <1>8, <1>9

\* The calls at the end of a reply fit.
LEMMA OverFits ==
  ASSUME TypeOK, FitInv, StreamOver
  PROVE  outbox' \in Seq(FitCalls) /\ chat' = chat
<1>1. chat' = chat
  BY DEF StreamOver, chatVars
<1>2. \/ outbox' = outbox
      \/ outbox' = OnCompleted(Whole).calls
      \/ outbox' = <<>> \/ outbox' = <<Call("send", PlainReply, 0)>>
  BY DEF StreamOver, SendReply, Do, sinkVars
<1>3. ASSUME NEW c \in Calls, c.op = "send" PROVE c \in FitCalls
  BY <1>3 DEF FitCalls
<1>4. OnCompleted(Whole).calls \in Seq(FitCalls)
  <2>1. Flushes(Whole, OnCompleted(Whole))
    BY NoticesAreTexts, CompletedSends DEF TypeOK, SinkOK
  <2>2. PICK calls : calls = OnCompleted(Whole).calls
    OBVIOUS
  <2>3. calls \in Seq(Calls) /\ \A i \in DOMAIN calls : calls[i].op = "send"
    BY <2>1, <2>2 DEF Flushes
  <2>4. \A i \in DOMAIN calls : calls[i] \in FitCalls
    <3>1. \A i \in DOMAIN calls : calls[i] \in Calls
      BY <2>3, MembersOf
    <3> QED BY <1>3, <2>3, <3>1
  <2> QED BY <2>2, <2>3, <2>4, FitOneByOne
<1>5. <<>> \in Seq(FitCalls) /\ <<Call("send", PlainReply, 0)>> \in Seq(FitCalls)
  <2>1. Call("send", PlainReply, 0) \in FitCalls
    BY <1>3, NoticesAreTexts DEF Call, Calls
  <2> QED BY <2>1
<1> QED BY <1>1, <1>2, <1>4, <1>5 DEF FitInv

\* The messages that a call makes fit.
LEMMA CallFits ==
  ASSUME TypeOK, FitInv, SendWeChat \/ SendTelegram \/ Place \/ Change
  PROVE  outbox' \in Seq(FitCalls) /\ chat' \in Seq(FitMessages)
<1>1. PICK op : Calling(op) /\ outbox[1].op = op
  BY DEF SendWeChat, SendTelegram, Place, Change, Calling
<1>2. /\ outbox # <<>> /\ outbox[1] \in FitCalls /\ Tail(outbox) \in Seq(FitCalls)
      /\ outbox[1].text \in Text
  <2>1. outbox \in Seq(FitCalls) /\ outbox # <<>>
    BY <1>1 DEF FitInv, Calling
  <2> QED BY <2>1, HeadTailProperties DEF FitCalls, Calls
<1>3. chat \in Seq(FitMessages) /\ <<>> \in Seq(FitCalls)
  BY DEF FitInv
<1>4. ASSUME NEW pieces \in Seq(Text), NEW n \in 0 .. Len(pieces), Sent(pieces, n),
             \A i \in DOMAIN pieces : pieces[i] \in FitMessages
      PROVE  chat' \in Seq(FitMessages)
  <2>1. pieces \in Seq(FitMessages) /\ Len(pieces) \in Nat
    <3>1. \A i \in DOMAIN pieces : pieces[i] \in FitMessages
      BY <1>4
    <3>2. pieces \in Seq(FitMessages)
      BY <3>1, FitOneByOne
    <3> QED BY <3>2, MembersOf
  <2>2. SubSeq(pieces, 1, n) \in Seq(FitMessages)
    <3>1. 1 \in 1 .. Len(pieces) + 1 /\ n \in 1 - 1 .. Len(pieces)
      BY <2>1
    <3> QED BY <2>1, <3>1, SubSeqProperties
  <2> QED BY <1>3, <1>4, <2>2, ConcatProperties DEF Sent
<1>5. CASE SendWeChat
  <2>1. PICK n \in 0 .. Len(WeChatPieces) : Sent(WeChatPieces, n) /\ outbox' = Tail(outbox)
    BY <1>5, Zenon DEF SendWeChat, WeChatPieces, WeChatBody, WeChatText
  <2>2. WeChat /\ Calling("send")
    BY <1>5 DEF SendWeChat
  <2>3. /\ WeChatPieces \in Seq(Text)
        /\ \A i \in DOMAIN WeChatPieces :
             Len(WeChatPieces[i]) <= MaxChars /\ (Streaming => WeChatPieces[i] # <<>>)
    BY <2>2, WeChatSends
  <2>4. \A i \in DOMAIN WeChatPieces : WeChatPieces[i] \in FitMessages
    BY <2>2, <2>3, LenProperties DEF FitMessages
  <2> QED BY <1>2, <1>4, <2>1, <2>3, <2>4
<1>6. CASE SendTelegram
  <2>1. PICK pieces : pieces = SplitBytes(Prefix \o outbox[1].text)
    OBVIOUS
  <2>2. CutsBytes(pieces, Prefix \o outbox[1].text, 1)
    BY <1>2, <2>1, TextsAreTexts, TextConcat, SplitBytesKeepsText
  <2>3. CASE Torn \in Range(pieces)
    <3>1. outbox' = <<>> /\ chat' = chat
      BY <1>6, <2>1, <2>3 DEF SendTelegram
    <3> QED BY <1>3, <3>1
  <2>4. CASE Torn \notin Range(pieces)
    <3>1. PICK n \in 0 .. Len(pieces) :
            Sent(pieces, n) /\ (outbox' = Tail(outbox) \/ outbox' = <<>>)
      BY <1>6, <2>1, <2>4 DEF SendTelegram
    <3>2. pieces \in Seq(Text) /\ \A c \in Range(pieces) : Bytes(c) <= MaxBytes
      BY <2>2, <2>4 DEF CutsBytes
    <3>3. ASSUME NEW i \in DOMAIN pieces PROVE pieces[i] \in FitMessages
      <4>1. pieces[i] \in Text /\ pieces[i] \in Range(pieces)
        BY <3>2, LenProperties DEF Range
      <4>2. Bytes(pieces[i]) <= MaxMessage
        BY <3>2, <4>1, BytesBehindEllipsis, Limits
      <4>3. ~ WeChat
        BY <1>6 DEF SendTelegram
      <4> QED BY <4>1, <4>2, <4>3 DEF FitMessages
    <3>4. chat' \in Seq(FitMessages)
      BY <1>4, <3>1, <3>2, <3>3
    <3> QED BY <1>2, <1>3, <3>1, <3>4
  <2> QED BY <2>3, <2>4
<1>7. CASE Place
  <2>1. ~ WeChat
    <3>1. outbox[1].op = "place"
      BY <1>7 DEF Place, Calling
    <3> QED BY <1>2, <3>1 DEF FitCalls
  <2>2. Placeholder \in FitMessages
    BY <2>1, ShortTextsFit, TextsAreTexts DEF FitMessages
  <2>3. outbox' = Tail(outbox) /\ (chat' = Append(chat, Placeholder) \/ chat' = chat)
    BY <1>7 DEF Place
  <2> QED BY <1>2, <1>3, <2>2, <2>3, AppendProperties
<1>8. CASE Change
  <2>1. ~ WeChat /\ outbox[1].op \in {"edit", "final", "delete"}
    <3>1. outbox[1].op \in {"edit", "final", "delete"}
      BY <1>8 DEF Change, Calling
    <3> QED BY <1>2, <3>1 DEF FitCalls
  <2>1a. PICK text : text = IF outbox[1].op = "delete" THEN <<>>
                            ELSE EditBody(outbox[1].text)
    OBVIOUS
  <2>2. text \in Text /\ text \in FitMessages
    <3>1. outbox[1].text \in FitMessages
      BY <1>2, <2>1 DEF FitCalls, FitMessages
    <3>2. Placeholder \in FitMessages /\ <<>> \in FitMessages
      BY <2>1, ShortTextsFit, TextsAreTexts DEF FitMessages
    <3>3. text \in {<<>>, Placeholder, outbox[1].text}
      BY <2>1a DEF EditBody
    <3> QED BY <3>1, <3>2, <3>3 DEF FitMessages
  <2>3. /\ outbox' = Tail(outbox)
        /\ chat' = [chat EXCEPT ![outbox[1].at] = text] \/ chat' = chat
    BY <1>8, <2>1a DEF Change
  <2>4. chat \in Seq(Text)
    BY DEF TypeOK, ChatOK
  <2>5. PICK k : k = outbox[1].at
    OBVIOUS
  <2>6. PICK c : c = [chat EXCEPT ![k] = text]
    OBVIOUS
  <2>7. /\ c \in Seq(Text) /\ Len(c) = Len(chat)
        /\ \A i \in 1 .. Len(chat) : c[i] = IF i = k THEN text ELSE chat[i]
    BY <2>2, <2>4, <2>6, MessageChanges
  <2>8. \A i \in DOMAIN c : c[i] \in FitMessages
    <3>1. /\ DOMAIN c = 1 .. Len(chat)
          /\ \A i \in 1 .. Len(chat) : chat[i] \in FitMessages
      BY <1>3, <2>7, MembersOf
    <3> QED BY <2>2, <2>7, <3>1
  <2>9. c \in Seq(FitMessages)
    BY <2>7, <2>8, FitOneByOne
  <2> QED BY <1>2, <1>3, <2>3, <2>5, <2>6, <2>9
<1> QED BY <1>5, <1>6, <1>7, <1>8

\* The calls and the messages of every state fit.
LEMMA AlwaysFits == Spec => []FitInv
<1>1. Init => FitInv
  <2> SUFFICES ASSUME Init PROVE FitInv
    OBVIOUS
  <2>1. outbox = <<>> /\ chat = <<>>
    BY DEF Init
  <2>2. <<>> \in Seq(FitCalls) /\ <<>> \in Seq(FitMessages)
    OBVIOUS
  <2> QED BY <2>1, <2>2 DEF FitInv
<1>2. TypeOK /\ FitInv /\ [Next]_vars => FitInv'
  <2> SUFFICES ASSUME TypeOK, FitInv, [Next]_vars PROVE FitInv'
    OBVIOUS
  <2>1. FitCalls' = FitCalls /\ FitMessages' = FitMessages
    <3>1. route' = route
      BY FixedStays DEF fixed
    <3>2. WeChat' = WeChat /\ Streaming' = Streaming
      BY <3>1, Zenon DEF WeChat, Streaming
    <3> QED BY <3>2 DEF FitCalls, FitMessages
  <2>2. outbox' \in Seq(FitCalls) /\ chat' \in Seq(FitMessages)
    <3>1. outbox \in Seq(FitCalls) /\ chat \in Seq(FitMessages)
      BY DEF FitInv
    <3>2. CASE UNCHANGED <<sinkVars, chatVars>>
      BY <3>1, <3>2 DEF sinkVars, chatVars
    <3>3. CASE TakeAnnounced \/ TakeDelta \/ TakeCompleted \/ TakeFailed \/ TakeError
      BY <3>1, <3>3, TakeFits
    <3>4. CASE StreamOver
      BY <3>1, <3>4, OverFits
    <3>5. CASE SendWeChat \/ SendTelegram \/ Place \/ Change
      BY <3>5, CallFits
    <3>6. UNCHANGED vars => UNCHANGED <<sinkVars, chatVars>>
      BY DEF vars, sinkVars, chatVars
    <3>7. Backend => UNCHANGED <<sinkVars, chatVars>>
      BY BackendFrame
    <3>8. FinishWeChat \/ FinishTelegram \/ AgentPanics => UNCHANGED <<sinkVars, chatVars>>
      BY DEF FinishWeChat, FinishTelegram, Finish, AgentPanics
    <3> QED BY <3>2, <3>3, <3>4, <3>5, <3>6, <3>7, <3>8, NextActs
  <2> QED BY <2>1, <2>2 DEF FitInv
<1> QED BY <1>1, <1>2, TypeCorrect, PTL DEF Spec

\* No message is longer than its platform takes, and none that WeChat sends with
\* streaming is empty, whatever the texts, the limits and the calls that fail.
THEOREM MessagesFit == Spec => []FitsTheChat
<1>1. FitInv => FitsTheChat
  <2> SUFFICES ASSUME FitInv, NEW i \in DOMAIN chat
               PROVE  IF WeChat
                      THEN Len(chat[i]) <= MaxChars /\ (Streaming => chat[i] # <<>>)
                      ELSE Bytes(chat[i]) <= MaxMessage
    BY DEF FitsTheChat
  <2>1. chat[i] \in FitMessages
    BY LenProperties DEF FitInv
  <2> QED BY <2>1 DEF FitMessages
<1> QED BY <1>1, AlwaysFits, PTL

-----------------------------------------------------------------------------
(* Every text is said once.                                                    *)

\* A text more is there.
LEMMA RangeMore ==
  ASSUME NEW ss \in Seq(Text), NEW x \in Text
  PROVE  /\ Append(ss, x) \in Seq(Text)
         /\ Range(Append(ss, x)) = Range(ss) \cup {x}
<1>1. PICK r : r = Append(ss, x)
  OBVIOUS
<1>2. /\ r \in Seq(Text) /\ Len(r) = Len(ss) + 1 /\ r[Len(ss) + 1] = x
      /\ \A i \in 1 .. Len(ss) : r[i] = ss[i]
  BY <1>1, AppendProperties
<1>3. /\ Len(ss) \in Nat /\ DOMAIN ss = 1 .. Len(ss) /\ DOMAIN r = 1 .. Len(ss) + 1
  BY <1>2, LenProperties
<1>4. \A i \in DOMAIN r : i \in DOMAIN ss \/ i = Len(ss) + 1
  BY <1>3
<1>5. Len(ss) + 1 \in DOMAIN r /\ DOMAIN ss \subseteq DOMAIN r
  BY <1>3
<1>6. Range(r) \subseteq Range(ss) \cup {x}
  BY <1>2, <1>3, <1>4 DEF Range
<1>7. Range(ss) \cup {x} \subseteq Range(r)
  BY <1>2, <1>3, <1>5 DEF Range
<1> QED BY <1>1, <1>2, <1>6, <1>7

\* A text that came before adds nothing, another is added.
LEMMA DistinctMore ==
  ASSUME NEW ss \in Seq(Text), NEW x \in Text
  PROVE  /\ Distinct(ss) \in Text
         /\ Distinct(Append(ss, x)) =
              Distinct(ss) \o (IF \E j \in 1 .. Len(ss) : Trim(ss[j]) = Trim(x)
                               THEN <<>> ELSE x)
<1> DEFINE f(s) == [i \in DOMAIN s |->
                      IF \E j \in 1 .. (i - 1) : Trim(s[j]) = Trim(s[i]) THEN <<>> ELSE s[i]]
<1>1. \A s : Distinct(s) = FlattenSeq(f(s))
  BY DEF Distinct
<1>2. ASSUME NEW s \in Seq(Text)
      PROVE  f(s) \in Seq(Text) /\ Len(f(s)) = Len(s) /\ DOMAIN f(s) = 1 .. Len(s)
  <2>1. Len(s) \in Nat /\ DOMAIN s = 1 .. Len(s) /\ \A i \in 1 .. Len(s) : s[i] \in Text
    BY LenProperties
  <2>2. <<>> \in Text
    BY TextsAreTexts
  <2>3. f(s) \in [1 .. Len(s) -> Text]
    BY <2>1, <2>2
  <2> QED BY <2>1, <2>3
<1>3. PICK n : n = Len(ss)
  OBVIOUS
<1>4. PICK r : r = Append(ss, x)
  OBVIOUS
<1>5. /\ r \in Seq(Text) /\ n \in Nat /\ Len(r) = n + 1 /\ r[n + 1] = x
      /\ \A i \in 1 .. n : r[i] = ss[i]
      /\ DOMAIN ss = 1 .. n /\ DOMAIN r = 1 .. n + 1
  BY <1>3, <1>4, AppendProperties, LenProperties
<1>6. PICK y : y = IF \E j \in 1 .. n : Trim(ss[j]) = Trim(x) THEN <<>> ELSE x
  OBVIOUS
<1>7. y \in Text
  BY <1>6, TextsAreTexts
<1>8. PICK a : a = f(ss)
  OBVIOUS
<1>9. PICK b : b = f(r)
  OBVIOUS
<1>10. /\ a \in Seq(Text) /\ Len(a) = n /\ b \in Seq(Text) /\ Len(b) = n + 1
  <2> HIDE DEF f
  <2> QED BY <1>2, <1>3, <1>5, <1>8, <1>9
<1>11. ASSUME NEW i \in 1 .. n PROVE b[i] = a[i]
  <2>1. i \in DOMAIN ss /\ i \in DOMAIN r
    BY <1>5
  <2>2. /\ a[i] = IF \E j \in 1 .. (i - 1) : Trim(ss[j]) = Trim(ss[i]) THEN <<>> ELSE ss[i]
        /\ b[i] = IF \E j \in 1 .. (i - 1) : Trim(r[j]) = Trim(r[i]) THEN <<>> ELSE r[i]
    BY <1>8, <1>9, <2>1
  <2>3. r[i] = ss[i] /\ \A j \in 1 .. (i - 1) : r[j] = ss[j]
    BY <1>5
  <2> QED BY <2>2, <2>3
<1>12. b[n + 1] = y
  <2>1. n + 1 \in DOMAIN r /\ (n + 1) - 1 = n
    BY <1>5
  <2>2. b[n + 1] = IF \E j \in 1 .. ((n + 1) - 1) : Trim(r[j]) = Trim(r[n + 1])
                   THEN <<>> ELSE r[n + 1]
    BY <1>9, <2>1
  <2> QED BY <1>5, <1>6, <2>1, <2>2
<1> HIDE DEF f
<1>13. b = Append(a, y)
  <2>1. PICK c : c = Append(a, y)
    OBVIOUS
  <2>2. c \in Seq(Text) /\ Len(c) = n + 1 /\ c[n + 1] = y /\ \A i \in 1 .. n : c[i] = a[i]
    BY <1>7, <1>10, <2>1, AppendProperties
  <2>3. \A i \in 1 .. n + 1 : c[i] = b[i]
    BY <1>5, <1>11, <1>12, <2>2
  <2> QED BY <1>10, <2>1, <2>2, <2>3, SeqEqual
<1>14. a \in Seq(Seq(Char)) /\ y \in Seq(Char)
  BY <1>7, <1>10 DEF Text
<1>15. FlattenSeq(a) \in Text /\ FlattenSeq(b) = FlattenSeq(a) \o y
  BY <1>13, <1>14, FlattenAppend DEF Text
<1> QED BY <1>1, <1>3, <1>4, <1>6, <1>8, <1>9, <1>15

\* Nothing of the texts can be read exactly when they are all blank.
LEMMA DistinctBlank ==
  \A ss \in Seq(Text) :
    Ink(Distinct(ss)) = <<>> <=> \A t \in Range(ss) : Trim(t) = <<>>
<1> DEFINE Q == {ss \in Seq(Text) :
                   Ink(Distinct(ss)) = <<>> <=> \A t \in Range(ss) : Trim(t) = <<>>}
<1>1. <<>> \in Q
  <2>1. Range(<<>>) = {} /\ <<>> \in Seq(Text)
    BY DEF Range
  <2>2. Distinct(<<>>) = FlattenSeq(<<>>)
    BY DEF Distinct
  <2>3. Ink(Distinct(<<>>)) = <<>>
    BY <2>2, FlattenNothing, InkNothing
  <2> QED BY <2>1, <2>3
<1>2. ASSUME NEW ss \in Q, NEW x \in Text PROVE Append(ss, x) \in Q
  <2>0. /\ ss \in Seq(Text)
        /\ Ink(Distinct(ss)) = <<>> <=> \A t \in Range(ss) : Trim(t) = <<>>
    OBVIOUS
  <2>1. /\ Append(ss, x) \in Seq(Text)
        /\ Range(Append(ss, x)) = Range(ss) \cup {x}
    BY <2>0, RangeMore
  <2>2. PICK y : y = IF \E j \in 1 .. Len(ss) : Trim(ss[j]) = Trim(x) THEN <<>> ELSE x
    OBVIOUS
  <2>3. Distinct(ss) \in Text /\ Distinct(Append(ss, x)) = Distinct(ss) \o y /\ y \in Text
    BY <2>0, <2>2, DistinctMore, TextsAreTexts
  <2>4. /\ Ink(Distinct(ss)) \in Seq(Char) /\ Ink(y) \in Seq(Char)
        /\ Ink(Distinct(Append(ss, x))) = Ink(Distinct(ss)) \o Ink(y)
    BY <2>3, InkConcat DEF Text
  <2>5. Ink(Distinct(Append(ss, x))) = <<>> <=> Ink(Distinct(ss)) = <<>> /\ Ink(y) = <<>>
    BY <2>4, ConcatEqualIffEmpty
  <2>6. Trim(x) = <<>> <=> Ink(x) = <<>>
    BY InkOfTrim
  <2>7. (\A t \in Range(ss) : Trim(t) = <<>>) => (Ink(y) = <<>> <=> Trim(x) = <<>>)
    <3>1. CASE \E j \in 1 .. Len(ss) : Trim(ss[j]) = Trim(x)
      <4>1. y = <<>> /\ Ink(y) = <<>>
        BY <2>2, <3>1, InkNothing
      <4>2. PICK j \in 1 .. Len(ss) : Trim(ss[j]) = Trim(x)
        BY <3>1
      <4>3. ss[j] \in Range(ss)
        BY <2>0, LenProperties DEF Range
      <4> QED BY <4>1, <4>2, <4>3
    <3>2. CASE ~ \E j \in 1 .. Len(ss) : Trim(ss[j]) = Trim(x)
      BY <2>2, <2>6, <3>2
    <3> QED BY <3>1, <3>2
  <2> QED BY <2>0, <2>1, <2>5, <2>7
<1>3. Q \in SUBSET Seq(Text)
  OBVIOUS
<1> HIDE DEF Q
<1>4. Q = Seq(Text)
  BY <1>1, <1>2, <1>3, SequenceInduction
<1> QED BY <1>4 DEF Q

\* What still has to be sent, and what the chat then has to say.
Unsent == TextsOf(outbox)
Lead == IF chat = <<>> THEN <<>> ELSE Prefix
Owed == IF stage = "reading" THEN Distinct(spoken) ELSE Said

\* The sink has seen what the agent said, and works only on what it has seen.
SeenOnce ==
  stage = "reading" =>
    /\ ~ Streaming => spoken = <<>>
    /\ sink.seen = {Trim(t) : t \in Range(spoken)} \ {<<>>}
    /\ (sink.sent \/ sink.buffer # <<>> \/ outbox # <<>>) => sink.seen # {}

\* Nothing waits in the buffer when the reply is over.
Flushed ==
  /\ stage \in {"closing", "ok"} => sink.buffer = <<>>
  /\ stage = "ok" => outbox = <<>> /\ sink.failed = 0

\* What the chat says, the calls to come and the buffer are together the prefix
\* and what was said.
OnItsWay ==
  (stage \in {"reading", "closing", "ok"} /\ sink.failed = 0) =>
    /\ sink.sent <=> chat # <<>>
    /\ Read \o (Ink(Unsent) \o Ink(sink.buffer)) = Ink(Lead) \o Ink(Owed)

SayInv == WeChat => SeenOnce /\ Flushed /\ OnItsWay

\* The parts of what is said are texts.
LEMMA SayTypes ==
  ASSUME TypeOK
  PROVE  /\ Read \in Seq(Char) /\ Ink(Unsent) \in Seq(Char) /\ Unsent \in Text
         /\ Ink(sink.buffer) \in Seq(Char) /\ Lead \in Text /\ Ink(Lead) \in Seq(Char)
         /\ Distinct(spoken) \in Text /\ Ink(Distinct(spoken)) \in Seq(Char)
         /\ Said \in Text /\ Ink(Said) \in Seq(Char) /\ FlattenSeq(chat) \in Text
         /\ chat = <<>> => Read = <<>>
<1>1. chat \in Seq(Text) /\ outbox \in Seq(Calls) /\ sink.buffer \in Text
      /\ spoken \in Seq(Text)
  BY SinkFields DEF TypeOK, ChatOK, SinkOK, PipeOK
<1>2. FlattenSeq(chat) \in Text
  BY <1>1, FlattenText
<1>3. Unsent \in Text
  <2>1. Call("send", <<>>, 0) \in Calls
    BY TextsAreTexts DEF Call, Calls
  <2> QED BY <1>1, <2>1, TextsOfCalls DEF Unsent
<1>4. Lead \in Text
  BY TextsAreTexts DEF Lead
<1>5. Distinct(spoken) \in Text
  BY <1>1, <1>4, DistinctMore
<1>6. Said \in Text
  BY <1>5, NoticesAreTexts DEF Said
<1>7. \A t \in Text : Ink(t) \in Seq(Char)
  BY InkConcat DEF Text
<1>8. chat = <<>> => Read = <<>>
  BY FlattenNothing, InkNothing DEF Read
<1> QED BY <1>1, <1>2, <1>3, <1>4, <1>5, <1>6, <1>7, <1>8 DEF Read

\* Texts in a row, whichever are taken together.
LEMMA Regroup ==
  ASSUME NEW a \in Seq(Char), NEW b \in Seq(Char), NEW c \in Seq(Char)
  PROVE  /\ (a \o b) \o c = a \o (b \o c)
         /\ a \o b \in Seq(Char) /\ b \o c \in Seq(Char)
         /\ <<>> \o a = a /\ a \o <<>> = a
<1>1. (a \o b) \o c = a \o (b \o c)
  BY ConcatAssociative
<1>2. a \o b \in Seq(Char) /\ b \o c \in Seq(Char)
  BY ConcatProperties
<1>3. <<>> \o a = a /\ a \o <<>> = a
  BY ConcatEmptySeq
<1> QED BY <1>1, <1>2, <1>3, Zenon

\* The same as a predicate, for the provers to instantiate.
InARow(a, b, c) == a \o b \in Seq(Char) /\ (a \o b) \o c = a \o (b \o c)

\* Three texts in a row, whichever are taken together.
LEMMA RegroupThree == \A a, b, c \in Seq(Char) : InARow(a, b, c)
BY Regroup DEF InARow

\* The same for four of them.
FourInARow(a, b, c, d) == (a \o b) \o (c \o d) = a \o ((b \o c) \o d)

\* Four texts in a row can be read from the middle.
LEMMA RegroupFour ==
  \A a, b, c, d \in Seq(Char) : FourInARow(a, b, c, d)
<1> SUFFICES ASSUME NEW a \in Seq(Char), NEW b \in Seq(Char), NEW c \in Seq(Char),
                    NEW d \in Seq(Char)
             PROVE  (a \o b) \o (c \o d) = a \o ((b \o c) \o d)
  BY DEF FourInARow
<1>1. PICK e : e = c \o d
  OBVIOUS
<1>2. e \in Seq(Char)
  BY <1>1, ConcatProperties
<1>3. InARow(b, c, d) /\ InARow(a, b, e)
  BY <1>2, RegroupThree
<1>4. (b \o c) \o d = b \o e /\ (a \o b) \o e = a \o (b \o e)
  BY <1>1, <1>3, Zenon DEF InARow
<1> QED BY <1>1, <1>4, Zenon

\* What depends on the route stays with it.
LEMMA SameRoute ==
  route' = route => (Streaming' <=> Streaming) /\ (WeChat' <=> WeChat)
BY DEF Streaming, WeChat

\* A step that leaves what was said alone.
LEMMA SayStays ==
  ASSUME SayInv,
         UNCHANGED <<route, spoken, segments, last, parts, sink, outbox, chat, stage>>
  PROVE  SayInv'
<1>1. /\ WeChat' = WeChat /\ Streaming' = Streaming /\ Unsent' = Unsent /\ Lead' = Lead
      /\ Read' = Read /\ Whole' = Whole /\ Answer' = Answer
  BY DEF WeChat, Streaming, Unsent, TextsOf, Lead, Read, Whole, Answer, Silent
<1>2. Said' = Said
  BY <1>1 DEF Said
<1>3. Owed' = Owed
  BY <1>2 DEF Owed
<1>4. SeenOnce' = SeenOnce /\ Flushed' = Flushed
  BY <1>1 DEF SeenOnce, Flushed
<1>5. OnItsWay' = OnItsWay
  BY <1>1, <1>3 DEF OnItsWay
<1> QED BY <1>1, <1>4, <1>5 DEF SayInv

\* While the events are read, what was completed counts and not what is kept for
\* the end.
LEMMA SayReads ==
  ASSUME SayInv, stage = "reading", UNCHANGED <<route, spoken, sink, outbox, chat, stage>>
  PROVE  SayInv'
<1>1. /\ WeChat' = WeChat /\ Streaming' = Streaming /\ Unsent' = Unsent /\ Lead' = Lead
      /\ Read' = Read
  BY DEF WeChat, Streaming, Unsent, TextsOf, Lead, Read
<1>2. Owed' = Owed
  BY DEF Owed
<1>3. SeenOnce' = SeenOnce /\ Flushed' = Flushed
  BY <1>1 DEF SeenOnce, Flushed
<1>4. OnItsWay' = OnItsWay
  BY <1>1, <1>2 DEF OnItsWay
<1> QED BY <1>1, <1>3, <1>4 DEF SayInv

\* A reply that failed owes nothing.
LEMMA SayFails ==
  ASSUME stage' \in {"error", "panicked"}
  PROVE  SayInv'
BY DEF SayInv, SeenOnce, Flushed, OnItsWay

\* A completed text goes on its way.
LEMMA SayCompletes ==
  ASSUME TypeOK, TypeOK', SayInv, WeChat, TakeCompleted, Streaming
  PROVE  SayInv'
<1>1. /\ stage = "reading" /\ stage' = "reading" /\ outbox = <<>> /\ route' = route
      /\ chat' = chat
  BY DEF TakeCompleted, Taken, fixed, chatVars
<1>2. PICK said : said = IF coming[1].id \in DOMAIN buffers
                         THEN buffers[coming[1].id] ELSE <<>>
  OBVIOUS
<1>3. PICK final : final = IF said # <<>> THEN said ELSE coming[1].text
  OBVIOUS
<1>4. /\ spoken' = IF final = <<>> THEN spoken ELSE Append(spoken, final)
      /\ Do(IF final = <<>> THEN Nothing ELSE OnStreamEnd(final))
  BY <1>2, <1>3 DEF TakeCompleted
<1>5. final \in Text
  <2>1. buffers \in Partial(AnyId, Text)
    BY DEF TypeOK, PipeOK
  <2>2. said \in Text
    BY <1>2, <2>1, PartialShape, TextsAreTexts
  <2> QED BY <1>3, <2>2, TakenTypes DEF TakeCompleted
<1>6. CASE final = <<>>
  <2>1. sink' = sink /\ outbox' = outbox /\ spoken' = spoken
    BY <1>1, <1>4, <1>6 DEF Do, Nothing
  <2> QED BY <1>1, <2>1, SayReads
<1>7. CASE final # <<>>
  <2>1. spoken \in Seq(Text) /\ sink \in Sinks
    BY DEF TypeOK, PipeOK, SinkOK
  <2>2. PICK made : made = AppendSegment(sink, final)
    OBVIOUS
  <2>3. /\ spoken' = Append(spoken, final) /\ sink' = made.sink /\ outbox' = made.calls
    BY <1>4, <1>7, <2>2 DEF Do, OnStreamEnd
  <2>4. Joins(sink, final, made)
    BY <1>5, <2>1, <2>2, SegmentJoins
  <2>5. PICK t : t = Trim(final)
    OBVIOUS
  <2>6. sink'.seen = sink.seen \cup ({t} \ {<<>>})
    BY <2>3, <2>4, <2>5 DEF Joins
  <2>7. sink.seen = {Trim(x) : x \in Range(spoken)} \ {<<>>}
    BY <1>1 DEF SayInv, SeenOnce
  <2>8. Range(spoken') = Range(spoken) \cup {final}
    BY <1>5, <2>1, <2>3, RangeMore
  <2>9. sink'.seen = {Trim(x) : x \in Range(spoken')} \ {<<>>}
    BY <2>5, <2>6, <2>7, <2>8
  <2>10. (sink'.sent \/ sink'.buffer # <<>> \/ outbox' # <<>>) => sink'.seen # {}
    <3>1. CASE t = <<>> \/ t \in sink.seen
      <4>1. made = [sink |-> sink, calls |-> <<>>]
        BY <2>2, <2>5, <3>1 DEF AppendSegment
      <4>2. sink' = sink /\ outbox' = <<>>
        BY <2>3, <4>1
      <4> QED BY <1>1, <4>2 DEF SayInv, SeenOnce
    <3>2. CASE ~ (t = <<>> \/ t \in sink.seen)
      BY <2>6, <3>2
    <3> QED BY <3>1, <3>2
  <2>11. ASSUME sink'.failed = 0
         PROVE  /\ sink'.sent <=> chat' # <<>>
                /\ Read' \o (Ink(Unsent') \o Ink(sink'.buffer)) = Ink(Lead') \o Ink(Distinct(spoken'))
    <3>1. sink'.sent = sink.sent /\ sink'.failed = sink.failed
      BY <2>3, <2>4 DEF Joins
    <3>2. /\ sink.sent <=> chat # <<>>
          /\ Read \o (Ink(Unsent) \o Ink(sink.buffer)) = Ink(Lead) \o Ink(Distinct(spoken))
      BY <1>1, <2>11, <3>1 DEF SayInv, OnItsWay, Owed
    <3>3. PICK x : x = IF t \in sink.seen THEN <<>> ELSE Ink(final)
      OBVIOUS
    <3>4. Ink(Unsent') \o Ink(sink'.buffer) = Ink(sink.buffer) \o x
      <4>1. Ink(TextsOf(made.calls)) \o Ink(made.sink.buffer) = Ink(sink.buffer) \o x
        BY <2>4, <2>5, <3>3 DEF Joins
      <4>2. Unsent' = TextsOf(made.calls)
        BY <2>3 DEF Unsent, TextsOf
      <4> QED BY <2>3, <4>1, <4>2
    <3>5. x \in Seq(Char)
      BY <1>5, <3>3, InkConcat DEF Text
    <3>6. Ink(Distinct(spoken')) = Ink(Distinct(spoken)) \o x
      <4>1. PICK y : y = IF \E j \in 1 .. Len(spoken) : Trim(spoken[j]) = Trim(final)
                         THEN <<>> ELSE final
        OBVIOUS
      <4>2. /\ Distinct(spoken) \in Text /\ y \in Text
            /\ Distinct(Append(spoken, final)) = Distinct(spoken) \o y
        BY <1>5, <2>1, <4>1, DistinctMore, TextsAreTexts
      <4>3. Ink(Distinct(Append(spoken, final))) = Ink(Distinct(spoken)) \o Ink(y)
        BY <4>2, InkConcat
      <4>4. Ink(y) = x
        <5>1. Ink(<<>>) = <<>> /\ (t = <<>> <=> Ink(final) = <<>>)
          BY <1>5, <2>5, InkNothing, InkOfTrim
        <5>2. DOMAIN spoken = 1 .. Len(spoken)
          BY <2>1, LenProperties
        <5>3. (\E j \in 1 .. Len(spoken) : Trim(spoken[j]) = t)
                <=> t \in {Trim(z) : z \in Range(spoken)}
          BY <5>2 DEF Range
        <5>4. CASE t = <<>>
          BY <3>3, <4>1, <5>1, <5>4
        <5>5. CASE t # <<>>
          <6>1. t \in sink.seen <=> \E j \in 1 .. Len(spoken) : Trim(spoken[j]) = t
            BY <2>7, <5>3, <5>5
          <6> QED BY <2>5, <3>3, <4>1, <5>1, <6>1
        <5> QED BY <5>4, <5>5
      <4>5. spoken' = Append(spoken, final)
        BY <2>3
      <4> QED BY <4>3, <4>4, <4>5
    <3>7. Read' = Read /\ Lead' = Lead
      BY <1>1 DEF Read, Lead
    <3>8. PICK r : r = Read
      OBVIOUS
    <3>9. PICK b : b = Ink(sink.buffer)
      OBVIOUS
    <3>10. PICK l : l = Ink(Lead)
      OBVIOUS
    <3>11. PICK d : d = Ink(Distinct(spoken))
      OBVIOUS
    <3>12. r \in Seq(Char) /\ b \in Seq(Char) /\ l \in Seq(Char) /\ d \in Seq(Char)
      BY <3>8, <3>9, <3>10, <3>11, SayTypes
    <3>13. r \o b = l \o d
      <4>1. Ink(Unsent) = <<>>
        BY <1>1, FlattenNothing, InkNothing DEF Unsent, TextsOf
      <4>2. <<>> \o b = b
        BY <3>12, ConcatEmptySeq
      <4> QED BY <3>2, <3>8, <3>9, <3>10, <3>11, <4>1, <4>2
    <3>14. r \o (b \o x) = l \o (d \o x)
      <4>1. InARow(r, b, x) /\ InARow(l, d, x)
        BY <3>5, <3>12, RegroupThree
      <4>2. (r \o b) \o x = r \o (b \o x) /\ (l \o d) \o x = l \o (d \o x)
        BY <4>1, Zenon DEF InARow
      <4> QED BY <3>13, <4>2
    <3>15. sink'.sent <=> chat' # <<>>
      BY <1>1, <3>1, <3>2
    <3> QED BY <3>4, <3>6, <3>7, <3>8, <3>9, <3>10, <3>11, <3>14, <3>15
  <2>12. SeenOnce' /\ Flushed'
    <3>1. Streaming' /\ stage' = "reading"
      <4>1. route' = route /\ stage' = "reading"
        BY <1>1
      <4>2. Streaming' <=> Streaming
        BY <4>1, SameRoute
      <4> QED BY <4>1, <4>2
    <3>2. SeenOnce'
      BY <2>9, <2>10, <3>1 DEF SeenOnce
    <3>3. Flushed'
      BY <3>1 DEF Flushed
    <3> QED BY <3>2, <3>3
  <2>13. OnItsWay'
    BY <1>1, <2>11 DEF OnItsWay, Owed
  <2> QED BY <2>12, <2>13 DEF SayInv
<1> QED BY <1>6, <1>7

\* The end of the events: what waits is sent, the notice when nothing was said.
LEMMA SayCloses ==
  ASSUME TypeOK, TypeOK', SayInv, WeChat, StreamOver
  PROVE  SayInv'
<1>1. /\ stage = "reading" /\ outbox = <<>> /\ route' = route /\ chat' = chat
      /\ spoken' = spoken /\ segments' = segments /\ last' = last /\ parts' = parts
  BY DEF StreamOver, fixed, chatVars, pipeVars
<1>2. CASE stage' = "error"
  BY <1>2, SayFails
<1>3. Said' = Said /\ Read' = Read /\ Lead' = Lead
  <2>1. (Streaming' <=> Streaming) /\ Whole' = Whole /\ Answer' = Answer
    BY <1>1, SameRoute DEF Whole, Answer, Silent
  <2>2. Said' = Said
    BY <1>1, <2>1 DEF Said
  <2> QED BY <1>1, <2>2 DEF Read, Lead
<1>4. /\ ~ Streaming => spoken = <<>>
      /\ sink.seen = {Trim(t) : t \in Range(spoken)} \ {<<>>}
      /\ (sink.sent \/ sink.buffer # <<>> \/ outbox # <<>>) => sink.seen # {}
  BY <1>1 DEF SayInv, SeenOnce
<1>5. sink.failed = 0 =>
        /\ sink.sent <=> chat # <<>>
        /\ Read \o Ink(sink.buffer) = Ink(Lead) \o Ink(Distinct(spoken))
  <2>1. Ink(Unsent) = <<>>
    BY <1>1, FlattenNothing, InkNothing DEF Unsent, TextsOf
  <2>2. <<>> \o Ink(sink.buffer) = Ink(sink.buffer)
    BY SayTypes, Regroup
  <2> QED BY <1>1, <2>1, <2>2 DEF SayInv, OnItsWay, Owed
<1>6. SUFFICES ASSUME stage' = "closing"
               PROVE  /\ sink'.buffer = <<>> /\ sink'.sent = sink.sent
                      /\ sink'.failed = sink.failed
                      /\ sink.failed = 0 => Read \o Ink(Unsent') = Ink(Lead) \o Ink(Said)
  <2>1. stage' = "error" \/ stage' = "closing"
    BY DEF StreamOver
  <2> SUFFICES ASSUME stage' = "closing" PROVE SayInv'
    BY <1>2, <2>1
  <2>2. /\ sink'.buffer = <<>> /\ sink'.sent = sink.sent /\ sink'.failed = sink.failed
        /\ sink.failed = 0 => Read \o Ink(Unsent') = Ink(Lead) \o Ink(Said)
    BY <1>6
  <2>3. SeenOnce' /\ Flushed'
    BY <2>2 DEF SeenOnce, Flushed
  <2>4. ASSUME sink'.failed = 0
        PROVE  /\ sink'.sent <=> chat' # <<>>
               /\ Read' \o (Ink(Unsent') \o Ink(sink'.buffer)) = Ink(Lead') \o Ink(Owed')
    <3>1. Owed' = Said
      BY <1>3 DEF Owed
    <3>2. Ink(Unsent') \o Ink(sink'.buffer) = Ink(Unsent')
      <4>1. (Ink(Unsent) \in Seq(Char))'
        BY SayTypes, PTL
      <4>2. Ink(Unsent') \o <<>> = Ink(Unsent')
        BY <4>1, Regroup
      <4> QED BY <2>2, <4>2, InkNothing
    <3> QED BY <1>1, <1>3, <1>5, <2>2, <2>4, <3>1, <3>2
  <2>5. OnItsWay'
    BY <2>4 DEF OnItsWay
  <2> QED BY <2>3, <2>5 DEF SayInv
<1>7. sink \in Sinks /\ spoken \in Seq(Text)
  BY DEF TypeOK, SinkOK, PipeOK
<1>8. CASE Streaming
  <2>1. PICK made : made = OnCompleted(Whole)
    OBVIOUS
  <2>2. sink' = made.sink /\ outbox' = made.calls
    BY <1>6, <1>8, <2>1 DEF StreamOver, Do
  <2>3. Flushes(Whole, made)
    BY <1>7, <2>1, NoticesAreTexts, CompletedSends
  <2>4. /\ sink'.buffer = <<>> /\ sink'.sent = sink.sent /\ sink'.failed = sink.failed
    BY <2>2, <2>3 DEF Flushes
  <2>5. Unsent' = TextsOf(made.calls)
    BY <2>2 DEF Unsent, TextsOf
  <2>6. Ink(Unsent') = IF sink.sent \/ sink.buffer # <<>> \/ Trim(Whole) \in sink.seen
                       THEN Ink(sink.buffer) ELSE Ink(Whole)
    BY <2>3, <2>5 DEF Flushes
  <2>7. ASSUME sink.failed = 0 PROVE Read \o Ink(Unsent') = Ink(Lead) \o Ink(Said)
    <3>1. CASE \A t \in Range(spoken) : Trim(t) = <<>>
      <4>1. sink.seen = {}
        BY <1>4, <3>1
      <4>2. ~ sink.sent /\ sink.buffer = <<>> /\ chat = <<>>
        BY <1>4, <1>5, <2>7, <4>1
      <4>3. Said = Whole
        BY <1>8, <3>1 DEF Said
      <4>4. Ink(Unsent') = Ink(Said)
        BY <2>6, <4>1, <4>2, <4>3
      <4>5. Read = <<>> /\ Ink(Lead) = <<>>
        BY <4>2, SayTypes, InkNothing DEF Lead
      <4> QED BY <4>4, <4>5
    <3>2. CASE ~ \A t \in Range(spoken) : Trim(t) = <<>>
      <4>1. Said = Distinct(spoken)
        BY <1>8, <3>2 DEF Said
      <4>2. Ink(Distinct(spoken)) # <<>>
        BY <1>7, <3>2, DistinctBlank
      <4>3. sink.sent \/ sink.buffer # <<>>
        <5> SUFFICES ASSUME ~ sink.sent, sink.buffer = <<>> PROVE FALSE
          OBVIOUS
        <5>1. chat = <<>>
          BY <1>5, <2>7
        <5>2. Read = <<>> /\ Ink(Lead) = <<>> /\ Ink(sink.buffer) = <<>>
          BY <5>1, SayTypes, InkNothing DEF Lead
        <5>3. <<>> \o <<>> = <<>> /\ <<>> \o Ink(Distinct(spoken)) = Ink(Distinct(spoken))
          BY SayTypes, Regroup
        <5> QED BY <1>5, <2>7, <4>2, <5>2, <5>3
      <4>4. Ink(Unsent') = Ink(sink.buffer)
        BY <2>6, <4>3
      <4> QED BY <1>5, <2>7, <4>1, <4>4
    <3> QED BY <3>1, <3>2
  <2> QED BY <2>4, <2>7
<1>9. CASE ~ Streaming
  <2>1. Do(SendReply)
    BY <1>6, <1>9 DEF StreamOver
  <2>2. sink' = sink /\ outbox' = <<Call("send", PlainReply, 0)>>
    BY <2>1 DEF Do, SendReply
  <2>3. PlainReply = Said
    BY <1>9 DEF PlainReply, Said
  <2>4. sink.seen = {} /\ ~ sink.sent /\ sink.buffer = <<>>
    <3>1. Range(<<>>) = {}
      BY DEF Range
    <3>2. spoken = <<>>
      BY <1>4, <1>9
    <3>3. sink.seen = {}
      BY <1>4, <3>1, <3>2
    <3> QED BY <1>4, <3>3
  <2>5. Unsent' = Said
    <3>1. Call("send", PlainReply, 0) \in Calls /\ Call("send", PlainReply, 0).text = PlainReply
      BY NoticesAreTexts DEF Call, Calls
    <3>2. <<>> \in Seq(Calls)
      OBVIOUS
    <3>3. TextsOf(<<Call("send", PlainReply, 0)>>) = PlainReply
      BY <3>1, <3>2, TextsOfCalls
    <3>4. Unsent' = TextsOf(<<Call("send", PlainReply, 0)>>)
      BY <2>2 DEF Unsent, TextsOf
    <3> QED BY <2>3, <3>3, <3>4
  <2>6. sink.failed = 0 => Read = <<>> /\ Ink(Lead) = <<>>
    BY <1>5, <2>4, SayTypes, InkNothing DEF Lead
  <2> QED BY <2>2, <2>4, <2>5, <2>6
<1> QED BY <1>8, <1>9

\* The end of a reply.
LEMMA SayEnds ==
  ASSUME TypeOK, SayInv, WeChat, FinishWeChat \/ FinishTelegram
  PROVE  SayInv'
<1>1. /\ stage = "closing" /\ outbox = <<>>
      /\ stage' = IF sink.failed > 0 THEN "error" ELSE "ok"
      /\ UNCHANGED <<route, spoken, segments, last, parts, sink, outbox, chat>>
  BY DEF FinishWeChat, FinishTelegram, Finish, fixed, pipeVars, sinkVars, chatVars
<1>2. CASE sink.failed > 0
  BY <1>1, <1>2, SayFails
<1>3. CASE ~ (sink.failed > 0)
  <2>1. sink.failed = 0 /\ stage' = "ok"
    <3>1. sink.failed \in Nat
      BY SinkFields DEF TypeOK, SinkOK
    <3> QED BY <1>1, <1>3, <3>1
  <2>2. (Streaming' <=> Streaming) /\ (WeChat' <=> WeChat) /\ Unsent' = Unsent /\ Lead' = Lead
        /\ Read' = Read /\ Whole' = Whole /\ Answer' = Answer
    BY <1>1, SameRoute DEF Unsent, TextsOf, Lead, Read, Whole, Answer, Silent
  <2>3. Said' = Said
    BY <1>1, <2>2 DEF Said
  <2>4. Owed' = Owed
    BY <1>1, <2>1, <2>3 DEF Owed
  <2>5. SeenOnce' /\ Flushed'
    BY <1>1, <2>1 DEF SayInv, SeenOnce, Flushed
  <2>6. OnItsWay'
    BY <1>1, <2>1, <2>2, <2>4 DEF SayInv, OnItsWay
  <2> QED BY <2>5, <2>6 DEF SayInv
<1> QED BY <1>2, <1>3

\* The calls, the next one in front of the rest.
LEMMA HeadTailConcat ==
  ASSUME NEW calls \in Seq(Calls), calls # <<>>
  PROVE  calls = <<Head(calls)>> \o Tail(calls)
<1>1. /\ Head(calls) \in Calls /\ Head(calls) = calls[1]
      /\ Tail(calls) \in Seq(Calls) /\ Len(Tail(calls)) = Len(calls) - 1
      /\ \A i \in 1 .. Len(Tail(calls)) : Tail(calls)[i] = calls[i + 1]
  BY HeadTailProperties, SMT
<1>2. PICK h : h = Head(calls)
  OBVIOUS
<1>3. PICK r : r = Tail(calls)
  OBVIOUS
<1>4. h \in Calls /\ <<h>> \in Seq(Calls) /\ r \in Seq(Calls)
      /\ Len(<<h>>) = 1 /\ <<h>>[1] = h /\ Len(calls) \in Nat /\ Len(calls) > 0
      /\ Len(r) = Len(calls) - 1 /\ h = calls[1]
      /\ \A i \in 1 .. Len(r) : r[i] = calls[i + 1]
  BY <1>1, <1>2, <1>3, EmptySeq, LenProperties
<1>5. <<h>> \o r = calls
  <2>1. /\ <<h>> \o r \in Seq(Calls) /\ Len(<<h>> \o r) = Len(calls)
        /\ \A i \in 1 .. Len(calls) :
             (<<h>> \o r)[i] = IF i <= 1 THEN <<h>>[i] ELSE r[i - 1]
    BY <1>4, ConcatProperties
  <2>2. \A i \in 1 .. Len(calls) : (<<h>> \o r)[i] = calls[i]
    BY <1>4, <2>1
  <2> QED BY <2>1, <2>2, SeqEqual
<1> QED BY <1>2, <1>3, <1>5

\* A text that goes out, in one or more messages.
LEMMA SaySends ==
  ASSUME TypeOK, TypeOK', SayInv, SendWeChat
  PROVE  SayInv'
<1>1. /\ WeChat /\ Calling("send") /\ stage' = stage /\ stage \in {"reading", "closing"}
      /\ UNCHANGED <<route, spoken, segments, last, parts>>
  BY DEF SendWeChat, Calling, fixed, pipeVars
<1>2. PICK n \in 0 .. Len(WeChatPieces) :
        /\ Sent(WeChatPieces, n) /\ outbox' = Tail(outbox)
        /\ sink' = IF n < Len(WeChatPieces) THEN [sink EXCEPT !.failed = @ + 1]
                   ELSE [sink EXCEPT !.sent = @ \/ WeChatPieces # <<>>]
  BY Zenon DEF SendWeChat, WeChatPieces, WeChatBody, WeChatText
<1>3. sink \in Sinks /\ sink.failed \in Nat /\ chat \in Seq(Text)
  BY SinkFields DEF TypeOK, SinkOK, ChatOK
<1>4. /\ outbox # <<>> /\ outbox \in Seq(Calls) /\ outbox[1] \in Calls
      /\ outbox[1].text \in Text /\ Tail(outbox) \in Seq(Calls)
  BY <1>1, CallingTypes
<1>5. /\ WeChatText \in Text /\ Ink(WeChatText) = Ink(outbox[1].text)
      /\ WeChatBody \in Text /\ WeChatPieces \in Seq(Text)
      /\ WeChatPieces = <<>> => WeChatText = <<>>
      /\ WeChatPieces # <<>> => FlattenSeq(WeChatPieces) = WeChatBody
  BY <1>1, WeChatSends
<1>6. sink'.buffer = sink.buffer /\ sink'.seen = sink.seen
  <2>1. sink = [seen |-> sink.seen, buffer |-> sink.buffer, sent |-> sink.sent,
                failed |-> sink.failed, bubble |-> sink.bubble]
    BY <1>3, SinkFields
  <2>2. CASE sink' = [sink EXCEPT !.failed = @ + 1]
    BY <2>1, <2>2
  <2>3. CASE sink' = [sink EXCEPT !.sent = @ \/ WeChatPieces # <<>>]
    BY <2>1, <2>3
  <2> QED BY <1>2, <2>2, <2>3
<1>7. Said' = Said /\ Owed' = Owed
  <2>1. (Streaming' <=> Streaming) /\ Whole' = Whole /\ Answer' = Answer
    BY <1>1, SameRoute DEF Whole, Answer, Silent
  <2>2. Said' = Said
    BY <1>1, <2>1 DEF Said
  <2> QED BY <1>1, <2>2 DEF Owed
<1>8. SeenOnce' /\ Flushed'
  <2>1. SeenOnce /\ Flushed
    BY <1>1 DEF SayInv
  <2>2. SeenOnce'
    <3> SUFFICES ASSUME stage' = "reading" PROVE SeenOnce'
      BY DEF SeenOnce
    <3>1. /\ ~ Streaming => spoken = <<>>
          /\ sink.seen = {Trim(t) : t \in Range(spoken)} \ {<<>>}
          /\ sink.seen # {}
      BY <1>1, <1>4, <2>1 DEF SeenOnce
    <3>2. Streaming' <=> Streaming
      BY <1>1, SameRoute
    <3>3. spoken' = spoken /\ sink'.seen = sink.seen
      BY <1>1, <1>6
    <3> QED BY <3>1, <3>2, <3>3 DEF SeenOnce
  <2>3. Flushed'
    BY <1>1, <1>6, <2>1 DEF Flushed
  <2> QED BY <2>2, <2>3
<1>9. ASSUME sink'.failed = 0
      PROVE  /\ sink'.sent <=> chat' # <<>>
             /\ Read' \o (Ink(Unsent') \o Ink(sink'.buffer)) = Ink(Lead') \o Ink(Owed)
  <2>1. /\ n = Len(WeChatPieces) /\ sink.failed = 0
        /\ sink'.sent <=> (sink.sent \/ WeChatPieces # <<>>)
    <3>1. sink = [seen |-> sink.seen, buffer |-> sink.buffer, sent |-> sink.sent,
                  failed |-> sink.failed, bubble |-> sink.bubble]
      BY <1>3, SinkFields
    <3>2. ~ (n < Len(WeChatPieces))
      <4> SUFFICES ASSUME n < Len(WeChatPieces) PROVE FALSE
        OBVIOUS
      <4>1. sink' = [seen |-> sink.seen, buffer |-> sink.buffer, sent |-> sink.sent,
                     failed |-> sink.failed + 1, bubble |-> sink.bubble]
        BY <1>2, <3>1
      <4>2. sink'.failed = sink.failed + 1
        BY <4>1
      <4> QED BY <1>3, <1>9, <4>2
    <3>3. sink' = [seen |-> sink.seen, buffer |-> sink.buffer,
                   sent |-> (sink.sent \/ WeChatPieces # <<>>),
                   failed |-> sink.failed, bubble |-> sink.bubble]
      BY <1>2, <3>1, <3>2
    <3>4. Len(WeChatPieces) \in Nat
      BY <1>5, LenProperties
    <3>5. n = Len(WeChatPieces)
      BY <3>2, <3>4
    <3>6. sink'.failed = sink.failed /\ (sink'.sent <=> (sink.sent \/ WeChatPieces # <<>>))
      BY <3>3
    <3> QED BY <1>9, <3>5, <3>6
  <2>2. chat' = chat \o WeChatPieces
    <3>1. SubSeq(WeChatPieces, 1, Len(WeChatPieces)) = WeChatPieces
      BY <1>5, SubSeqFull
    <3> QED BY <1>2, <2>1, <3>1 DEF Sent
  <2>3. /\ sink.sent <=> chat # <<>>
        /\ Read \o (Ink(Unsent) \o Ink(sink.buffer)) = Ink(Lead) \o Ink(Owed)
    BY <1>1, <2>1 DEF SayInv, OnItsWay
  <2>4. PICK x : x = Ink(outbox[1].text)
    OBVIOUS
  <2>5. PICK u : u = Ink(TextsOf(Tail(outbox)))
    OBVIOUS
  <2>6. PICK b : b = Ink(sink.buffer)
    OBVIOUS
  <2>7. PICK r : r = Read
    OBVIOUS
  <2>8. /\ x \in Seq(Char) /\ u \in Seq(Char) /\ b \in Seq(Char) /\ r \in Seq(Char)
        /\ Ink(Unsent) = x \o u /\ Ink(Unsent') = u
    <3>1. <<outbox[1]>> \o Tail(outbox) = outbox /\ <<outbox[1]>> \in Seq(Calls)
      <4>1. PICK h : h = outbox[1]
        OBVIOUS
      <4>2. h \in Calls /\ <<h>> \in Seq(Calls) /\ Head(outbox) = h
        BY <1>4, <4>1
      <4>3. outbox = <<Head(outbox)>> \o Tail(outbox)
        BY <1>4, HeadTailConcat
      <4> QED BY <4>1, <4>2, <4>3
    <3>2. /\ TextsOf(<<outbox[1]>> \o Tail(outbox)) =
               TextsOf(<<outbox[1]>>) \o TextsOf(Tail(outbox))
          /\ TextsOf(<<outbox[1]>>) = outbox[1].text
          /\ TextsOf(Tail(outbox)) \in Text
      BY <1>4, <3>1, TextsOfCalls
    <3>3. Unsent = outbox[1].text \o TextsOf(Tail(outbox))
      BY <3>1, <3>2 DEF Unsent
    <3>4. /\ Ink(outbox[1].text) \in Text /\ Ink(TextsOf(Tail(outbox))) \in Text
          /\ Ink(Unsent) = Ink(outbox[1].text) \o Ink(TextsOf(Tail(outbox)))
      BY <1>4, <3>2, <3>3, InkConcat
    <3>5. Unsent' = TextsOf(Tail(outbox))
      BY <1>2 DEF Unsent, TextsOf
    <3> QED BY <2>4, <2>5, <2>6, <2>7, <3>4, <3>5, SayTypes DEF Text
  <2>9. PICK p : p = FlattenSeq(WeChatPieces)
    OBVIOUS
  <2>10. p \in Text /\ Read' = r \o Ink(p)
    <3>1. p \in Text
      BY <1>5, <2>9, FlattenText
    <3>2. FlattenSeq(chat \o WeChatPieces) = FlattenSeq(chat) \o FlattenSeq(WeChatPieces)
      BY <1>3, <1>5, FlattenConcat DEF Text
    <3>3. FlattenSeq(chat) \in Text
      BY SayTypes
    <3>4. Ink(FlattenSeq(chat) \o p) = Ink(FlattenSeq(chat)) \o Ink(p)
      BY <3>1, <3>3, InkConcat
    <3>5. Read' = Ink(FlattenSeq(chat \o WeChatPieces))
      BY <2>2 DEF Read
    <3> QED BY <2>7, <2>9, <3>1, <3>2, <3>4, <3>5 DEF Read
  <2>11. CASE WeChatPieces = <<>>
    <3>1. WeChatPieces = <<>> /\ x = <<>> /\ p = <<>>
      BY <1>5, <2>4, <2>9, <2>11, FlattenNothing, InkNothing
    <3>2. chat \o <<>> = chat
      BY <1>3, ConcatEmptySeq
    <3>3. chat' = chat /\ Lead' = Lead
      BY <2>2, <3>1, <3>2 DEF Lead
    <3>4. Read' = r
      BY <2>8, <2>10, <3>1, InkNothing, Regroup
    <3>5. x \o u = u
      BY <2>8, <3>1, Regroup
    <3>6. sink'.sent <=> chat' # <<>>
      BY <2>1, <2>3, <2>11, <3>3
    <3>7. Read' \o (Ink(Unsent') \o Ink(sink'.buffer)) = Ink(Lead') \o Ink(Owed)
      BY <1>6, <2>3, <2>7, <2>8, <3>3, <3>4, <3>5
    <3> QED BY <3>6, <3>7
  <2>12. CASE WeChatPieces # <<>>
    <3>1. p = WeChatBody /\ WeChatPieces # <<>>
      BY <1>5, <2>9, <2>12
    <3>2. chat' # <<>> /\ Lead' = Prefix
      <4>1. chat \o WeChatPieces # <<>>
        BY <1>3, <1>5, <3>1, ConcatEqualIffEmpty
      <4> QED BY <2>2, <4>1 DEF Lead
    <3>3. sink'.sent
      BY <2>1, <2>12
    <3>4. (r \o x) \o (u \o b) = r \o ((x \o u) \o b)
      <4>1. r \in Seq(Char) /\ x \in Seq(Char) /\ u \in Seq(Char) /\ b \in Seq(Char)
        BY <2>8
      <4>2. FourInARow(r, x, u, b)
        BY <4>1, RegroupFour
      <4> QED BY <4>2 DEF FourInARow
    <3>5. CASE sink.sent
      <4>1. Ink(p) = x
        BY <1>5, <2>4, <3>1, <3>5 DEF WeChatBody
      <4>2. Lead = Prefix
        BY <2>3, <3>5 DEF Lead
      <4>3. Read' \o (Ink(Unsent') \o Ink(sink'.buffer)) = (r \o x) \o (u \o b)
        BY <1>6, <2>6, <2>8, <2>10, <4>1
      <4>4. r \o ((x \o u) \o b) = Ink(Lead) \o Ink(Owed)
        BY <2>3, <2>6, <2>7, <2>8
      <4> QED BY <3>2, <3>3, <3>4, <4>2, <4>3, <4>4
    <3>6. CASE ~ sink.sent
      <4>1. chat = <<>> /\ r = <<>> /\ Ink(Lead) = <<>>
        BY <2>3, <2>7, <3>6, SayTypes, InkNothing DEF Lead
      <4>2. Ink(p) = Ink(Prefix) \o x /\ Ink(Prefix) \in Seq(Char)
        <5>1. WeChatBody = Prefix \o WeChatText
          BY <3>6 DEF WeChatBody
        <5>2. Prefix \in Text
          BY TextsAreTexts
        <5>3. PICK w : w = WeChatText
          OBVIOUS
        <5>4. w \in Text /\ Ink(w) = x
          BY <1>5, <2>4, <5>3
        <5>5. Ink(Prefix) \in Text /\ Ink(Prefix \o w) = Ink(Prefix) \o Ink(w)
          BY <5>2, <5>4, InkConcat
        <5>6. p = Prefix \o w
          BY <3>1, <5>1, <5>3
        <5> QED BY <5>4, <5>5, <5>6 DEF Text
      <4>3. PICK q : q = Ink(Prefix)
        OBVIOUS
      <4>4. PICK o : o = Ink(Owed)
        OBVIOUS
      <4>5. o \in Seq(Char)
        BY <4>4, SayTypes DEF Owed
      <4>6. (x \o u) \o b = o
        <5>1. (x \o u) \o b \in Seq(Char)
          BY <2>8, Regroup
        <5>2. <<>> \o ((x \o u) \o b) = (x \o u) \o b /\ <<>> \o o = o
          BY <4>5, <5>1, Regroup
        <5>3. r \o ((x \o u) \o b) = Ink(Lead) \o o
          BY <2>3, <2>6, <2>7, <2>8, <4>4
        <5> QED BY <4>1, <5>2, <5>3
      <4>7. Read' = q \o x
        <5>1. q \o x \in Seq(Char)
          BY <2>8, <4>2, <4>3, Regroup
        <5>2. <<>> \o (q \o x) = q \o x
          BY <5>1, Regroup
        <5> QED BY <2>10, <4>1, <4>2, <4>3, <5>2
      <4>8. (q \o x) \o (u \o b) = q \o ((x \o u) \o b)
        <5>1. q \in Seq(Char) /\ x \in Seq(Char) /\ u \in Seq(Char) /\ b \in Seq(Char)
          BY <2>8, <4>2, <4>3
        <5>2. FourInARow(q, x, u, b)
          BY <5>1, RegroupFour
        <5> QED BY <5>2 DEF FourInARow
      <4>9. Read' \o (Ink(Unsent') \o Ink(sink'.buffer)) = (q \o x) \o (u \o b)
        BY <1>6, <2>6, <2>8, <4>7
      <4> QED BY <3>2, <3>3, <4>3, <4>4, <4>6, <4>8, <4>9
    <3> QED BY <3>5, <3>6
  <2> QED BY <2>11, <2>12
<1>10. OnItsWay'
  BY <1>7, <1>9 DEF OnItsWay
<1> QED BY <1>8, <1>10 DEF SayInv

\* A reply that starts has said nothing and owes nothing.
LEMMA SayStarts ==
  ASSUME Init
  PROVE  SayInv
<1>1. /\ sink = EmptySink /\ outbox = <<>> /\ chat = <<>> /\ stage = "reading"
      /\ spoken = <<>>
  BY DEF Init
<1>2. /\ sink.seen = {} /\ sink.buffer = <<>> /\ ~ sink.sent /\ sink.failed = 0
  BY <1>1 DEF EmptySink
<1>3. Range(spoken) = {}
  BY <1>1 DEF Range
<1>4. SeenOnce
  <2>1. {Trim(t) : t \in Range(spoken)} = {}
    BY <1>3
  <2> QED BY <1>1, <1>2, <2>1 DEF SeenOnce
<1>5. Flushed
  BY <1>1 DEF Flushed
<1>6. OnItsWay
  <2>1. Distinct(<<>>) = <<>>
    <3>1. Distinct(<<>>) = FlattenSeq(<<>>)
      BY DEF Distinct
    <3> QED BY <3>1, FlattenNothing
  <2>2. Unsent = <<>> /\ Read = <<>> /\ Lead = <<>> /\ Owed = <<>>
    <3>1. Unsent = FlattenSeq(<<>>)
      BY <1>1 DEF Unsent, TextsOf
    <3>2. FlattenSeq(chat) = <<>>
      BY <1>1, FlattenNothing
    <3> QED BY <1>1, <2>1, <3>1, <3>2, FlattenNothing, InkNothing DEF Read, Lead, Owed
  <2>3. <<>> \o (<<>> \o <<>>) = <<>> /\ <<>> \o <<>> = <<>>
    <3>1. <<>> \in Seq(Char)
      OBVIOUS
    <3>2. <<>> \o <<>> = <<>>
      BY <3>1, Regroup
    <3> QED BY <3>2
  <2>4. Ink(Unsent) = <<>> /\ Ink(sink.buffer) = <<>> /\ Ink(Lead) = <<>> /\ Ink(Owed) = <<>>
    BY <1>2, <2>2, InkNothing
  <2> QED BY <1>1, <1>2, <2>2, <2>3, <2>4 DEF OnItsWay
<1> QED BY <1>4, <1>5, <1>6 DEF SayInv

\* Every step of a reply of WeChat keeps the account of what it says.
LEMMA SayNext ==
  ASSUME TypeOK, TypeOK', FitInv, SayInv, WeChat, Next
  PROVE  SayInv'
<1>1. CASE Backend
  <2>1. UNCHANGED <<fixed, pipeVars, sinkVars, chatVars, stage>>
    BY <1>1, BackendFrame
  <2>2. UNCHANGED <<route, spoken, segments, last, parts, sink, outbox, chat, stage>>
    BY <2>1 DEF fixed, pipeVars, sinkVars, chatVars
  <2> QED BY <2>2, SayStays
<1>2. CASE TakeAnnounced \/ TakeDelta
  <2>1. /\ stage = "reading" /\ outbox = <<>> /\ stage' = stage
        /\ UNCHANGED <<route, spoken, segments, last, parts, chat>>
    BY <1>2 DEF TakeAnnounced, TakeDelta, Taken, fixed, chatVars, OnStreamDelta
  <2>2. sink' = sink /\ outbox' = outbox
    <3>1. CASE TakeAnnounced
      BY <2>1, <3>1 DEF TakeAnnounced, Do, OnStreamStart, sinkVars
    <3>2. CASE TakeDelta
      BY <2>1, <3>2 DEF TakeDelta, OnStreamDelta, sinkVars
    <3> QED BY <1>2, <3>1, <3>2
  <2> QED BY <2>1, <2>2, SayStays
<1>3. CASE TakeCompleted
  <2>1. CASE Streaming
    BY <1>3, <2>1, SayCompletes
  <2>2. CASE ~ Streaming
    <3>1. stage = "reading" /\ UNCHANGED <<route, spoken, sink, outbox, chat, stage>>
      BY <1>3, <2>2 DEF TakeCompleted, Taken, fixed, chatVars, sinkVars
    <3> QED BY <3>1, SayReads
  <2> QED BY <2>1, <2>2
<1>4. CASE TakeFailed
  <2>1. stage = "reading" /\ UNCHANGED <<route, spoken, sink, outbox, chat, stage>>
    BY <1>4 DEF TakeFailed, Taken, fixed, chatVars, sinkVars
  <2> QED BY <2>1, SayReads
<1>5. CASE TakeError \/ AgentPanics
  <2>1. stage' \in {"error", "panicked"}
    BY <1>5 DEF TakeError, AgentPanics
  <2> QED BY <2>1, SayFails
<1>6. CASE StreamOver
  BY <1>6, SayCloses
<1>7. CASE FinishWeChat \/ FinishTelegram
  BY <1>7, SayEnds
<1>8. CASE SendWeChat
  BY <1>8, SaySends
<1>9. CASE SendTelegram
  BY <1>9 DEF SendTelegram
<1>10. CASE Place \/ Change
  <2>1. outbox # <<>> /\ outbox[1].op \in {"place", "edit", "final", "delete"}
    BY <1>10 DEF Place, Change, Calling
  <2>2. outbox \in Seq(FitCalls) /\ Len(outbox) \in Nat
    BY LenProperties DEF FitInv
  <2>3. 1 \in 1 .. Len(outbox)
    <3>1. Len(outbox) # 0
      BY <2>1, <2>2, EmptySeq
    <3> QED BY <2>2, <3>1
  <2>4. outbox[1] \in FitCalls
    BY <2>2, <2>3
  <2>5. outbox[1].op = "send"
    BY <2>4 DEF FitCalls
  <2> QED BY <2>1, <2>5
<1> QED BY <1>1, <1>2, <1>3, <1>4, <1>5, <1>6, <1>7, <1>8, <1>9, <1>10, NextActs

\* The end of a reply without an error has nothing left to say.
LEMMA SaidInFull ==
  ASSUME TypeOK, SayInv
  PROVE  WeChatSaysItOnce
<1> SUFFICES ASSUME WeChat, stage = "ok"
             PROVE  Read = Ink(IF chat = <<>> THEN Said ELSE Prefix \o Said)
  BY DEF WeChatSaysItOnce
<1>1. outbox = <<>> /\ sink.buffer = <<>> /\ sink.failed = 0
  BY DEF SayInv, Flushed
<1>2. Read \o (Ink(Unsent) \o Ink(sink.buffer)) = Ink(Lead) \o Ink(Said)
  BY <1>1 DEF SayInv, OnItsWay, Owed
<1>3. Ink(Unsent) = <<>> /\ Ink(sink.buffer) = <<>>
  BY <1>1, FlattenNothing, InkNothing DEF Unsent, TextsOf
<1>4. <<>> \o <<>> = <<>> /\ Read \o <<>> = Read
  BY <1>3, SayTypes, Regroup
<1>5. Read = Ink(Lead) \o Ink(Said)
  BY <1>2, <1>3, <1>4
<1>6. CASE chat = <<>>
  <2>1. Ink(Lead) = <<>>
    BY <1>6, InkNothing DEF Lead
  <2>2. <<>> \o Ink(Said) = Ink(Said)
    BY SayTypes, Regroup
  <2> QED BY <1>5, <1>6, <2>1, <2>2
<1>7. CASE chat # <<>>
  <2>1. Lead = Prefix
    BY <1>7 DEF Lead
  <2>2. Ink(Prefix \o Said) = Ink(Prefix) \o Ink(Said)
    BY TextsAreTexts, SayTypes, InkConcat
  <2> QED BY <1>5, <1>7, <2>1, <2>2
<1> QED BY <1>6, <1>7

\* A reply of WeChat that ends without an error says the prefix and what the
\* agent said, each text once and in order, whatever the texts, the size of a
\* chunk, the events and the sends that fail.
THEOREM WeChatSaysOnce == Spec => []WeChatSaysItOnce
<1>1. Init => SayInv
  BY SayStarts
<1>2. TypeOK /\ TypeOK' /\ FitInv /\ SayInv /\ [Next]_vars => SayInv'
  <2> SUFFICES ASSUME TypeOK, TypeOK', FitInv, SayInv, [Next]_vars PROVE SayInv'
    OBVIOUS
  <2>1. route' = route
    BY FixedStays DEF fixed
  <2>2. WeChat' <=> WeChat
    BY <2>1, SameRoute
  <2>3. CASE ~ WeChat
    BY <2>2, <2>3 DEF SayInv
  <2>4. CASE UNCHANGED vars
    <3>1. UNCHANGED <<route, spoken, segments, last, parts, sink, outbox, chat, stage>>
      BY <2>4 DEF vars
    <3> QED BY <3>1, SayStays
  <2>5. CASE WeChat /\ Next
    BY <2>5, SayNext
  <2> QED BY <2>3, <2>4, <2>5
<1>3. TypeOK /\ SayInv => WeChatSaysItOnce
  BY SaidInFull
<1> QED BY <1>1, <1>2, <1>3, TypeCorrect, AlwaysFits, PTL DEF Spec

-----------------------------------------------------------------------------
(* Telegram keeps every text.                                                  *)

\* The messages c, of which those of mv may still change, hold the text t.
Holds(c, mv, t) ==
  \E lo \in 1 .. Len(c) + 1 : \E hi \in lo - 1 .. Len(c) :
    /\ (lo .. hi) \cap mv = {}
    /\ \E x \in {<<>>, Prefix} : FlattenSeq(SubSeq(c, lo, hi)) = x \o t

\* The same messages in a row are the same part of a chat.
LEMMA SamePart ==
  ASSUME NEW c \in Seq(Text), NEW d \in Seq(Text), NEW i \in 1 .. Len(c) + 1,
         NEW j \in i - 1 .. Len(c), Len(c) <= Len(d),
         \A k \in i .. j : d[k] = c[k]
  PROVE  SubSeq(d, i, j) = SubSeq(c, i, j)
<1>1. /\ Len(c) \in Nat /\ Len(d) \in Nat /\ i \in Int /\ j \in Int
      /\ \A k \in 1 .. Len(c) : c[k] \in Text
      /\ \A k \in 1 .. Len(d) : d[k] \in Text
  BY LenProperties
<1>2. (\A k \in i .. j : c[k] \in Text) /\ (\A k \in i .. j : d[k] \in Text)
  BY <1>1
<1>3. PICK x : x = SubSeq(c, i, j)
  OBVIOUS
<1>4. PICK y : y = SubSeq(d, i, j)
  OBVIOUS
<1>5. /\ x \in Seq(Text) /\ Len(x) = (IF i <= j THEN j - i + 1 ELSE 0)
      /\ \A k \in 1 .. j - i + 1 : x[k] = c[i + k - 1]
  BY <1>1, <1>2, <1>3, SubSeqProperties
<1>6. /\ y \in Seq(Text) /\ Len(y) = (IF i <= j THEN j - i + 1 ELSE 0)
      /\ \A k \in 1 .. j - i + 1 : y[k] = d[i + k - 1]
  BY <1>1, <1>2, <1>4, SubSeqProperties
<1>7. ASSUME NEW k \in 1 .. Len(x)
      PROVE  x[k] = y[k]
  <2>1. k \in 1 .. j - i + 1 /\ i + k - 1 \in i .. j
    BY <1>1, <1>5
  <2>2. x[k] = c[i + k - 1]
    BY <1>5, <2>1
  <2>3. y[k] = d[i + k - 1]
    BY <1>6, <2>1
  <2> QED BY <2>1, <2>2, <2>3
<1>8. x = y
  BY <1>5, <1>6, <1>7, SeqEqual
<1> QED BY <1>3, <1>4, <1>8

\* What is held stays so when only the messages that may change do.
LEMMA HoldsOn ==
  ASSUME NEW c \in Seq(Text), NEW d \in Seq(Text), NEW mv, NEW nv, NEW t,
         Holds(c, mv, t), Len(c) <= Len(d),
         \A i \in 1 .. Len(c) : i \notin mv => i \notin nv /\ d[i] = c[i]
  PROVE  Holds(d, nv, t)
<1>1. Len(c) \in Nat /\ Len(d) \in Nat
  BY LenProperties
<1>2. PICK lo \in 1 .. Len(c) + 1 : \E hi \in lo - 1 .. Len(c) :
        /\ (lo .. hi) \cap mv = {}
        /\ \E x \in {<<>>, Prefix} : FlattenSeq(SubSeq(c, lo, hi)) = x \o t
  BY DEF Holds
<1>3. PICK hi \in lo - 1 .. Len(c) :
        /\ (lo .. hi) \cap mv = {}
        /\ \E x \in {<<>>, Prefix} : FlattenSeq(SubSeq(c, lo, hi)) = x \o t
  BY <1>2
<1>4. \A k \in lo .. hi : k \notin nv /\ d[k] = c[k]
  <2> SUFFICES ASSUME NEW k \in lo .. hi PROVE k \notin nv /\ d[k] = c[k]
    OBVIOUS
  <2>1. k \in 1 .. Len(c)
    BY <1>1
  <2>2. k \notin mv
    BY <1>3
  <2> QED BY <2>1, <2>2
<1>5. SubSeq(d, lo, hi) = SubSeq(c, lo, hi)
  BY <1>1, <1>4, SamePart
<1>6. lo \in 1 .. Len(d) + 1 /\ hi \in lo - 1 .. Len(d) /\ (lo .. hi) \cap nv = {}
  BY <1>1, <1>4
<1> QED BY <1>3, <1>5, <1>6 DEF Holds

\* The pieces of a text, sent one after the other, hold it.
LEMMA HoldsNew ==
  ASSUME NEW c \in Seq(Text), NEW pieces \in Seq(Text), NEW mv, NEW t,
         FlattenSeq(pieces) = Prefix \o t,
         \A i \in mv : i \notin Len(c) + 1 .. Len(c) + Len(pieces)
  PROVE  Holds(c \o pieces, mv, t)
<1>1. Len(c) \in Nat /\ Len(pieces) \in Nat
  BY LenProperties
<1>2. PICK d : d = c \o pieces
  OBVIOUS
<1>3. /\ d \in Seq(Text) /\ Len(d) = Len(c) + Len(pieces)
      /\ \A i \in 1 .. Len(c) + Len(pieces) :
           d[i] = IF i <= Len(c) THEN c[i] ELSE pieces[i - Len(c)]
  BY <1>2, ConcatProperties
<1>4. PICK lo : lo = Len(c) + 1
  OBVIOUS
<1>5. PICK hi : hi = Len(c) + Len(pieces)
  OBVIOUS
<1>6. lo \in 1 .. Len(d) + 1 /\ hi \in lo - 1 .. Len(d) /\ (lo .. hi) \cap mv = {}
  BY <1>1, <1>3, <1>4, <1>5
<1>7. SubSeq(d, lo, hi) = pieces
  <2>1. lo \in Int /\ hi \in Int /\ \A i \in lo .. hi : d[i] \in Text
    BY <1>1, <1>3, <1>4, <1>5, LenProperties
  <2>2. PICK y : y = SubSeq(d, lo, hi)
    OBVIOUS
  <2>3. /\ y \in Seq(Text) /\ Len(y) = (IF lo <= hi THEN hi - lo + 1 ELSE 0)
        /\ \A k \in 1 .. hi - lo + 1 : y[k] = d[lo + k - 1]
    BY <2>1, <2>2, SubSeqProperties
  <2>4. Len(y) = Len(pieces)
    BY <1>1, <1>4, <1>5, <2>3
  <2>5. ASSUME NEW k \in 1 .. Len(y) PROVE y[k] = pieces[k]
    <3>1. /\ k \in 1 .. hi - lo + 1 /\ lo + k - 1 = Len(c) + k
          /\ Len(c) + k \in 1 .. Len(c) + Len(pieces) /\ ~ (Len(c) + k <= Len(c))
          /\ (Len(c) + k) - Len(c) = k
      BY <1>1, <1>4, <1>5, <2>4
    <3>2. d[Len(c) + k] = pieces[k]
      BY <1>3, <3>1
    <3> QED BY <2>3, <3>1, <3>2
  <2> QED BY <2>2, <2>3, <2>4, <2>5, SeqEqual
<1>8. Prefix \in {<<>>, Prefix} /\ FlattenSeq(SubSeq(d, lo, hi)) = Prefix \o t
  BY <1>7
<1> QED BY <1>2, <1>6, <1>8 DEF Holds

\* A message that is the text holds it.
LEMMA HoldsOne ==
  ASSUME NEW c \in Seq(Text), NEW k \in 1 .. Len(c), NEW mv, NEW t \in Text,
         c[k] = t, k \notin mv
  PROVE  Holds(c, mv, t)
<1>1. Len(c) \in Nat /\ k \in Int
  BY LenProperties
<1>2. SubSeq(c, k, k) = <<t>>
  <2>1. \A i \in k .. k : c[i] \in Text
    BY <1>1
  <2>2. PICK y : y = SubSeq(c, k, k)
    OBVIOUS
  <2>3. /\ y \in Seq(Text) /\ Len(y) = (IF k <= k THEN k - k + 1 ELSE 0)
        /\ \A i \in 1 .. k - k + 1 : y[i] = c[k + i - 1]
    BY <1>1, <2>1, <2>2, SubSeqProperties
  <2>4. Len(y) = 1 /\ y[1] = t
    <3>1. k <= k /\ k - k + 1 = 1 /\ 1 \in 1 .. 1 /\ k + 1 - 1 = k
      BY <1>1
    <3>2. \A i \in 1 .. 1 : y[i] = c[k + i - 1]
      BY <2>3, <3>1
    <3>3. y[1] = c[k + 1 - 1]
      BY <3>1, <3>2
    <3>4. Len(y) = 1
      BY <2>3, <3>1
    <3>5. c[k + 1 - 1] = t
      BY <3>1
    <3> QED BY <3>3, <3>4, <3>5
  <2>5. <<t>> \in Seq(Text) /\ Len(<<t>>) = 1 /\ \A i \in 1 .. 1 : y[i] = <<t>>[i]
    BY <2>4
  <2>6. y = <<t>>
    BY <2>3, <2>4, <2>5, SeqEqual
  <2> QED BY <2>2, <2>6
<1>3. FlattenSeq(<<t>>) = t /\ <<>> \o t = t
  BY FlattenOne, ConcatEmptySeq DEF Text
<1>4. k \in 1 .. Len(c) + 1 /\ k \in k - 1 .. Len(c) /\ (k .. k) \cap mv = {}
  BY <1>1
<1>5. <<>> \in {<<>>, Prefix} /\ FlattenSeq(SubSeq(c, k, k)) = <<>> \o t
  BY <1>2, <1>3
<1> QED BY <1>4, <1>5 DEF Holds

\* A text in the middle of another begins somewhere.
LEMMA StartsSomewhere ==
  ASSUME NEW a \in Seq(Char), NEW b \in Seq(Char), NEW d \in Seq(Char),
         NEW r, r = a \o (b \o d)
  PROVE  \E i \in 0 .. Len(r) : IsPrefix(b, SubSeq(r, i + 1, Len(r)))
<1>1. PICK e : e = b \o d
  OBVIOUS
<1>2. /\ e \in Seq(Char) /\ Len(e) = Len(b) + Len(d) /\ Len(b) \in Nat /\ Len(d) \in Nat
      /\ \A i \in 1 .. Len(b) + Len(d) : e[i] = IF i <= Len(b) THEN b[i] ELSE d[i - Len(b)]
  BY <1>1, ConcatProperties, LenProperties
<1>3. /\ r \in Seq(Char) /\ Len(r) = Len(a) + Len(e) /\ Len(a) \in Nat /\ Len(e) \in Nat
      /\ \A i \in 1 .. Len(a) + Len(e) : r[i] = IF i <= Len(a) THEN a[i] ELSE e[i - Len(a)]
  BY <1>1, <1>2, ConcatProperties, LenProperties
<1>4. PICK s : s = SubSeq(r, Len(a) + 1, Len(r))
  OBVIOUS
<1>5. s \in Seq(Char) /\ Len(s) = Len(e) /\ \A i \in 1 .. Len(e) : s[i] = e[i]
  <2>1. PICK m : m = Len(a) + 1
    OBVIOUS
  <2>2. m \in Int /\ Len(r) \in Int /\ \A i \in m .. Len(r) : r[i] \in Char
    <3>1. \A i \in 1 .. Len(r) : r[i] \in Char
      BY <1>3, LenProperties
    <3> QED BY <1>3, <2>1, <3>1
  <2>3. /\ s \in Seq(Char) /\ Len(s) = (IF m <= Len(r) THEN Len(r) - m + 1 ELSE 0)
        /\ \A i \in 1 .. Len(r) - m + 1 : s[i] = r[m + i - 1]
    BY <1>4, <2>1, <2>2, SubSeqProperties, SMTT(30)
  <2>4. m <= Len(r) \/ Len(e) = 0
    BY <1>3, <2>1
  <2>5. Len(s) = Len(e) /\ Len(r) - m + 1 = Len(e)
    BY <1>3, <2>1, <2>3, <2>4
  <2>6. ASSUME NEW i \in 1 .. Len(e) PROVE s[i] = e[i]
    <3>1. /\ m + i - 1 = Len(a) + i /\ Len(a) + i \in 1 .. Len(a) + Len(e)
          /\ ~ (Len(a) + i <= Len(a)) /\ (Len(a) + i) - Len(a) = i
      BY <1>3, <2>1
    <3>2. r[Len(a) + i] = e[i]
      BY <1>3, <3>1
    <3> QED BY <2>3, <2>5, <3>1, <3>2
  <2> QED BY <2>3, <2>5, <2>6
<1>6. IsPrefix(b, s)
  <2>1. Len(b) <= Len(s)
    BY <1>2, <1>5
  <2>2. SubSeq(b, 1, Len(b)) = b
    BY SubSeqFull
  <2>3. PICK p : p = SubSeq(s, 1, Len(b))
    OBVIOUS
  <2>4. p \in Seq(Char) /\ Len(p) = Len(b) /\ \A i \in 1 .. Len(b) : p[i] = s[i]
    <3>1. Len(b) \in Int /\ 1 \in Int /\ \A i \in 1 .. Len(b) : s[i] \in Char
      BY <1>2, <1>5
    <3>2. /\ p \in Seq(Char) /\ Len(p) = (IF 1 <= Len(b) THEN Len(b) - 1 + 1 ELSE 0)
          /\ \A i \in 1 .. Len(b) - 1 + 1 : p[i] = s[1 + i - 1]
      BY <2>3, <3>1, SubSeqProperties
    <3> QED BY <1>2, <3>2
  <2>5. \A i \in 1 .. Len(b) : p[i] = b[i]
    BY <1>2, <1>5, <2>4
  <2>6. p = b
    BY <2>4, <2>5, SeqEqual
  <2> QED BY <2>1, <2>2, <2>3, <2>6 DEF IsPrefix
<1>7. Len(a) \in 0 .. Len(r)
  BY <1>2, <1>3
<1> QED BY <1>4, <1>6, <1>7

\* What the messages hold can be read in them.
LEMMA HeldIsRead ==
  ASSUME NEW c \in Seq(Text), NEW mv, NEW t \in Text, Holds(c, mv, t),
         NEW r, r = Ink(FlattenSeq(c))
  PROVE  \E i \in 0 .. Len(r) : IsPrefix(Ink(t), SubSeq(r, i + 1, Len(r)))
<1>1. Len(c) \in Nat
  BY LenProperties
<1>2. PICK lo \in 1 .. Len(c) + 1 : \E hi \in lo - 1 .. Len(c) :
        /\ (lo .. hi) \cap mv = {}
        /\ \E x \in {<<>>, Prefix} : FlattenSeq(SubSeq(c, lo, hi)) = x \o t
  BY DEF Holds
<1>3. PICK hi \in lo - 1 .. Len(c) :
        \E x \in {<<>>, Prefix} : FlattenSeq(SubSeq(c, lo, hi)) = x \o t
  BY <1>2
<1>4. PICK x \in {<<>>, Prefix} : FlattenSeq(SubSeq(c, lo, hi)) = x \o t
  BY <1>3
<1>5. PICK a : a = SubSeq(c, 1, lo - 1)
  OBVIOUS
<1>6. PICK b : b = SubSeq(c, lo, hi)
  OBVIOUS
<1>7. PICK d : d = SubSeq(c, hi + 1, Len(c))
  OBVIOUS
<1>8. lo \in Int /\ hi \in Int /\ lo - 1 \in Int /\ hi + 1 \in Int
  BY <1>1
<1>9. a \in Seq(Text) /\ b \in Seq(Text) /\ d \in Seq(Text)
  <2>1. \A i \in 1 .. Len(c) : c[i] \in Text
    BY LenProperties
  <2>2. /\ \A i \in 1 .. lo - 1 : c[i] \in Text
        /\ \A i \in lo .. hi : c[i] \in Text
        /\ \A i \in hi + 1 .. Len(c) : c[i] \in Text
    BY <1>1, <1>8, <2>1
  <2> QED BY <1>1, <1>5, <1>6, <1>7, <1>8, <2>2, SubSeqProperties
<1>10. c = (a \o b) \o d
  <2>1. SubSeq(c, 1, Len(c)) = c
    BY SubSeqFull
  <2>2. a \o b = SubSeq(c, 1, hi)
    <3>1. /\ 1 \in 1 .. Len(c) + 1 /\ lo - 1 \in 1 - 1 .. Len(c) /\ hi \in lo - 1 .. Len(c)
          /\ lo - 1 + 1 = lo
      BY <1>1, <1>8
    <3>2. PICK l : l = lo - 1
      OBVIOUS
    <3>3. SubSeq(c, 1, l) \o SubSeq(c, l + 1, hi) = SubSeq(c, 1, hi)
      BY <3>1, <3>2, ConcatAdjacentSubSeq
    <3> QED BY <1>5, <1>6, <3>1, <3>2, <3>3
  <2>3. SubSeq(c, 1, hi) \o d = SubSeq(c, 1, Len(c))
    <3>1. 1 \in 1 .. Len(c) + 1 /\ hi \in 1 - 1 .. Len(c) /\ Len(c) \in hi .. Len(c)
      BY <1>1, <1>8
    <3>2. PICK n : n = Len(c)
      OBVIOUS
    <3>3. SubSeq(c, 1, hi) \o SubSeq(c, hi + 1, n) = SubSeq(c, 1, n)
      BY <3>1, <3>2, ConcatAdjacentSubSeq
    <3> QED BY <1>7, <3>2, <3>3
  <2> QED BY <2>1, <2>2, <2>3
<1>11. /\ FlattenSeq(a) \in Text /\ FlattenSeq(b) \in Text /\ FlattenSeq(d) \in Text
       /\ FlattenSeq(c) = (FlattenSeq(a) \o FlattenSeq(b)) \o FlattenSeq(d)
  <2>1. a \in Seq(Seq(Char)) /\ b \in Seq(Seq(Char)) /\ d \in Seq(Seq(Char))
    BY <1>9 DEF Text
  <2>2. a \o b \in Seq(Seq(Char))
    BY <2>1, ConcatProperties
  <2>3. FlattenSeq(a \o b) = FlattenSeq(a) \o FlattenSeq(b)
    BY <2>1, FlattenConcat
  <2>4. FlattenSeq((a \o b) \o d) = FlattenSeq(a \o b) \o FlattenSeq(d)
    BY <2>1, <2>2, FlattenConcat
  <2> QED BY <1>9, <1>10, <2>3, <2>4, FlattenText
<1>12. PICK fa : fa = FlattenSeq(a)
  OBVIOUS
<1>13. PICK fd : fd = FlattenSeq(d)
  OBVIOUS
<1>14. x \in Text /\ fa \in Text /\ fd \in Text /\ FlattenSeq(c) = (fa \o (x \o t)) \o fd
  BY <1>4, <1>6, <1>11, <1>12, <1>13, TextsAreTexts
<1>15. /\ Ink(fa) \in Seq(Char) /\ Ink(x) \in Seq(Char) /\ Ink(t) \in Seq(Char)
       /\ Ink(fd) \in Seq(Char)
       /\ r = (Ink(fa) \o (Ink(x) \o Ink(t))) \o Ink(fd)
  <2>1. PICK u : u = x \o t
    OBVIOUS
  <2>2. u \in Text /\ Ink(u) = Ink(x) \o Ink(t) /\ Ink(x) \in Text /\ Ink(t) \in Text
    BY <1>14, <2>1, InkConcat
  <2>3. PICK v : v = fa \o u
    OBVIOUS
  <2>4. v \in Text /\ Ink(v) = Ink(fa) \o Ink(u) /\ Ink(fa) \in Text
    BY <1>14, <2>2, <2>3, InkConcat
  <2>5. Ink(v \o fd) = Ink(v) \o Ink(fd) /\ Ink(fd) \in Text
    BY <1>14, <2>4, InkConcat
  <2>6. r = Ink(v \o fd)
    BY <1>14, <2>1, <2>3
  <2> QED BY <2>2, <2>4, <2>5, <2>6 DEF Text
<1>16. PICK ia : ia = Ink(fa)
  OBVIOUS
<1>17. PICK ix : ix = Ink(x)
  OBVIOUS
<1>18. PICK it : it = Ink(t)
  OBVIOUS
<1>19. PICK id : id = Ink(fd)
  OBVIOUS
<1>20. /\ ia \in Seq(Char) /\ ix \in Seq(Char) /\ it \in Seq(Char) /\ id \in Seq(Char)
       /\ r = (ia \o (ix \o it)) \o id
  BY <1>15, <1>16, <1>17, <1>18, <1>19
<1>21. PICK h : h = ia \o ix
  OBVIOUS
<1>22. h \in Seq(Char) /\ r = h \o (it \o id)
  <2>1. InARow(ia, ix, it)
    BY <1>20, RegroupThree
  <2>2. h \in Seq(Char) /\ h \o it = ia \o (ix \o it)
    BY <1>21, <2>1 DEF InARow
  <2>3. InARow(h, it, id)
    BY <1>20, <2>2, RegroupThree
  <2> QED BY <1>20, <2>2, <2>3 DEF InARow
<1>23. \E i \in 0 .. Len(r) : IsPrefix(it, SubSeq(r, i + 1, Len(r)))
  BY <1>20, <1>22, StartsSomewhere
<1> QED BY <1>18, <1>23

\* Each character of the messages in a row is in one of them.
LEMMA CharacterIsSomewhere ==
  ASSUME NEW c \in Seq(Text)
  PROVE  \A i \in 1 .. Len(FlattenSeq(c)) :
           \E k \in 1 .. Len(c) : Contains(c[k], FlattenSeq(c)[i])
<1> DEFINE P(s) == \A i \in 1 .. Len(FlattenSeq(s)) :
                     \E k \in 1 .. Len(s) : Contains(s[k], FlattenSeq(s)[i])
           Q == {s \in Seq(Text) : P(s)}
<1>1. <<>> \in Q
  <2>1. FlattenSeq(<<>>) = <<>> /\ Len(<<>>) = 0 /\ <<>> \in Seq(Text)
    BY FlattenNothing
  <2> QED BY <2>1
<1>2. ASSUME NEW s \in Q, NEW t \in Text PROVE Append(s, t) \in Q
  <2>1. s \in Seq(Text) /\ P(s)
    OBVIOUS
  <2>2. PICK u : u = Append(s, t)
    OBVIOUS
  <2>3. /\ u \in Seq(Text) /\ Len(u) = Len(s) + 1 /\ Len(s) \in Nat
        /\ \A k \in 1 .. Len(s) : u[k] = s[k]
        /\ u[Len(s) + 1] = t
    BY <2>1, <2>2, AppendProperties, LenProperties
  <2>4. PICK f : f = FlattenSeq(s)
    OBVIOUS
  <2>5. PICK g : g = FlattenSeq(u)
    OBVIOUS
  <2>6. f \in Seq(Char) /\ g = f \o t
    <3>1. s \in Seq(Seq(Char)) /\ t \in Seq(Char)
      BY <2>1 DEF Text
    <3> QED BY <3>1, <2>2, <2>4, <2>5, FlattenAppend
  <2>7. /\ Len(g) = Len(f) + Len(t) /\ Len(f) \in Nat /\ Len(t) \in Nat
        /\ \A i \in 1 .. Len(f) + Len(t) : g[i] = IF i <= Len(f) THEN f[i] ELSE t[i - Len(f)]
    BY <2>6, ConcatProperties, LenProperties DEF Text
  <2>8. ASSUME NEW i \in 1 .. Len(g)
        PROVE  \E k \in 1 .. Len(u) : Contains(u[k], g[i])
    <3>1. CASE i <= Len(f)
      <4>1. i \in 1 .. Len(f) /\ g[i] = f[i]
        BY <2>7, <3>1
      <4>2. PICK k \in 1 .. Len(s) : Contains(s[k], f[i])
        BY <2>1, <2>4, <4>1
      <4>3. k \in 1 .. Len(u) /\ u[k] = s[k]
        BY <2>3
      <4> QED BY <4>1, <4>2, <4>3
    <3>2. CASE ~ (i <= Len(f))
      <4>1. i - Len(f) \in 1 .. Len(t) /\ g[i] = t[i - Len(f)]
        BY <2>7, <3>2
      <4>2. Contains(t, g[i])
        BY <4>1 DEF Contains
      <4>3. Len(s) + 1 \in 1 .. Len(u)
        BY <2>3
      <4> QED BY <2>3, <4>2, <4>3
    <3> QED BY <3>1, <3>2
  <2>9. P(u)
    BY <2>5, <2>8
  <2> QED BY <2>2, <2>3, <2>9
<1>3. Q \in SUBSET Seq(Text)
  OBVIOUS
<1> HIDE DEF Q
<1>4. Q = Seq(Text)
  BY <1>1, <1>2, <1>3, SequenceInduction
<1>5. c \in Q
  BY <1>4
<1> QED BY <1>5 DEF Q

\* A question that is held can be read.
LEMMA HeldQuestion ==
  ASSUME NEW c \in Seq(Text), NEW mv, Holds(c, mv, Question)
  PROVE  \E m \in Range(c) : Contains(m, Question[1])
<1>1. Len(c) \in Nat
  BY LenProperties
<1>2. PICK lo \in 1 .. Len(c) + 1 : \E hi \in lo - 1 .. Len(c) :
        \E x \in {<<>>, Prefix} : FlattenSeq(SubSeq(c, lo, hi)) = x \o Question
  BY DEF Holds
<1>3. PICK hi \in lo - 1 .. Len(c) :
        \E x \in {<<>>, Prefix} : FlattenSeq(SubSeq(c, lo, hi)) = x \o Question
  BY <1>2
<1>4. PICK x \in {<<>>, Prefix} : FlattenSeq(SubSeq(c, lo, hi)) = x \o Question
  BY <1>3
<1>5. PICK b : b = SubSeq(c, lo, hi)
  OBVIOUS
<1>6. /\ b \in Seq(Text) /\ Len(b) = (IF lo <= hi THEN hi - lo + 1 ELSE 0)
      /\ \A k \in 1 .. hi - lo + 1 : b[k] = c[lo + k - 1]
  <2>1. lo \in Int /\ hi \in Int /\ \A i \in lo .. hi : c[i] \in Text
    BY <1>1, LenProperties
  <2> QED BY <1>5, <2>1, SubSeqProperties
<1>7. PICK f : f = FlattenSeq(b)
  OBVIOUS
<1>8. Len(x) \in Nat /\ Len(x) + 1 \in 1 .. Len(f) /\ f[Len(x) + 1] = Question[1]
  <2>1. x \in Seq(Char) /\ Question \in Seq(Char) /\ Len(Question) = 1
    BY TextsAreTexts DEF Text, Question
  <2>2. f = x \o Question
    BY <1>4, <1>5, <1>7
  <2>3. Len(f) = Len(x) + Len(Question) /\ Len(x) \in Nat
        /\ \A i \in 1 .. Len(x) + Len(Question) :
             f[i] = IF i <= Len(x) THEN x[i] ELSE Question[i - Len(x)]
    BY <2>1, <2>2, ConcatProperties, LenProperties
  <2>4. Len(x) + 1 \in 1 .. Len(x) + Len(Question) /\ ~ (Len(x) + 1 <= Len(x))
        /\ (Len(x) + 1) - Len(x) = 1
    BY <2>1, <2>3
  <2> QED BY <2>1, <2>3, <2>4
<1>9. PICK k \in 1 .. Len(b) : Contains(b[k], Question[1])
  BY <1>6, <1>7, <1>8, CharacterIsSomewhere
<1>10. lo + k - 1 \in 1 .. Len(c) /\ b[k] = c[lo + k - 1]
  BY <1>1, <1>6
<1>11. c[lo + k - 1] \in Range(c)
  <2>1. DOMAIN c = 1 .. Len(c)
    BY LenProperties
  <2> QED BY <1>10, <2>1 DEF Range
<1> QED BY <1>9, <1>10, <1>11

\* The messages that may still change: the placeholder, and what the calls to
\* come name.  (An id of 0 is no message.)
Named(o) == {o[i].at : i \in DOMAIN o}
Moving == {sink.bubble} \cup Named(outbox)

\* A call to come brings the text.
Coming(o, t) ==
  \E i \in DOMAIN o : o[i].op \in {"send", "final"} /\ o[i].text = t

\* The texts the chat has to hold: of those the ones that are not blank.
Inked(texts) == {t \in texts : Trim(t) # <<>>}
Due ==
  Inked(IF Streaming THEN Range(spoken)
        ELSE IF stage = "reading" THEN {} ELSE {PlainReply})

\* The placeholder and the calls name messages of the chat; the last edit of a
\* message is the only call, and its message is no placeholder any more.
Places ==
  /\ sink.bubble \in 0 .. Len(chat)
  /\ \A i \in DOMAIN outbox :
       /\ outbox[i].at \in 0 .. Len(chat)
       /\ outbox[i].op = "final" =>
            Len(outbox) = 1 /\ sink.bubble = 0 /\ outbox[i].at # 0

\* Each text is in the chat, where nothing changes it, or in a call to come.
Kept ==
  (stage \in {"reading", "closing", "ok"} /\ ~ hidden) =>
    \A t \in Due : Holds(chat, Moving, t) \/ Coming(outbox, t)

TelegramInv == ~ WeChat => Places /\ Kept /\ (stage = "ok" => outbox = <<>>)

\* A step that leaves the sink, the chat and what was said alone.
LEMMA TelegramStays ==
  ASSUME TelegramInv, stage' = stage,
         UNCHANGED <<route, spoken, segments, last, parts, sink, outbox, chat, hidden>>
  PROVE  TelegramInv'
<1>1. (Streaming' <=> Streaming) /\ (WeChat' <=> WeChat)
  BY SameRoute
<1>2. PlainReply' = PlainReply
  BY <1>1 DEF PlainReply, Answer, Silent
<1>3. Due' = Due
  BY <1>1, <1>2 DEF Due
<1>4. Moving' = Moving
  BY DEF Moving, Named
<1>5. Places => Places'
  BY DEF Places
<1>6. Kept => Kept'
  BY <1>3, <1>4 DEF Kept
<1> QED BY <1>1, <1>5, <1>6 DEF TelegramInv

\* A reply that failed keeps nothing.
LEMMA TelegramFails ==
  ASSUME Places', stage' \in {"error", "panicked"}
  PROVE  TelegramInv'
BY DEF TelegramInv, Kept

\* An event, or the end of the events, that makes new calls about the
\* placeholder, and a call for each text it completes.
LEMMA TelegramMore ==
  ASSUME TypeOK, TypeOK', TelegramInv, ~ WeChat, outbox = <<>>, stage = "reading",
         stage' \in {"reading", "closing"}, UNCHANGED <<route, chat, hidden>>,
         sink'.bubble \in {0, sink.bubble},
         \A i \in DOMAIN outbox' :
           /\ outbox'[i].at \in {0, sink.bubble}
           /\ outbox'[i].op = "final" =>
                Len(outbox') = 1 /\ sink'.bubble = 0 /\ outbox'[i].at # 0,
         \A t \in Due' : t \in Due \/ Coming(outbox', t)
  PROVE  TelegramInv'
<1>1. Places /\ Kept /\ chat \in Seq(Text) /\ Len(chat) \in Nat
  BY LenProperties DEF TelegramInv, TypeOK, ChatOK
<1>2. Places'
  <2>1. sink'.bubble \in 0 .. Len(chat')
    BY <1>1 DEF Places
  <2>2. \A i \in DOMAIN outbox' : outbox'[i].at \in 0 .. Len(chat')
    BY <1>1 DEF Places
  <2> QED BY <2>1, <2>2 DEF Places
<1>3. Kept'
  <2> SUFFICES ASSUME ~ hidden', NEW t \in Due'
               PROVE  Holds(chat', Moving', t) \/ Coming(outbox', t)
    BY DEF Kept
  <2>1. CASE t \in Due
    <3>1. ~ Coming(outbox, t)
      BY DEF Coming
    <3>2. Holds(chat, Moving, t)
      BY <1>1, <2>1, <3>1 DEF Kept
    <3>3. \A i \in 1 .. Len(chat) : i \notin Moving => i \notin Moving'
      <4>1. Moving' \subseteq {0, sink.bubble}
        BY DEF Moving, Named
      <4>2. sink.bubble \in Moving
        BY DEF Moving
      <4> QED BY <1>1, <4>1, <4>2
    <3>4. PICK c : c = chat
      OBVIOUS
    <3>5. PICK mv : mv = Moving
      OBVIOUS
    <3>6. PICK nv : nv = Moving'
      OBVIOUS
    <3>7. /\ c \in Seq(Text) /\ Len(c) <= Len(c) /\ Holds(c, mv, t)
          /\ \A i \in 1 .. Len(c) : i \notin mv => i \notin nv /\ c[i] = c[i]
      BY <1>1, <3>2, <3>3, <3>4, <3>5, <3>6
    <3>8. Holds(c, nv, t)
      BY <3>7, HoldsOn
    <3> QED BY <3>4, <3>6, <3>8
  <2> QED BY <2>1
<1>4. ~ WeChat'
  BY SameRoute
<1> QED BY <1>2, <1>3 DEF TelegramInv

\* The texts that are due grow with the texts said.
LEMMA DueStays ==
  ASSUME route' = route, spoken' = spoken, stage = "reading", stage' = "reading"
  PROVE  Due' = Due
BY SameRoute DEF Due

\* A delta makes one edit of the placeholder, or none.
LEMMA DeltaCalls ==
  ASSUME TakeDelta
  PROVE  \/ outbox' = <<>> /\ stage' \in {"reading", "panicked"}
         \/ /\ stage' = "reading"
            /\ \E x : outbox' = <<Call("edit", x, sink.bubble)>>
<1>1. stage = "reading" /\ outbox = <<>>
  BY DEF TakeDelta, Taken
<1>2. PICK id : id = coming[1].id
  OBVIOUS
<1>3. PICK text : text = buffers[id] \o coming[1].text
  OBVIOUS
<1>4. CASE ~ Streaming \/ id \notin typed \cap DOMAIN buffers
  BY <1>1, <1>2, <1>4 DEF TakeDelta, sinkVars
<1>5. CASE ~ (~ Streaming \/ id \notin typed \cap DOMAIN buffers)
  <2>1. buffers' = [buffers EXCEPT ![id] = text] /\ OnStreamDelta(text)
    BY <1>2, <1>3, <1>5 DEF TakeDelta
  <2> QED BY <1>1, <2>1 DEF OnStreamDelta, sinkVars
<1> QED BY <1>4, <1>5

\* An event keeps the texts.
LEMMA TelegramTakes ==
  ASSUME TypeOK, TypeOK', TelegramInv, ~ WeChat,
         TakeAnnounced \/ TakeDelta \/ TakeCompleted \/ TakeFailed \/ TakeError
  PROVE  TelegramInv'
<1>1. PICK kind : Taken(kind)
  BY DEF TakeAnnounced, TakeDelta, TakeCompleted, TakeFailed, TakeError
<1>2. /\ outbox = <<>> /\ stage = "reading" /\ UNCHANGED <<route, chat, hidden>>
  BY <1>1 DEF Taken, fixed, chatVars
<1>3. CASE TakeAnnounced
  <2>1. spoken' = spoken /\ stage' = stage /\ sink' = sink
    BY <1>3 DEF TakeAnnounced, Do, OnStreamStart, sinkVars
  <2>2. outbox' = <<>> \/ outbox' = <<Call("place", Placeholder, 0)>>
    BY <1>2, <1>3 DEF TakeAnnounced, Do, OnStreamStart, sinkVars
  <2>3. \A i \in DOMAIN outbox' : outbox'[i].at = 0 /\ outbox'[i].op # "final"
    BY <2>2 DEF Call
  <2>4. Due' = Due
    BY <1>2, <2>1, DueStays
  <2> QED BY <1>2, <2>1, <2>3, <2>4, TelegramMore
<1>4. CASE TakeDelta
  <2>1. spoken' = spoken /\ sink' = sink
    BY <1>4 DEF TakeDelta, OnStreamDelta, sinkVars
  <2>2. \/ outbox' = <<>> /\ stage' \in {"reading", "panicked"}
        \/ /\ stage' = "reading"
           /\ \E x : outbox' = <<Call("edit", x, sink.bubble)>>
    BY <1>4, DeltaCalls
  <2>3. CASE stage' = "panicked"
    <3>1. outbox' = <<>>
      BY <2>2, <2>3
    <3>2. Places'
      BY <1>2, <2>1, <3>1 DEF TelegramInv, Places
    <3> QED BY <2>3, <3>2, TelegramFails
  <2>4. CASE stage' = "reading"
    <3>1. \A i \in DOMAIN outbox' : outbox'[i].at = sink.bubble /\ outbox'[i].op # "final"
      BY <2>2 DEF Call
    <3>2. Due' = Due
      BY <1>2, <2>1, <2>4, DueStays
    <3> QED BY <1>2, <2>1, <2>4, <3>1, <3>2, TelegramMore
  <2> QED BY <2>2, <2>3, <2>4
<1>5. CASE TakeCompleted
  <2>1. stage' = stage
    BY <1>5 DEF TakeCompleted
  <2>2. CASE ~ Streaming
    <3>1. spoken' = spoken /\ sink' = sink /\ outbox' = outbox
      BY <1>5, <2>2 DEF TakeCompleted, sinkVars
    <3>2. Due' = Due
      BY <1>2, <2>1, <3>1, DueStays
    <3> QED BY <1>2, <2>1, <3>1, <3>2, TelegramMore
  <2>3. CASE Streaming
    <3>1. PICK said : said = IF coming[1].id \in DOMAIN buffers
                             THEN buffers[coming[1].id] ELSE <<>>
      OBVIOUS
    <3>2. PICK final : final = IF said # <<>> THEN said ELSE coming[1].text
      OBVIOUS
    <3>3. /\ spoken' = IF final = <<>> THEN spoken ELSE Append(spoken, final)
          /\ Do(IF final = <<>> THEN Nothing ELSE OnStreamEnd(final))
      BY <1>5, <2>3, <3>1, <3>2 DEF TakeCompleted
    <3>4. CASE final = <<>>
      <4>1. spoken' = spoken /\ sink' = sink /\ outbox' = <<>>
        BY <3>3, <3>4 DEF Do, Nothing
      <4>2. Due' = Due
        BY <1>2, <2>1, <4>1, DueStays
      <4> QED BY <1>2, <2>1, <4>1, <4>2, TelegramMore
    <3>5. CASE final # <<>>
      <4>1. PICK made : made = TelegramEnd(sink, final)
        OBVIOUS
      <4>2. sink' = made.sink /\ outbox' = made.calls /\ spoken' = Append(spoken, final)
        BY <3>3, <3>5, <4>1 DEF Do, OnStreamEnd
      <4>3. final \in Text /\ spoken \in Seq(Text) /\ sink \in Sinks
        <5>1. coming[1].text \in Text
          BY <1>1, TakenTypes
        <5>2. buffers \in Partial(AnyId, Text) /\ spoken \in Seq(Text) /\ sink \in Sinks
          BY DEF TypeOK, PipeOK, SinkOK
        <5>3. said \in Text
          BY <3>1, <5>2, PartialShape, TextsAreTexts
        <5> QED BY <3>2, <5>1, <5>2, <5>3
      <4>4. Ends(sink, final, made)
        BY <4>1, <4>3, EndSends
      <4>5. /\ sink'.bubble = 0
            /\ Coming(outbox', final)
            /\ \A i \in DOMAIN outbox' :
                 /\ outbox'[i].at \in {0, sink.bubble}
                 /\ outbox'[i].op = "final" => Len(outbox') = 1 /\ outbox'[i].at # 0
        BY <4>2, <4>4 DEF Ends, Coming
      <4>6. Range(spoken') = Range(spoken) \cup {final}
        BY <4>2, <4>3, RangeMore
      <4>7. \A t \in Due' : t \in Due \/ Coming(outbox', t)
        <5>1. Streaming'
          BY <1>2, <2>3, SameRoute
        <5>2. Due' = Inked(Range(spoken')) /\ Due = Inked(Range(spoken))
          BY <2>3, <5>1 DEF Due
        <5> QED BY <4>5, <4>6, <5>2 DEF Inked
      <4> QED BY <1>2, <2>1, <4>5, <4>7, TelegramMore
    <3> QED BY <3>4, <3>5
  <2> QED BY <2>2, <2>3
<1>6. CASE TakeFailed
  <2>1. spoken' = spoken /\ sink' = sink /\ outbox' = outbox /\ stage' = stage
    BY <1>6 DEF TakeFailed, sinkVars
  <2>2. Due' = Due
    BY <1>2, <2>1, DueStays
  <2> QED BY <1>2, <2>1, <2>2, TelegramMore
<1>7. CASE TakeError
  <2>1. stage' = "error" /\ UNCHANGED <<sink, outbox, chat>>
    BY <1>2, <1>7 DEF TakeError, sinkVars
  <2>2. Places'
    BY <2>1 DEF TelegramInv, Places
  <2> QED BY <2>1, <2>2, TelegramFails
<1> QED BY <1>3, <1>4, <1>5, <1>6, <1>7

\* The end of the events keeps the texts, and sends the reply when nothing is
\* streamed.
LEMMA TelegramOver ==
  ASSUME TypeOK, TypeOK', TelegramInv, ~ WeChat, StreamOver
  PROVE  TelegramInv'
<1>1. /\ stage = "reading" /\ outbox = <<>> /\ stage' = "closing"
      /\ UNCHANGED <<route, spoken, segments, last, parts, chat, hidden>>
  BY DEF StreamOver, fixed, pipeVars, chatVars
<1>2. (Streaming' <=> Streaming) /\ (WeChat' <=> WeChat)
  BY <1>1, SameRoute
<1>3. CASE Streaming
  <2>1. PICK made : made = OnCompleted(Whole)
    OBVIOUS
  <2>2. sink' = made.sink /\ outbox' = made.calls
    BY <1>3, <2>1 DEF StreamOver, Do
  <2>3. sink \in Sinks
    BY DEF TypeOK, SinkOK
  <2>4. Flushes(Whole, made)
    BY <2>1, <2>3, NoticesAreTexts, CompletedSends
  <2>5. /\ sink'.bubble = sink.bubble
        /\ \A i \in DOMAIN outbox' : outbox'[i].at = 0 /\ outbox'[i].op # "final"
    BY <2>2, <2>4 DEF Flushes
  <2>6. Due' = Due
    BY <1>1, <1>2, <1>3 DEF Due
  <2> QED BY <1>1, <2>5, <2>6, TelegramMore
<1>4. CASE ~ Streaming
  <2>1. Do(SendReply)
    BY <1>4 DEF StreamOver
  <2>2. /\ sink' = sink
        /\ outbox' = IF PlainReply = <<>> THEN <<>>
                     ELSE <<Call("send", PlainReply, 0)>>
    BY <2>1 DEF Do, SendReply
  <2>3. \A i \in DOMAIN outbox' : outbox'[i].at = 0 /\ outbox'[i].op # "final"
    BY <2>2 DEF Call
  <2>4. Trim(PlainReply) # <<>> => Coming(outbox', PlainReply)
    <3>1. Trim(<<>>) = <<>>
      BY DEF Trim
    <3>2. CASE PlainReply # <<>>
      <4>1. 1 \in DOMAIN outbox' /\ outbox'[1] = Call("send", PlainReply, 0)
        BY <2>2, <3>2
      <4> QED BY <4>1 DEF Coming, Call
    <3> QED BY <3>1, <3>2
  <2>5. PlainReply' = PlainReply
    BY <1>1, <1>2 DEF PlainReply, Answer, Silent
  <2>6. Due' = Inked({PlainReply})
    BY <1>1, <1>2, <1>4, <2>5 DEF Due
  <2>7. \A t \in Due' : Coming(outbox', t)
    BY <2>4, <2>6 DEF Inked
  <2> QED BY <1>1, <2>2, <2>3, <2>7, TelegramMore
<1> QED BY <1>3, <1>4

\* The end of a reply keeps the texts.
LEMMA TelegramEnds ==
  ASSUME TelegramInv, ~ WeChat, FinishTelegram
  PROVE  TelegramInv'
<1>1. /\ stage = "closing" /\ outbox = <<>> /\ stage' = "ok"
      /\ UNCHANGED <<route, spoken, segments, last, parts, sink, outbox, chat, hidden>>
  BY DEF FinishTelegram, Finish, fixed, pipeVars, sinkVars, chatVars
<1>2. (Streaming' <=> Streaming) /\ (WeChat' <=> WeChat)
  BY <1>1, SameRoute
<1>3. PlainReply' = PlainReply
  BY <1>1, <1>2 DEF PlainReply, Answer, Silent
<1>4. Due' = Due
  BY <1>1, <1>2, <1>3 DEF Due
<1>5. Moving' = Moving
  BY <1>1 DEF Moving, Named
<1>6. Places' /\ Kept'
  BY <1>1, <1>4, <1>5 DEF TelegramInv, Places, Kept
<1> QED BY <1>1, <1>6 DEF TelegramInv

\* The calls behind the next one.
Behind(o, rest) ==
  /\ rest \in Seq(Calls) /\ Len(o) \in Nat /\ Len(o) > 0
  /\ DOMAIN o = 1 .. Len(o) /\ DOMAIN rest = 1 .. Len(o) - 1
  /\ \A i \in DOMAIN rest : i + 1 \in DOMAIN o /\ rest[i] = o[i + 1]
  /\ \A i \in DOMAIN o : i = 1 \/ (i - 1 \in DOMAIN rest /\ o[i] = rest[i - 1])
  /\ Named(rest) \subseteq Named(o) /\ o[1].at \in Named(o)

\* Every call but the first is behind it.
LEMMA RestOfCalls ==
  ASSUME NEW o \in Seq(Calls), o # <<>>, NEW rest, rest = Tail(o)
  PROVE  Behind(o, rest)
<1>1. Len(o) \in Nat /\ Len(o) > 0 /\ DOMAIN o = 1 .. Len(o)
  <2>1. Len(o) \in Nat /\ DOMAIN o = 1 .. Len(o)
    BY LenProperties
  <2>2. Len(o) # 0
    BY EmptySeq
  <2> QED BY <2>1, <2>2
<1>2. /\ rest \in Seq(Calls) /\ Len(rest) = Len(o) - 1
      /\ \A i \in 1 .. Len(rest) : rest[i] = o[i + 1]
  BY HeadTailProperties
<1>3. DOMAIN rest = 1 .. Len(o) - 1
  BY <1>2, LenProperties
<1>4. \A i \in DOMAIN rest : i + 1 \in DOMAIN o /\ rest[i] = o[i + 1]
  BY <1>1, <1>2, <1>3
<1>5. ASSUME NEW i \in DOMAIN o, i # 1 PROVE i - 1 \in DOMAIN rest /\ o[i] = rest[i - 1]
  <2>1. i - 1 \in 1 .. Len(rest) /\ (i - 1) + 1 = i
    BY <1>1, <1>2, <1>5
  <2>2. rest[i - 1] = o[(i - 1) + 1]
    BY <1>2, <2>1
  <2> QED BY <1>2, <1>3, <2>1, <2>2
<1>6. Named(rest) \subseteq Named(o) /\ o[1].at \in Named(o)
  <2>1. 1 \in DOMAIN o
    BY <1>1
  <2> QED BY <1>4, <2>1 DEF Named
<1> QED BY <1>1, <1>2, <1>3, <1>4, <1>5, <1>6 DEF Behind

\* A call keeps the texts, when it changes only messages that may change and
\* brings the text it is about.
LEMMA TelegramCalls ==
  ASSUME TypeOK, TypeOK', TelegramInv, ~ WeChat, NEW op, Calling(op),
         outbox' = Tail(outbox), stage' = stage,
         Len(chat) <= Len(chat'), sink'.bubble \in 0 .. Len(chat'),
         \A i \in 1 .. Len(chat) :
           i \notin Moving => i # sink'.bubble /\ chat'[i] = chat[i],
         ~ hidden' => ~ hidden,
         (~ hidden' /\ outbox[1].op \in {"send", "final"}
            /\ Trim(outbox[1].text) # <<>>) =>
           Holds(chat', Moving', outbox[1].text)
  PROVE  TelegramInv'
<1>1. /\ outbox \in Seq(Calls) /\ outbox # <<>>
      /\ UNCHANGED <<route, spoken, segments, last, parts>>
      /\ stage \in {"reading", "closing"}
  BY CallingTypes DEF Calling, fixed, pipeVars
<1>2. PICK o : o = outbox
  OBVIOUS
<1>3. PICK rest : rest = outbox'
  OBVIOUS
<1>4. /\ rest \in Seq(Calls) /\ Len(o) \in Nat /\ Len(o) > 0
      /\ DOMAIN o = 1 .. Len(o) /\ DOMAIN rest = 1 .. Len(o) - 1
      /\ \A i \in DOMAIN rest : i + 1 \in DOMAIN o /\ rest[i] = o[i + 1]
      /\ \A i \in DOMAIN o : i = 1 \/ (i - 1 \in DOMAIN rest /\ o[i] = rest[i - 1])
      /\ Named(rest) \subseteq Named(o) /\ o[1].at \in Named(o)
  <2>1. o \in Seq(Calls) /\ o # <<>> /\ rest = Tail(o)
    BY <1>1, <1>2, <1>3
  <2>2. Behind(o, rest)
    BY <2>1, RestOfCalls
  <2> QED BY <2>2 DEF Behind
<1>5. (Streaming' <=> Streaming) /\ (WeChat' <=> WeChat)
  BY <1>1, SameRoute
<1>6. PlainReply' = PlainReply
  BY <1>1, <1>5 DEF PlainReply, Answer, Silent
<1>7. Due' = Due
  BY <1>1, <1>5, <1>6 DEF Due
<1>8. Places /\ Kept
  BY DEF TelegramInv
<1>9. chat \in Seq(Text) /\ chat' \in Seq(Text) /\ Len(chat) \in Nat /\ Len(chat') \in Nat
  <2>1. chat \in Seq(Text) /\ chat' \in Seq(Text)
    BY DEF TypeOK, ChatOK
  <2> QED BY <2>1, LenProperties
<1>10. Places'
  <2>1. ASSUME NEW i \in DOMAIN rest
        PROVE  rest[i].at \in 0 .. Len(chat') /\ rest[i].op # "final"
    <3>1. i + 1 \in DOMAIN o /\ rest[i] = o[i + 1]
      BY <1>4
    <3>2. /\ o[i + 1].at \in 0 .. Len(chat)
          /\ o[i + 1].op = "final" => Len(o) = 1
      BY <1>2, <1>8, <3>1 DEF Places
    <3>3. Len(o) # 1
      BY <1>4
    <3> QED BY <1>9, <3>1, <3>2, <3>3
  <2> QED BY <1>3, <2>1 DEF Places
<1>11. Kept'
  <2> SUFFICES ASSUME ~ hidden', NEW t \in Due
               PROVE  Holds(chat', Moving', t) \/ Coming(rest, t)
    BY <1>3, <1>7 DEF Kept
  <2>1. Holds(chat, Moving, t) \/ Coming(o, t)
    BY <1>1, <1>2, <1>8 DEF Kept
  <2>2. CASE Holds(chat, Moving, t)
    <3>1. Moving' \subseteq {sink'.bubble} \cup Moving
      BY <1>2, <1>3, <1>4 DEF Moving
    <3>2. PICK c : c = chat
      OBVIOUS
    <3>3. PICK d : d = chat'
      OBVIOUS
    <3>4. PICK mv : mv = Moving
      OBVIOUS
    <3>5. PICK nv : nv = Moving'
      OBVIOUS
    <3>6. /\ c \in Seq(Text) /\ d \in Seq(Text) /\ Len(c) <= Len(d) /\ Holds(c, mv, t)
          /\ \A i \in 1 .. Len(c) : i \notin mv => i \notin nv /\ d[i] = c[i]
      BY <1>9, <2>2, <3>1, <3>2, <3>3, <3>4, <3>5
    <3>7. Holds(d, nv, t)
      BY <3>6, HoldsOn
    <3> QED BY <3>3, <3>5, <3>7
  <2>3. CASE Coming(o, t)
    <3>1. PICK i \in DOMAIN o : o[i].op \in {"send", "final"} /\ o[i].text = t
      BY <2>3 DEF Coming
    <3>2. CASE i = 1
      <4>1. Trim(t) # <<>>
        BY DEF Due, Inked
      <4> QED BY <1>2, <3>1, <3>2, <4>1
    <3>3. CASE i # 1
      <4>1. i - 1 \in DOMAIN rest /\ o[i] = rest[i - 1]
        BY <1>4, <3>3
      <4> QED BY <3>1, <4>1 DEF Coming
    <3> QED BY <3>2, <3>3
  <2> QED BY <2>1, <2>2, <2>3
<1>12. stage' # "ok"
  BY <1>1
<1> QED BY <1>10, <1>11, <1>12 DEF TelegramInv

\* Pieces that tear no character are the text.
LEMMA SplitBytesSays ==
  ASSUME NEW c, NEW t \in Text, CutsBytes(c, t, 1), Torn \notin Range(c)
  PROVE  c \in Seq(Text) /\ FlattenSeq(c) = t
<1>1. c \in Seq(Text) /\ FlattenSeq(c) = SubSeq(t, 1, Len(t))
  BY DEF CutsBytes
<1>2. SubSeq(t, 1, Len(t)) = t
  BY SubSeqFull DEF Text
<1> QED BY <1>1, <1>2

\* A text that is sent in pieces.
LEMMA TelegramSends ==
  ASSUME TypeOK, TypeOK', TelegramInv, SendTelegram
  PROVE  TelegramInv'
<1>1. ~ WeChat /\ Calling("send") /\ UNCHANGED <<sink, hidden>>
  BY DEF SendTelegram
<1>2. /\ outbox[1].text \in Text /\ outbox \in Seq(Calls) /\ outbox # <<>>
  BY <1>1, CallingTypes
<1>3. PICK pieces : pieces = SplitBytes(Prefix \o outbox[1].text)
  OBVIOUS
<1>4. Prefix \o outbox[1].text \in Text
  BY <1>2, TextsAreTexts, TextConcat
<1>5. CutsBytes(pieces, Prefix \o outbox[1].text, 1)
  BY <1>3, <1>4, SplitBytesKeepsText
<1>6. chat \in Seq(Text) /\ Len(chat) \in Nat /\ sink \in Sinks
  BY LenProperties DEF TypeOK, ChatOK, SinkOK
<1>7. CASE Torn \in Range(pieces)
  <2>1. stage' = "panicked" /\ outbox' = <<>> /\ UNCHANGED chat
    BY <1>3, <1>7 DEF SendTelegram
  <2>2. Places'
    BY <1>1, <2>1 DEF TelegramInv, Places
  <2> QED BY <2>1, <2>2, TelegramFails
<1>8. CASE Torn \notin Range(pieces)
  <2>1. PICK n \in 0 .. Len(pieces) :
          /\ Sent(pieces, n)
          /\ IF n = Len(pieces) THEN outbox' = Tail(outbox) /\ UNCHANGED stage
             ELSE outbox' = <<>> /\ stage' = "error"
    BY <1>3, <1>8 DEF SendTelegram
  <2>2. pieces \in Seq(Text) /\ FlattenSeq(pieces) = Prefix \o outbox[1].text
    <3>1. PICK t : t = Prefix \o outbox[1].text
      OBVIOUS
    <3>2. t \in Text /\ CutsBytes(pieces, t, 1)
      BY <1>4, <1>5, <3>1
    <3>3. pieces \in Seq(Text) /\ FlattenSeq(pieces) = t
      BY <1>8, <3>2, SplitBytesSays
    <3> QED BY <3>1, <3>3
  <2>3. /\ SubSeq(pieces, 1, n) \in Seq(Text) /\ chat' = chat \o SubSeq(pieces, 1, n)
        /\ Len(SubSeq(pieces, 1, n)) = n
    BY <2>1, <2>2, SentTypes DEF Sent
  <2>4. Len(chat') = Len(chat) + n /\ n \in Nat
        /\ \A i \in 1 .. Len(chat) : chat'[i] = chat[i]
    <3>1. PICK p : p = SubSeq(pieces, 1, n)
      OBVIOUS
    <3>2. PICK d : d = chat \o p
      OBVIOUS
    <3>3. /\ p \in Seq(Text) /\ Len(p) = n /\ Len(d) = Len(chat) + Len(p)
          /\ \A i \in 1 .. Len(chat) + Len(p) :
               d[i] = IF i <= Len(chat) THEN chat[i] ELSE p[i - Len(chat)]
      BY <1>6, <2>3, <3>1, <3>2, ConcatProperties
    <3>4. \A i \in 1 .. Len(chat) : d[i] = chat[i]
      BY <1>6, <3>3
    <3> QED BY <2>3, <3>1, <3>2, <3>3, <3>4
  <2>5. sink.bubble \in 0 .. Len(chat)
    BY <1>1 DEF TelegramInv, Places
  <2>6. CASE n # Len(pieces)
    <3>1. outbox' = <<>> /\ stage' = "error"
      BY <2>1, <2>6
    <3>2. sink'.bubble \in 0 .. Len(chat')
      BY <1>1, <1>6, <2>4, <2>5
    <3>3. Places'
      BY <3>1, <3>2 DEF Places
    <3> QED BY <3>1, <3>3, TelegramFails
  <2>7. CASE n = Len(pieces)
    <3>1. outbox' = Tail(outbox) /\ stage' = stage
      BY <2>1, <2>7
    <3>2. chat' = chat \o pieces
      <4>1. SubSeq(pieces, 1, Len(pieces)) = pieces
        BY <2>2, SubSeqFull
      <4> QED BY <2>3, <2>7, <4>1
    <3>3. PICK mv : mv = Moving'
      OBVIOUS
    <3>4. \A i \in mv : i \in 0 .. Len(chat)
      <4>1. Named(outbox') \subseteq Named(outbox)
        <5>1. PICK o : o = outbox
          OBVIOUS
        <5>2. PICK rest : rest = outbox'
          OBVIOUS
        <5>3. o \in Seq(Calls) /\ o # <<>> /\ rest = Tail(o)
          BY <1>2, <3>1, <5>1, <5>2
        <5>4. Named(rest) \subseteq Named(o)
          BY <5>3, RestOfCalls DEF Behind
        <5> QED BY <5>1, <5>2, <5>4
      <4>2. \A i \in Named(outbox) : i \in 0 .. Len(chat)
        BY <1>1 DEF TelegramInv, Places, Named
      <4> QED BY <1>1, <2>5, <3>3, <4>1, <4>2 DEF Moving
    <3>5. Holds(chat', mv, outbox[1].text)
      <4>1. PICK c : c = chat
        OBVIOUS
      <4>2. PICK t : t = outbox[1].text
        OBVIOUS
      <4>3. \A i \in mv : i \notin Len(c) + 1 .. Len(c) + Len(pieces)
        BY <1>6, <3>4, <4>1
      <4>4. c \in Seq(Text) /\ pieces \in Seq(Text) /\ FlattenSeq(pieces) = Prefix \o t
        BY <1>6, <2>2, <4>1, <4>2
      <4>5. Holds(c \o pieces, mv, t)
        BY <4>3, <4>4, HoldsNew
      <4> QED BY <3>2, <4>1, <4>2, <4>5
    <3>6. \A i \in 1 .. Len(chat) :
            i \notin Moving => i # sink'.bubble /\ chat'[i] = chat[i]
      BY <1>1, <2>4 DEF Moving
    <3>7. Len(chat) <= Len(chat') /\ sink'.bubble \in 0 .. Len(chat')
      BY <1>1, <1>6, <2>4, <2>5
    <3> QED BY <1>1, <3>1, <3>3, <3>5, <3>6, <3>7, TelegramCalls
  <2> QED BY <2>6, <2>7
<1> QED BY <1>7, <1>8

\* A placeholder, and a change of a message.
LEMMA TelegramChanges ==
  ASSUME TypeOK, TypeOK', TelegramInv, ~ WeChat, Place \/ Change
  PROVE  TelegramInv'
<1>1. chat \in Seq(Text) /\ Len(chat) \in Nat /\ sink \in Sinks /\ hidden \in BOOLEAN
  BY LenProperties DEF TypeOK, ChatOK, SinkOK
<1>2. Places
  BY DEF TelegramInv
<1>3. sink.bubble \in 0 .. Len(chat) /\ sink.bubble \in Moving
  BY <1>2 DEF Places, Moving
<1>4. CASE Place
  <2>1. /\ Calling("place") /\ outbox[1].op = "place" /\ outbox' = Tail(outbox)
        /\ UNCHANGED <<stage, hidden>>
    BY <1>4 DEF Place, Calling
  <2>2. CASE UNCHANGED <<chat, sink>>
    <3>1. \A i \in 1 .. Len(chat) :
            i \notin Moving => i # sink'.bubble /\ chat'[i] = chat[i]
      BY <1>3, <2>2
    <3> QED BY <1>1, <1>3, <2>1, <2>2, <3>1, TelegramCalls
  <2>3. CASE chat' = Append(chat, Placeholder) /\ sink' = [sink EXCEPT !.bubble = Len(chat) + 1]
    <3>1. /\ Len(chat') = Len(chat) + 1
          /\ \A i \in 1 .. Len(chat) : chat'[i] = chat[i]
      BY <1>1, <2>3, TextsAreTexts, AppendProperties
    <3>2. sink'.bubble = Len(chat) + 1
      <4>1. sink = [seen |-> sink.seen, buffer |-> sink.buffer, sent |-> sink.sent,
                    failed |-> sink.failed, bubble |-> sink.bubble]
        BY <1>1, SinkFields
      <4>2. sink' = [seen |-> sink.seen, buffer |-> sink.buffer, sent |-> sink.sent,
                     failed |-> sink.failed, bubble |-> Len(chat) + 1]
        BY <2>3, <4>1
      <4> QED BY <4>2
    <3>3. \A i \in 1 .. Len(chat) :
            i \notin Moving => i # sink'.bubble /\ chat'[i] = chat[i]
      BY <1>1, <3>1, <3>2
    <3>4. Len(chat) <= Len(chat') /\ sink'.bubble \in 0 .. Len(chat')
      BY <1>1, <3>1, <3>2
    <3> QED BY <2>1, <3>3, <3>4, TelegramCalls
  <2> QED BY <1>4, <2>2, <2>3 DEF Place
<1>5. CASE Change
  <2>1. PICK op \in {"edit", "final", "delete"} : Calling(op)
    BY <1>5 DEF Change
  <2>2. /\ outbox[1].op = op /\ outbox' = Tail(outbox) /\ UNCHANGED <<sink, stage>>
        /\ \/ /\ chat' = [chat EXCEPT ![outbox[1].at] =
                            IF outbox[1].op = "delete" THEN <<>>
                            ELSE EditBody(outbox[1].text)]
              /\ hidden' = hidden
           \/ chat' = chat /\ hidden' = (hidden \/ outbox[1].op = "final")
    BY <1>5, <2>1 DEF Change, Calling
  <2>3. /\ outbox[1].text \in Text /\ outbox \in Seq(Calls) /\ outbox # <<>>
    BY <2>1, CallingTypes
  <2>4. PICK k : k = outbox[1].at
    OBVIOUS
  <2>5. 1 \in DOMAIN outbox /\ DOMAIN outbox = 1 .. Len(outbox) /\ k \in Moving
    <3>1. PICK o : o = outbox
      OBVIOUS
    <3>2. PICK rest : rest = Tail(o)
      OBVIOUS
    <3>3. o \in Seq(Calls) /\ o # <<>>
      BY <2>3, <3>1
    <3>4. /\ Len(o) \in Nat /\ Len(o) > 0 /\ DOMAIN o = 1 .. Len(o) /\ o[1].at \in Named(o)
      BY <3>2, <3>3, RestOfCalls DEF Behind
    <3> QED BY <2>4, <3>1, <3>4 DEF Moving
  <2>6. CASE chat' = chat /\ hidden' = (hidden \/ outbox[1].op = "final")
    <3>1. \A i \in 1 .. Len(chat) :
            i \notin Moving => i # sink'.bubble /\ chat'[i] = chat[i]
      BY <1>3, <2>2, <2>6
    <3>2. ~ hidden' => ~ hidden /\ outbox[1].op \notin {"send", "final"}
      BY <2>2, <2>6
    <3>3. Len(chat) <= Len(chat') /\ sink'.bubble \in 0 .. Len(chat')
      BY <1>1, <1>3, <2>2, <2>6
    <3> QED BY <2>1, <2>2, <3>1, <3>2, <3>3, TelegramCalls
  <2>7. CASE /\ chat' = [chat EXCEPT ![outbox[1].at] =
                            IF outbox[1].op = "delete" THEN <<>>
                            ELSE EditBody(outbox[1].text)]
             /\ hidden' = hidden
    <3>0. PICK t : t = IF outbox[1].op = "delete" THEN <<>>
                       ELSE EditBody(outbox[1].text)
      OBVIOUS
    <3>1. /\ t \in Text
          /\ (outbox[1].op = "final" /\ Trim(outbox[1].text) # <<>>) => t = outbox[1].text
      BY <2>3, <3>0, TextsAreTexts DEF EditBody
    <3>2. PICK d : d = [chat EXCEPT ![k] = t]
      OBVIOUS
    <3>3. /\ d \in Seq(Text) /\ Len(d) = Len(chat)
          /\ \A i \in 1 .. Len(chat) : d[i] = IF i = k THEN t ELSE chat[i]
      BY <1>1, <3>1, <3>2, MessageChanges
    <3>4. chat' = d
      BY <2>4, <2>7, <3>0, <3>2
    <3>5. \A i \in 1 .. Len(chat) :
            i \notin Moving => i # sink'.bubble /\ chat'[i] = chat[i]
      BY <1>3, <2>2, <2>5, <3>3, <3>4
    <3>6. Len(chat) <= Len(chat') /\ sink'.bubble \in 0 .. Len(chat')
      BY <1>1, <1>3, <2>2, <3>3, <3>4
    <3>7. (outbox[1].op \in {"send", "final"} /\ Trim(outbox[1].text) # <<>>) =>
            Holds(chat', Moving', outbox[1].text)
      <4> SUFFICES ASSUME outbox[1].op \in {"send", "final"}, Trim(outbox[1].text) # <<>>
                   PROVE  Holds(chat', Moving', outbox[1].text)
        OBVIOUS
      <4>1. Len(outbox) = 1 /\ sink.bubble = 0 /\ k # 0 /\ k \in 0 .. Len(chat)
        <5>1. outbox[1].op = "final"
          BY <2>1, <2>2
        <5> QED BY <1>2, <2>4, <2>5, <5>1 DEF Places
      <4>2. k \in 1 .. Len(d) /\ d[k] = t /\ t \in Text
        BY <1>1, <3>1, <3>3, <4>1
      <4>3. PICK mv : mv = Moving'
        OBVIOUS
      <4>4. k \notin mv
        <5>1. DOMAIN outbox' = {}
          <6>1. PICK o : o = outbox
            OBVIOUS
          <6>2. PICK rest : rest = Tail(o)
            OBVIOUS
          <6>3. o \in Seq(Calls) /\ o # <<>> /\ Len(o) = 1
            BY <2>3, <4>1, <6>1
          <6>4. DOMAIN rest = 1 .. Len(o) - 1
            BY <6>2, <6>3, RestOfCalls
          <6>5. DOMAIN rest = {}
            BY <6>3, <6>4
          <6> QED BY <2>2, <6>1, <6>2, <6>5
        <5>2. Named(outbox') = {}
          BY <5>1 DEF Named
        <5> QED BY <2>2, <4>1, <4>3, <5>2 DEF Moving
      <4>5. Holds(d, mv, t)
        BY <3>3, <4>2, <4>4, HoldsOne
      <4>6. outbox[1].op = "final"
        BY <2>1, <2>2
      <4> QED BY <3>1, <3>4, <4>3, <4>5, <4>6
    <3> QED BY <2>1, <2>2, <2>7, <3>5, <3>6, <3>7, TelegramCalls
  <2> QED BY <2>2, <2>6, <2>7
<1> QED BY <1>4, <1>5

\* A reply starts with nothing to keep.
LEMMA TelegramStarts ==
  ASSUME Init
  PROVE  TelegramInv
<1>1. /\ sink.bubble = 0 /\ outbox = <<>> /\ chat = <<>> /\ stage = "reading"
      /\ spoken = <<>>
  BY DEF Init, EmptySink
<1>2. Range(spoken) = {}
  BY <1>1 DEF Range
<1>3. Due = {}
  BY <1>1, <1>2 DEF Due, Inked
<1>4. Places
  BY <1>1 DEF Places
<1> QED BY <1>1, <1>3, <1>4 DEF TelegramInv, Kept

\* Every step of a reply of Telegram keeps the texts.
LEMMA TelegramNext ==
  ASSUME TypeOK, TypeOK', TelegramInv, ~ WeChat, Next
  PROVE  TelegramInv'
<1>1. CASE Backend
  <2>1. UNCHANGED <<fixed, pipeVars, sinkVars, chatVars, stage>>
    BY <1>1, BackendFrame
  <2>2. /\ UNCHANGED <<route, spoken, segments, last, parts, sink, outbox, chat, hidden>>
        /\ stage' = stage
    BY <2>1 DEF fixed, pipeVars, sinkVars, chatVars
  <2> QED BY <2>2, TelegramStays
<1>2. CASE TakeAnnounced \/ TakeDelta \/ TakeCompleted \/ TakeFailed \/ TakeError
  BY <1>2, TelegramTakes
<1>3. CASE AgentPanics
  <2>1. stage' = "panicked" /\ UNCHANGED <<sink, outbox, chat>>
    BY <1>3 DEF AgentPanics, sinkVars, chatVars
  <2>2. Places'
    BY <2>1 DEF TelegramInv, Places
  <2> QED BY <2>1, <2>2, TelegramFails
<1>4. CASE StreamOver
  BY <1>4, TelegramOver
<1>5. CASE FinishWeChat \/ FinishTelegram
  BY <1>5, TelegramEnds DEF FinishWeChat
<1>6. CASE SendWeChat \/ SendTelegram
  BY <1>6, TelegramSends DEF SendWeChat
<1>7. CASE Place \/ Change
  BY <1>7, TelegramChanges
<1> QED BY <1>1, <1>2, <1>3, <1>4, <1>5, <1>6, <1>7, NextActs

\* The texts of a reply of Telegram stay.
LEMMA TelegramAlways ==
  ASSUME TypeOK, TypeOK', TelegramInv, [Next]_vars
  PROVE  TelegramInv'
<1>1. route' = route
  BY FixedStays DEF fixed
<1>2. WeChat' <=> WeChat
  BY <1>1, SameRoute
<1>3. CASE WeChat
  BY <1>2, <1>3 DEF TelegramInv
<1>4. CASE UNCHANGED vars
  <2>1. /\ UNCHANGED <<route, spoken, segments, last, parts, sink, outbox, chat, hidden>>
        /\ stage' = stage
    BY <1>4 DEF vars
  <2> QED BY <2>1, TelegramStays
<1>5. CASE ~ WeChat /\ Next
  BY <1>5, TelegramNext
<1> QED BY <1>3, <1>4, <1>5

\* What the parts of process_native rely on: an event with a text counts as
\* content.
Shows(e) == e.kind \in {"completed", "failed"} /\ e.text # <<>> => e.content

\* The events of a turn that goes on do not count as content, but for HTTP and echo.
Unseen(c) == source \in {"cli", "codex"} => \A e \in Range(c) : ~ e.content

\* What a backend yields: one event or none at all, but for the echo.
Tells(c) ==
  /\ source \in {"http", "echo"} => \A e \in Range(c) : Shows(e)
  /\ source = "cli" => Len(c) <= 1
  /\ source = "codex" => Len(c) <= 1 /\ \A e \in Range(c) : e.kind = "completed"

\* One event is all of its stream.
LEMMA OneTold ==
  ASSUME NEW e
  PROVE  Len(<<e>>) = 1 /\ Range(<<e>>) = {e}
BY DEF Range

\* The HTTP backend tells its messages with their content, and asks nothing.
LEMMA HttpYields ==
  ASSUME TypeOK, HttpActs
  PROVE  /\ source = "http" /\ ~ agent.over /\ ~ agent.asking
         /\ agent'.asking = agent.asking /\ agent'.asked = agent.asked
         /\ \A e \in Range(coming') : Shows(e)
<1>1. agent = [open |-> agent.open, over |-> agent.over,
               asking |-> agent.asking, asked |-> agent.asked, n |-> agent.n]
  <2>1. agent \in Agents
    BY DEF TypeOK, AgentOK
  <2> QED BY <2>1, AgentFields
<1>2. ASSUME NEW kind, NEW id, NEW m \in Messages,
             coming' = <<Event(kind, id, m.text, m.content)>>
      PROVE  \A e \in Range(coming') : Shows(e)
  <2>1. m.text # <<>> => m.content
    BY <1>2 DEF Messages
  <2>2. Range(coming') = {Event(kind, id, m.text, m.content)}
    BY <1>2, OneTold
  <2> QED BY <2>1, <2>2 DEF Event, Shows
<1>3. source = "http" /\ ~ agent.over /\ ~ agent.asking /\ coming = <<>>
  <2>1. Talks("http") \/ StreamEnds("http")
    BY Zenon DEF HttpActs, HttpAnnounces, HttpStreams, HttpCompletes, HttpSpeaks,
      HttpFails, HttpEnds
  <2> QED BY <2>1 DEF Talks, StreamEnds, Polled
<1>4. CASE HttpAnnounces
  <2>1. PICK id :
          /\ agent' = Counted([agent EXCEPT !.open = @ \cup {id}])
          /\ coming' = <<Event("announced", id, <<>>, FALSE)>>
    BY <1>4 DEF HttpAnnounces, Yield
  <2>2. agent'.asking = agent.asking /\ agent'.asked = agent.asked
    BY <1>1, <2>1 DEF Counted
  <2>3. Range(coming') = {Event("announced", id, <<>>, FALSE)}
    BY <2>1, OneTold
  <2> QED BY <1>3, <2>2, <2>3 DEF Event, Shows
<1>5. CASE HttpStreams
  <2>1. agent' = Counted(agent)
    BY <1>5 DEF HttpStreams
  <2>2. PICK id, t : coming' = <<Event("delta", id, t, FALSE)>>
    BY <1>5 DEF HttpStreams, Yield
  <2>3. agent'.asking = agent.asking /\ agent'.asked = agent.asked
    BY <1>1, <2>1 DEF Counted
  <2>4. Range(coming') = {Event("delta", id, t, FALSE)}
    BY <2>2, OneTold
  <2> QED BY <1>3, <2>3, <2>4 DEF Event, Shows
<1>6. CASE HttpCompletes
  <2>1. PICK id \in agent.open, kind \in {"completed", "failed"}, m \in Messages :
          /\ agent' = Counted([agent EXCEPT !.open = @ \ {id}])
          /\ coming' = <<Event(kind, id, m.text, m.content)>>
    BY <1>6, Zenon DEF HttpCompletes, Yield
  <2>2. agent'.asking = agent.asking /\ agent'.asked = agent.asked
    BY <1>1, <2>1 DEF Counted
  <2> QED BY <1>2, <1>3, <2>1, <2>2
<1>7. CASE HttpSpeaks
  <2>1. agent' = Counted(agent)
    BY <1>7 DEF HttpSpeaks
  <2>2. PICK kind \in {"completed", "failed"}, m \in Messages :
          coming' = <<Event(kind, Fresh, m.text, m.content)>>
    BY <1>7, Zenon DEF HttpSpeaks, Yield
  <2>3. agent'.asking = agent.asking /\ agent'.asked = agent.asked
    BY <1>1, <2>1 DEF Counted
  <2> QED BY <1>2, <1>3, <2>2, <2>3
<1>8. CASE HttpFails
  <2>1. agent' = Counted(agent) /\ coming' = <<Event("error", Fresh, <<>>, FALSE)>>
    BY <1>8 DEF HttpFails, Yield
  <2>2. agent'.asking = agent.asking /\ agent'.asked = agent.asked
    BY <1>1, <2>1 DEF Counted
  <2>3. Range(coming') = {Event("error", Fresh, <<>>, FALSE)}
    BY <2>1, OneTold
  <2> QED BY <1>3, <2>2, <2>3 DEF Event, Shows
<1>9. CASE HttpEnds
  <2>1. agent' = [agent EXCEPT !.over = TRUE] /\ coming' = <<>>
    BY <1>3, <1>9 DEF HttpEnds, StreamEnds
  <2>2. agent'.asking = agent.asking /\ agent'.asked = agent.asked
    BY <1>1, <2>1
  <2>3. Range(coming') = {}
    BY <2>1 DEF Range
  <2> QED BY <1>3, <2>2, <2>3
<1> QED BY <1>4, <1>5, <1>6, <1>7, <1>8, <1>9 DEF HttpActs

\* A turn of Codex that asks, and one that is not asked any more.
Asking == source = "codex" /\ ~ agent.over /\ agent'.asking /\ agent'.asked
          /\ coming' = <<Event("completed", Fresh, Question, TRUE)>>
Answered == agent.asking /\ ~ agent'.asking /\ agent'.asked = agent.asked
            /\ (coming' = <<>> \/ coming' = <<Event("completed", Fresh, TimedOut, TRUE)>>)
Talking == ~ agent.over /\ ~ agent.asking /\ ~ agent'.asking /\ agent'.asked = agent.asked
           /\ Tells(coming') /\ (agent'.over \/ Unseen(coming'))

\* A backend talks, asks or is answered.
LEMMA BackendYields ==
  ASSUME TypeOK, Backend
  PROVE  Talking \/ Asking \/ Answered
<1>1. /\ agent.asking \in BOOLEAN /\ agent.asked \in BOOLEAN
      /\ agent = [open |-> agent.open, over |-> agent.over,
                  asking |-> agent.asking, asked |-> agent.asked, n |-> agent.n]
  <2>1. agent \in Agents
    BY DEF TypeOK, AgentOK
  <2> QED BY <2>1, AgentFields
<1>3. coming = <<>> /\ Range(<<>>) = {} /\ Len(<<>>) = 0
  BY BackendFrame DEF Range
<1>4. CASE HttpActs
  BY <1>4, HttpYields DEF Talking, Tells, Unseen
<1>5. CASE CodexSpeaks
  <2>1. PICK t \in Texts, notice \in BOOLEAN :
          /\ agent' = Counted([agent EXCEPT !.over = notice])
          /\ coming' = <<Event("completed", Fresh, t, notice)>>
    BY <1>5 DEF CodexSpeaks, Yield
  <2>2. /\ agent'.asking = agent.asking /\ agent'.asked = agent.asked
        /\ agent'.over = notice
    BY <1>1, <2>1 DEF Counted
  <2>3. Range(coming') = {Event("completed", Fresh, t, notice)} /\ Len(coming') = 1
    BY <2>1, OneTold
  <2>4. source = "codex" /\ ~ agent.over /\ ~ agent.asking
    BY <1>5 DEF CodexSpeaks, Talks, Polled
  <2>5. Tells(coming')
    BY <2>3, <2>4 DEF Tells, Event
  <2>6. notice \/ Unseen(coming')
    BY <2>3 DEF Event, Unseen
  <2> QED BY <2>2, <2>4, <2>5, <2>6 DEF Talking
<1>6. CASE CodexAsks
  <2>1. agent' = Counted([agent EXCEPT !.asking = TRUE, !.asked = TRUE])
    BY <1>6 DEF CodexAsks
  <2>2. agent'.asking /\ agent'.asked
    BY <1>1, <2>1 DEF Counted
  <2>3. /\ source = "codex" /\ ~ agent.over
        /\ coming' = <<Event("completed", Fresh, Question, TRUE)>>
    BY <1>6 DEF CodexAsks, Talks, Polled, Yield
  <2> QED BY <2>2, <2>3 DEF Asking
<1>7. CASE AnswerOrDeadline
  <2>1. \/ agent' = [agent EXCEPT !.asking = FALSE] /\ coming' = <<>>
        \/ /\ agent' = [agent EXCEPT !.asking = FALSE, !.over = TRUE]
           /\ coming' = <<Event("completed", Fresh, TimedOut, TRUE)>>
    BY <1>3, <1>7 DEF AnswerOrDeadline, Yield
  <2>2. ~ agent'.asking /\ agent'.asked = agent.asked
    BY <1>1, <2>1
  <2>3. agent.asking
    BY <1>7 DEF AnswerOrDeadline, Waits
  <2> QED BY <2>1, <2>2, <2>3 DEF Answered
<1>8. CASE CodexEnds
  <2>1. agent' = [agent EXCEPT !.over = TRUE] /\ coming' = <<>>
    BY <1>3, <1>8 DEF CodexEnds, StreamEnds
  <2>2. agent'.asking = agent.asking /\ agent'.asked = agent.asked /\ agent'.over
    BY <1>1, <2>1
  <2>3. source = "codex" /\ ~ agent.over /\ ~ agent.asking
    BY <1>8 DEF CodexEnds, StreamEnds, Polled
  <2>4. Tells(coming')
    BY <1>3, <2>1, <2>3 DEF Tells
  <2> QED BY <2>2, <2>3, <2>4 DEF Talking
<1>9. ASSUME agent' = Counted([agent EXCEPT !.over = TRUE])
      PROVE  agent'.asking = agent.asking /\ agent'.asked = agent.asked /\ agent'.over
  BY <1>1, <1>9 DEF Counted
<1>10. CASE CliActs
  <2>1. CliAnswers
    BY <1>10 DEF CliActs, CliHelps, CliRefuses, CliPrints, CliTimesOut
  <2>2. /\ source = "cli" /\ ~ agent.over /\ ~ agent.asking
        /\ agent'.asking = agent.asking /\ agent'.asked = agent.asked /\ agent'.over
    BY <1>9, <2>1 DEF CliAnswers, Talks, Polled
  <2>3. coming' = <<>> \/ \E x : coming' = <<x>>
    <3>1. CASE CliHelps
      BY <3>1 DEF CliHelps, Yield
    <3>2. CASE CliRefuses
      BY <3>2 DEF CliRefuses, Yield
    <3>3. CASE CliPrints
      BY <3>3 DEF CliPrints, Yield
    <3>4. CASE CliTimesOut
      BY <3>4 DEF CliTimesOut, Yield
    <3> QED BY <1>10, <3>1, <3>2, <3>3, <3>4 DEF CliActs
  <2>4. CASE coming' = <<>>
    BY <1>3, <2>2, <2>4 DEF Talking, Tells
  <2>5. CASE coming' # <<>>
    <3>1. PICK x : coming' = <<x>>
      BY <2>3, <2>5
    <3>2. Len(coming') = 1
      BY <3>1, OneTold
    <3>3. Tells(coming')
      BY <2>2, <3>2 DEF Tells
    <3> QED BY <2>2, <3>3 DEF Talking
  <2> QED BY <2>4, <2>5
<1>11. CASE Echoes
  <2>1. PICK t \in Texts :
          coming' = <<Event("announced", NoId, <<>>, FALSE),
                      Event("completed", Fresh, t, TRUE)>>
    BY <1>11 DEF Echoes
  <2>2. /\ source = "echo" /\ ~ agent.over /\ ~ agent.asking
        /\ agent'.asking = agent.asking /\ agent'.asked = agent.asked /\ agent'.over
    BY <1>9, <1>11 DEF Echoes, Talks, Polled
  <2>3. ASSUME NEW a, NEW b PROVE Range(<<a, b>>) = {a, b}
    BY DEF Range
  <2>4. Range(coming') = {Event("announced", NoId, <<>>, FALSE),
                          Event("completed", Fresh, t, TRUE)}
    BY <2>1, <2>3
  <2>5. Tells(coming')
    BY <2>2, <2>4 DEF Tells, Event, Shows
  <2> QED BY <2>2, <2>5 DEF Talking
<1> QED BY <1>4, <1>5, <1>6, <1>7, <1>8, <1>10, <1>11 DEF Backend, CodexActs

\* What lets the parts of process_native stand for its text: none, an empty one,
\* or the text, as long as Codex has not asked.
PartsInv ==
  /\ agent.asking => agent.asked
  /\ Tells(coming)
  /\ ~ agent.asked /\ ~ Streaming =>
       /\ agent.over \/ Unseen(coming)
       /\ source \in {"cli", "codex"} /\ (~ agent.over \/ coming # <<>>) => parts = <<>>
       /\ parts \in {<<>>, <<<<>>>>, <<last>>}

\* The events behind the one that is taken.
LEMMA EventTaken ==
  ASSUME TypeOK, coming # <<>>, coming' = Tail(coming)
  PROVE  /\ coming[1] \in Range(coming)
         /\ Range(coming) = {coming[1]} \cup Range(coming')
         /\ Len(coming) <= 1 => coming' = <<>>
         /\ Len(coming') <= Len(coming) /\ Len(coming) \in Nat /\ Len(coming') \in Nat
<1>1. PICK c : c = coming
  OBVIOUS
<1>2. PICK rest : rest = coming'
  OBVIOUS
<1>3. c \in Seq(Events) /\ c # <<>> /\ rest = Tail(c)
  BY <1>1, <1>2 DEF TypeOK, AgentOK
<1>4. /\ rest \in Seq(Events) /\ Len(rest) = Len(c) - 1
      /\ \A i \in 1 .. Len(rest) : rest[i] = c[i + 1]
  BY <1>3, HeadTailProperties
<1>5. /\ Len(c) \in Nat /\ DOMAIN c = 1 .. Len(c) /\ DOMAIN rest = 1 .. Len(rest)
      /\ Len(rest) \in Nat
  BY <1>3, <1>4, LenProperties
<1>6. Len(c) > 0
  BY <1>4, <1>5
<1>7. c[1] \in Range(c)
  BY <1>5, <1>6 DEF Range
<1>8. Range(rest) \subseteq Range(c)
  <2>1. ASSUME NEW i \in DOMAIN rest PROVE rest[i] \in Range(c)
    <3>1. i + 1 \in DOMAIN c /\ rest[i] = c[i + 1]
      BY <1>4, <1>5
    <3> QED BY <3>1 DEF Range
  <2> QED BY <2>1 DEF Range
<1>9. Range(c) \subseteq {c[1]} \cup Range(rest)
  <2>1. ASSUME NEW i \in DOMAIN c, i # 1 PROVE c[i] \in Range(rest)
    <3>1. i - 1 \in 1 .. Len(rest) /\ (i - 1) + 1 = i
      BY <1>4, <1>5, <2>1
    <3>2. rest[i - 1] = c[(i - 1) + 1]
      BY <1>4, <3>1
    <3> QED BY <1>5, <3>1, <3>2 DEF Range
  <2> QED BY <2>1 DEF Range
<1>10. Len(c) <= 1 => rest = <<>>
  BY <1>4, <1>5, <1>6, EmptySeq
<1> QED BY <1>1, <1>2, <1>4, <1>5, <1>7, <1>8, <1>9, <1>10

\* A step that takes an event, or none, and leaves the parts alone.
LEMMA PartsStay ==
  ASSUME PartsInv, UNCHANGED <<route, source, agent, last, parts>>, coming' \in {coming, <<>>}
  PROVE  PartsInv'
<1>1. Range(<<>>) = {} /\ Len(<<>>) = 0
  BY DEF Range
<1>2. Tells(coming)' /\ (Unseen(coming) => Unseen(coming)')
  <2>1. CASE coming' = coming
    BY <2>1 DEF PartsInv, Tells, Unseen
  <2>2. CASE coming' = <<>>
    BY <1>1, <2>2 DEF Tells, Unseen
  <2> QED BY <2>1, <2>2
<1>3. Streaming' <=> Streaming
  BY SameRoute
<1> QED BY <1>2, <1>3 DEF PartsInv

\* An event that is taken, with what becomes of the text and the parts.
LEMMA PartsTaken ==
  ASSUME TypeOK, PartsInv, NEW kind, Taken(kind),
         \/ Streaming
         \/ UNCHANGED <<last, parts>>
         \/ /\ kind \in {"completed", "failed"}
            /\ last' = (IF coming[1].text = <<>> THEN last ELSE coming[1].text)
            /\ parts' = (IF coming[1].content THEN <<coming[1].text>> ELSE parts)
  PROVE  PartsInv'
<1>1. /\ coming # <<>> /\ coming' = Tail(coming) /\ UNCHANGED <<source, agent>>
      /\ coming[1].kind = kind /\ (Streaming' <=> Streaming)
  BY SameRoute DEF Taken, fixed
<1>2. PICK e : e = coming[1]
  OBVIOUS
<1>3. /\ e \in Range(coming) /\ Range(coming) = {e} \cup Range(coming')
      /\ Len(coming) <= 1 => coming' = <<>>
      /\ Len(coming') <= Len(coming) /\ Len(coming) \in Nat /\ Len(coming') \in Nat
  BY <1>1, <1>2, EventTaken
<1>4. Tells(coming)' /\ (Unseen(coming) => Unseen(coming)')
  <2>1. Tells(coming) => Tells(coming')
    BY <1>3 DEF Tells
  <2>2. Unseen(coming) => Unseen(coming')
    BY <1>3 DEF Unseen
  <2> QED BY <1>1, <2>1, <2>2 DEF PartsInv, Tells, Unseen
<1>5. CASE Streaming
  BY <1>1, <1>4, <1>5 DEF PartsInv
<1>6. CASE UNCHANGED <<last, parts>>
  <2>1. source \in {"cli", "codex"} => Len(coming) <= 1
    BY DEF PartsInv, Tells
  <2> QED BY <1>1, <1>3, <1>4, <1>6, <2>1 DEF PartsInv
<1>7. CASE /\ ~ Streaming /\ kind \in {"completed", "failed"}
           /\ last' = (IF e.text = <<>> THEN last ELSE e.text)
           /\ parts' = (IF e.content THEN <<e.text>> ELSE parts)
  <2>1. e.kind = kind
    BY <1>1, <1>2
  <2>2. SUFFICES ASSUME ~ agent.asked
                 PROVE  /\ source \in {"cli", "codex"} /\ (~ agent.over \/ coming' # <<>>)
                             => parts' = <<>>
                        /\ parts' \in {<<>>, <<<<>>>>, <<last'>>}
    BY <1>1, <1>4 DEF PartsInv
  <2>3. e.content => parts' \in {<<<<>>>>, <<last'>>}
    BY <1>7
  <2>4. CASE source \in {"cli", "codex"}
    <3>1. Len(coming) <= 1
      BY <1>3, <2>4 DEF PartsInv, Tells
    <3>2. parts = <<>> /\ coming' = <<>> /\ (agent.over \/ ~ e.content)
      BY <1>1, <1>3, <1>7, <2>2, <2>4, <3>1 DEF PartsInv, Unseen
    <3> QED BY <1>7, <2>3, <3>2
  <2>5. CASE source \in {"http", "echo"}
    <3>1. Shows(e)
      BY <1>3, <2>5 DEF PartsInv, Tells
    <3>2. parts \in {<<>>, <<<<>>>>, <<last>>}
      BY <1>7, <2>2 DEF PartsInv
    <3>3. ~ e.content => last' = last /\ parts' = parts
      BY <1>7, <2>1, <3>1 DEF Shows
    <3> QED BY <2>3, <2>5, <3>2, <3>3
  <2>6. source \in {"http", "codex", "cli", "echo"}
    <3>1. Sources \subseteq {"http", "codex", "cli", "echo"}
      BY ReplyAssumption, Zenon
    <3> QED BY <3>1 DEF TypeOK
  <2> QED BY <2>4, <2>5, <2>6
<1> QED BY <1>2, <1>5, <1>6, <1>7

\* Every step keeps what the parts stand for.
LEMMA PartsNext ==
  ASSUME TypeOK, PartsInv, [Next]_vars
  PROVE  PartsInv'
<1>1. CASE Backend
  <2>1. UNCHANGED <<source, last, parts>> /\ (Streaming' <=> Streaming)
    BY <1>1, BackendFrame, SameRoute DEF fixed, pipeVars
  <2>2. CASE Talking
    <3>1. Tells(coming)' /\ (agent'.over \/ Unseen(coming)')
      BY <2>1, <2>2 DEF Talking, Tells, Unseen
    <3>2. agent'.asking => agent'.asked
      BY <2>2 DEF Talking
    <3>3. ~ agent'.asked => ~ agent.asked /\ ~ agent.over
      BY <2>2 DEF Talking
    <3> QED BY <2>1, <3>1, <3>2, <3>3 DEF PartsInv
  <2>3. ASSUME NEW x, coming' = <<x>>, x.content, x.kind = "completed"
        PROVE  Tells(coming)'
    <3>1. Len(coming') = 1 /\ Range(coming') = {x}
      BY <2>3, OneTold
    <3> QED BY <2>3, <3>1 DEF Tells, Shows
  <2>4. CASE Asking
    <3>1. PICK x : x = Event("completed", Fresh, Question, TRUE)
      BY Zenon
    <3>2. coming' = <<x>> /\ x.content /\ x.kind = "completed"
      BY <2>4, <3>1 DEF Asking, Event
    <3>3. Tells(coming)' /\ agent'.asked
      BY <2>3, <2>4, <3>2 DEF Asking
    <3> QED BY <3>3 DEF PartsInv
  <2>5. CASE Answered
    <3>1. agent'.asked /\ ~ agent'.asking
      BY <2>5 DEF Answered, PartsInv
    <3>2. CASE coming' = <<>>
      <4>1. Tells(coming)'
        <5>1. Range(<<>>) = {} /\ Len(<<>>) = 0
          BY DEF Range
        <5> QED BY <3>2, <5>1 DEF Tells
      <4> QED BY <3>1, <4>1 DEF PartsInv
    <3>3. CASE coming' = <<Event("completed", Fresh, TimedOut, TRUE)>>
      <4>1. PICK x : x = Event("completed", Fresh, TimedOut, TRUE)
        BY Zenon
      <4>2. coming' = <<x>> /\ x.content /\ x.kind = "completed"
        BY <3>3, <4>1 DEF Event
      <4>3. Tells(coming)'
        BY <2>3, <4>2
      <4> QED BY <3>1, <4>3 DEF PartsInv
    <3> QED BY <2>5, <3>2, <3>3 DEF Answered
  <2> QED BY <1>1, <2>2, <2>4, <2>5, BackendYields
<1>2. CASE TakeAnnounced \/ TakeDelta \/ TakeError
  <2>1. UNCHANGED <<last, parts>>
    BY <1>2 DEF TakeAnnounced, TakeDelta, TakeError, pipeVars
  <2>2. Taken("announced") \/ Taken("delta") \/ Taken("error")
    BY <1>2 DEF TakeAnnounced, TakeDelta, TakeError
  <2> QED BY <2>1, <2>2, PartsTaken
<1>3. CASE TakeCompleted
  <2>1. Taken("completed")
    BY <1>3 DEF TakeCompleted
  <2>2. \/ Streaming
        \/ /\ last' = (IF coming[1].text = <<>> THEN last ELSE coming[1].text)
           /\ parts' = (IF coming[1].content THEN <<coming[1].text>> ELSE parts)
    BY <1>3 DEF TakeCompleted
  <2> QED BY <2>1, <2>2, PartsTaken
<1>4. CASE TakeFailed
  <2>1. Taken("failed")
    BY <1>4 DEF TakeFailed
  <2>2. \/ UNCHANGED <<last, parts>>
        \/ /\ last' = (IF coming[1].text = <<>> THEN last ELSE coming[1].text)
           /\ parts' = (IF coming[1].content THEN <<coming[1].text>> ELSE parts)
    BY <1>4 DEF TakeFailed
  <2> QED BY <2>1, <2>2, PartsTaken
<1>5. CASE UNCHANGED vars \/ StreamOver \/ AgentPanics \/ FinishWeChat \/ FinishTelegram
  <2>1. UNCHANGED <<route, source, agent, last, parts>> /\ coming' \in {coming, <<>>}
    BY <1>5 DEF vars, StreamOver, AgentPanics, FinishWeChat, FinishTelegram, Finish,
      fixed, agentVars, pipeVars
  <2> QED BY <2>1, PartsStay
<1>6. CASE SendWeChat \/ SendTelegram \/ Place \/ Change
  <2>1. \E op : Calling(op)
    BY <1>6 DEF SendWeChat, SendTelegram, Place, Change
  <2>2. UNCHANGED <<route, source, agent, last, parts>> /\ coming' \in {coming, <<>>}
    BY <2>1 DEF Calling, fixed, agentVars, pipeVars
  <2> QED BY <2>2, PartsStay
<1> QED BY <1>1, <1>2, <1>3, <1>4, <1>5, <1>6, NextActs

\* The texts of the events to come.
TextsToCome == {e.text : e \in Range(coming)}

\* A reply of Codex has no placeholders and no edits, and a question that waits
\* is spoken, or to come.
CodexInv ==
  ~ WeChat =>
    /\ source = "codex" =>
         /\ DOMAIN buffers = {} /\ sink.bubble = 0 /\ ~ hidden
         /\ \A i \in DOMAIN outbox : outbox[i].op = "send"
    /\ agent.asking =>
         /\ source = "codex"
         /\ Streaming /\ stage = "reading" => Question \in TextsToCome \cup Range(spoken)

\* A step of Codex that leaves the placeholder alone and makes only sends.
LEMMA CodexKeeps ==
  ASSUME CodexInv, source = "codex", UNCHANGED <<route, source, hidden>>,
         ~ WeChat => sink'.bubble = 0,
         ~ WeChat => DOMAIN buffers' = {},
         ~ WeChat => \A i \in DOMAIN outbox' : outbox'[i].op = "send",
         ~ WeChat /\ Streaming /\ agent'.asking /\ stage' = "reading" =>
           Question \in TextsToCome' \cup Range(spoken')
  PROVE  CodexInv'
<1>1. (Streaming' <=> Streaming) /\ (WeChat' <=> WeChat)
  BY SameRoute
<1> QED BY <1>1 DEF CodexInv

\* Codex only sends: the next call is no other.
LEMMA CodexSends ==
  ASSUME TypeOK, CodexInv, ~ WeChat, source = "codex", NEW op, Calling(op)
  PROVE  op = "send" /\ outbox # <<>>
         /\ \A i \in DOMAIN Tail(outbox) : Tail(outbox)[i].op = "send"
<1>1. outbox \in Seq(Calls) /\ outbox # <<>> /\ outbox[1].op = op
  BY CallingTypes DEF Calling
<1>2. PICK o : o = outbox
  OBVIOUS
<1>3. PICK rest : rest = Tail(o)
  OBVIOUS
<1>4. o \in Seq(Calls) /\ o # <<>> /\ o[1].op = op /\ \A i \in DOMAIN o : o[i].op = "send"
  BY <1>1, <1>2 DEF CodexInv
<1>5. Behind(o, rest)
  BY <1>3, <1>4, RestOfCalls
<1>6. 1 \in DOMAIN o /\ \A i \in DOMAIN rest : rest[i].op = "send"
  BY <1>4, <1>5 DEF Behind
<1> QED BY <1>1, <1>2, <1>3, <1>4, <1>6

\* A completed message of Codex is sent as it is.
LEMMA CodexCompletes ==
  ASSUME TypeOK, CodexInv, source = "codex", TakeCompleted
  PROVE  CodexInv'
<1>1. /\ coming # <<>> /\ coming' = Tail(coming) /\ outbox = <<>>
      /\ UNCHANGED <<route, source, agent, hidden, stage>> /\ stage = "reading"
      /\ Taken("completed")
  BY DEF TakeCompleted, Taken, fixed, chatVars
<1>2. PICK e : e = coming[1]
  OBVIOUS
<1>3. /\ e \in Range(coming) /\ Range(coming) = {e} \cup Range(coming')
      /\ e.text \in Text
  BY <1>1, <1>2, EventTaken, TakenTypes
<1>4. TextsToCome = {e.text} \cup TextsToCome'
  BY <1>3 DEF TextsToCome
<1>5. CASE WeChat
  BY <1>1, <1>5, SameRoute DEF CodexInv
<1>6. CASE ~ WeChat /\ ~ Streaming
  <2>1. UNCHANGED <<buffers, sink, outbox>>
    BY <1>6 DEF TakeCompleted, sinkVars
  <2> QED BY <1>1, <1>6, <2>1, CodexKeeps DEF CodexInv
<1>7. CASE ~ WeChat /\ Streaming
  <2>1. DOMAIN buffers = {} /\ sink.bubble = 0
    BY <1>7 DEF CodexInv
  <2>2. /\ buffers' = Without(buffers, e.id)
        /\ spoken' = IF e.text = <<>> THEN spoken ELSE Append(spoken, e.text)
        /\ Do(IF e.text = <<>> THEN Nothing ELSE OnStreamEnd(e.text))
    BY <1>2, <1>7, <2>1 DEF TakeCompleted
  <2>3. DOMAIN buffers' = {}
    BY <2>1, <2>2 DEF Without
  <2>4. CASE e.text = <<>>
    <3>1. sink' = sink /\ outbox' = <<>> /\ spoken' = spoken
      BY <2>2, <2>4 DEF Do, Nothing
    <3>2. Question # e.text
      BY <2>4 DEF Question
    <3>3. agent'.asking => Question \in TextsToCome' \cup Range(spoken')
      BY <1>1, <1>4, <1>7, <3>1, <3>2 DEF CodexInv
    <3> QED BY <1>1, <2>1, <2>3, <3>1, <3>3, CodexKeeps
  <2>5. CASE e.text # <<>>
    <3>1. sink' = sink /\ outbox' = <<Call("send", e.text, 0)>> /\ spoken' = Append(spoken, e.text)
      BY <1>7, <2>1, <2>2, <2>5 DEF Do, OnStreamEnd, TelegramEnd
    <3>2. \A i \in DOMAIN outbox' : outbox'[i].op = "send"
      BY <3>1 DEF Call
    <3>3. Range(spoken') = Range(spoken) \cup {e.text}
      BY <1>3, <3>1, RangeMore DEF TypeOK, PipeOK
    <3>4. agent'.asking => Question \in TextsToCome' \cup Range(spoken')
      BY <1>1, <1>4, <1>7, <3>3 DEF CodexInv
    <3> QED BY <1>1, <2>1, <2>3, <3>1, <3>2, <3>4, CodexKeeps
  <2> QED BY <2>4, <2>5
<1> QED BY <1>5, <1>6, <1>7

\* Every step of a reply of Codex keeps its question.
LEMMA CodexNext ==
  ASSUME TypeOK, PartsInv, CodexInv, source = "codex", ~ WeChat, Next
  PROVE  CodexInv'
<1>1. DOMAIN buffers = {} /\ sink.bubble = 0 /\ \A i \in DOMAIN outbox : outbox[i].op = "send"
  BY DEF CodexInv
<1>2. CASE Backend
  <2>1. UNCHANGED <<route, source, hidden, sink, outbox, buffers, spoken, stage>>
        /\ coming = <<>>
    BY <1>2, BackendFrame DEF fixed, pipeVars, sinkVars, chatVars
  <2>2. agent'.asking => Question \in TextsToCome'
    <3>1. CASE Asking
      <4>1. PICK x : x = Event("completed", Fresh, Question, TRUE)
        BY Zenon
      <4>2. coming' = <<x>> /\ x.text = Question
        BY <3>1, <4>1 DEF Asking, Event
      <4>3. Range(coming') = {x}
        BY <4>2, OneTold
      <4> QED BY <4>2, <4>3 DEF TextsToCome
    <3>2. CASE Talking \/ Answered
      BY <3>2 DEF Talking, Answered
    <3> QED BY <1>2, <3>1, <3>2, BackendYields
  <2> QED BY <1>1, <2>1, <2>2, CodexKeeps
<1>3. CASE TakeCompleted
  BY <1>3, CodexCompletes
<1>4. CASE TakeAnnounced \/ TakeDelta \/ TakeFailed \/ TakeError
  <2>1. coming # <<>> /\ coming[1].kind # "completed" /\ coming' = Tail(coming)
    BY <1>4 DEF TakeAnnounced, TakeDelta, TakeFailed, TakeError, Taken
  <2>2. coming[1] \in Range(coming)
    BY <2>1, EventTaken
  <2> QED BY <2>1, <2>2 DEF PartsInv, Tells
<1>5. CASE AgentPanics
  <2>1. UNCHANGED <<route, source, hidden, sink, outbox, buffers>> /\ stage' = "panicked"
    BY <1>5 DEF AgentPanics, fixed, pipeVars, sinkVars, chatVars
  <2> QED BY <1>1, <2>1, CodexKeeps
<1>6. CASE StreamOver
  <2>1. UNCHANGED <<route, source, hidden, buffers>> /\ stage' # "reading"
    BY <1>6 DEF StreamOver, fixed, pipeVars, chatVars
  <2>2. sink' = sink /\ (outbox' = <<>> \/ \E t : outbox' = <<Call("send", t, 0)>>)
    BY <1>6 DEF StreamOver, Do, OnCompleted, SendReply, sinkVars
  <2>3. \A i \in DOMAIN outbox' : outbox'[i].op = "send"
    BY <2>2 DEF Call
  <2> QED BY <1>1, <2>1, <2>2, <2>3, CodexKeeps
<1>7. CASE FinishWeChat \/ FinishTelegram
  <2>1. UNCHANGED <<route, source, hidden, sink, outbox, buffers>> /\ stage' # "reading"
    BY <1>7 DEF FinishWeChat, FinishTelegram, Finish, fixed, pipeVars, sinkVars, chatVars
  <2> QED BY <1>1, <2>1, CodexKeeps
<1>8. CASE SendTelegram
  <2>1. /\ Calling("send") /\ UNCHANGED <<route, source, hidden, sink, buffers, spoken,
                                          agent, coming>>
        /\ (outbox' = <<>> \/ outbox' = Tail(outbox)) /\ (stage' = "reading" => stage = "reading")
    BY <1>8 DEF SendTelegram, Calling, fixed, agentVars, pipeVars
  <2>2. \A i \in DOMAIN outbox' : outbox'[i].op = "send"
    BY <2>1, CodexSends
  <2>3. TextsToCome' = TextsToCome
    BY <2>1 DEF TextsToCome
  <2>4. Streaming /\ agent'.asking /\ stage' = "reading" =>
          Question \in TextsToCome' \cup Range(spoken')
    BY <2>1, <2>3 DEF CodexInv
  <2> QED BY <1>1, <2>1, <2>2, <2>4, CodexKeeps
<1>9. CASE SendWeChat
  BY <1>9 DEF SendWeChat
<1>10. CASE Place \/ Change
  <2>1. \E op \in {"place", "edit", "final", "delete"} : Calling(op)
    BY <1>10 DEF Place, Change
  <2> QED BY <2>1, CodexSends
<1> QED BY <1>2, <1>3, <1>4, <1>5, <1>6, <1>7, <1>8, <1>9, <1>10, NextActs

\* Every step keeps the question of Codex.
LEMMA CodexAlways ==
  ASSUME TypeOK, PartsInv, CodexInv, [Next]_vars
  PROVE  CodexInv'
<1>1. route' = route /\ source' = source
  BY FixedStays DEF fixed
<1>2. (Streaming' <=> Streaming) /\ (WeChat' <=> WeChat)
  BY <1>1, SameRoute
<1>3. CASE WeChat
  BY <1>2, <1>3 DEF CodexInv
<1>4. CASE UNCHANGED vars
  <2>1. UNCHANGED <<agent, coming, spoken, buffers, sink, outbox, hidden, stage>>
    BY <1>4 DEF vars
  <2>2. TextsToCome' = TextsToCome
    BY <2>1 DEF TextsToCome
  <2> QED BY <1>1, <1>2, <2>1, <2>2 DEF CodexInv
<1>5. CASE ~ WeChat /\ source = "codex" /\ Next
  BY <1>5, CodexNext
<1>6. CASE ~ WeChat /\ source # "codex" /\ Next
  <2>1. ~ agent.asking
    BY <1>6 DEF CodexInv
  <2>2. ~ agent'.asking
    <3>1. CASE Backend
      BY <1>6, <2>1, <3>1, BackendYields DEF Talking, Asking, Answered
    <3>2. CASE ~ Backend
      <4>1. agent' = agent
        <5>1. CASE TakeAnnounced \/ TakeDelta \/ TakeCompleted \/ TakeFailed \/ TakeError
          BY <5>1 DEF TakeAnnounced, TakeDelta, TakeCompleted, TakeFailed, TakeError, Taken
        <5>2. CASE StreamOver \/ AgentPanics \/ FinishWeChat \/ FinishTelegram
          BY <5>2 DEF StreamOver, AgentPanics, FinishWeChat, FinishTelegram, Finish, agentVars
        <5>3. CASE SendWeChat \/ SendTelegram \/ Place \/ Change
          BY <5>3 DEF SendWeChat, SendTelegram, Place, Change, Calling, agentVars
        <5> QED BY <1>6, <3>2, <5>1, <5>2, <5>3, NextActs
      <4> QED BY <2>1, <4>1
    <3> QED BY <3>1, <3>2
  <2> QED BY <1>1, <1>6, <2>2 DEF CodexInv
<1> QED BY <1>3, <1>4, <1>5, <1>6

\* The question of a turn that waits can be read.
LEMMA QuestionHolds ==
  ASSUME TypeOK, TelegramInv, CodexInv, ~ WeChat, Streaming, Waits
  PROVE  QuestionSeen
<1>1. agent.asking /\ coming = <<>> /\ outbox = <<>> /\ stage = "reading"
  BY DEF Waits
<1>2. TextsToCome = {}
  BY <1>1 DEF TextsToCome, Range
<1>3. Question \in Range(spoken) /\ ~ hidden
  BY <1>1, <1>2 DEF CodexInv
<1>4. Question \in Due
  <2>1. Question \in Text /\ Question[1] \in Char /\ Question = <<Question[1]>>
    BY TextsAreTexts DEF Question, Char
  <2>2. Ink(Question) = Question
    BY <2>1, InkOne DEF Question, Break
  <2>3. Ink(Question) # <<>>
    BY <2>2 DEF Question
  <2>4. Trim(Question) # <<>>
    BY <2>1, <2>3, InkOfTrim
  <2> QED BY <1>3, <2>4 DEF Due, Inked
<1>5. Holds(chat, Moving, Question) \/ Coming(outbox, Question)
  BY <1>1, <1>3, <1>4 DEF TelegramInv, Kept
<1>6. ~ Coming(outbox, Question)
  BY <1>1 DEF Coming
<1>7. PICK c : c = chat
  OBVIOUS
<1>8. PICK mv : mv = Moving
  OBVIOUS
<1>9. c \in Seq(Text) /\ Holds(c, mv, Question)
  BY <1>5, <1>6, <1>7, <1>8 DEF TypeOK, ChatOK
<1>10. \E m \in Range(c) : Contains(m, Question[1])
  BY <1>9, HeldQuestion
<1> QED BY <1>7, <1>10 DEF QuestionSeen

\* A reply that ends well on Telegram holds what was said, and the question of
\* a turn that waits can be read.
LEMMA TelegramHolds ==
  ASSUME TypeOK, TelegramInv, PartsInv, CodexInv
  PROVE  TelegramKeepsItAll
<1>1. chat \in Seq(Text) /\ spoken \in Seq(Text) /\ last \in Text
  BY DEF TypeOK, ChatOK, PipeOK
<1>2. ASSUME ~ WeChat, stage = "ok", ~ hidden,
             NEW t \in (IF Streaming THEN Range(spoken)
                        ELSE IF agent.asked THEN {} ELSE {Answer})
      PROVE  \E i \in 0 .. Len(Read) : IsPrefix(Ink(t), SubSeq(Read, i + 1, Len(Read)))
  <2>1. t \in Text /\ (t \in Due \/ Trim(t) = <<>>)
    <3>1. CASE Streaming
      <4>1. \A x \in Range(spoken) : x \in Text
        BY <1>1, MembersOf DEF Range
      <4> QED BY <1>2, <3>1, <4>1 DEF Due, Inked
    <3>2. CASE ~ Streaming
      <4>1. ~ agent.asked /\ t = Answer
        BY <1>2, <3>2
      <4>2. parts \in {<<>>, <<<<>>>>, <<last>>}
        BY <3>2, <4>1 DEF PartsInv
      <4>3. PlainReply = Answer
        <5>1. CASE parts \in {<<>>, <<<<>>>>}
          BY <5>1 DEF PlainReply
        <5>2. CASE parts = <<last>> /\ last # <<>>
          <6>1. parts \notin {<<>>, <<<<>>>>} /\ parts[1] = last
            BY <5>2
          <6>2. Answer = last
            BY <5>2 DEF Answer, Silent
          <6> QED BY <1>2, <6>1, <6>2 DEF PlainReply
        <5> QED BY <4>2, <5>1, <5>2
      <4>4. Answer \in Text
        BY <1>1, TextsAreTexts DEF Answer
      <4> QED BY <1>2, <3>2, <4>1, <4>3, <4>4 DEF Due, Inked
    <3> QED BY <3>1, <3>2
  <2>2. PICK r : r = Read
    OBVIOUS
  <2>3. PICK c : c = chat
    OBVIOUS
  <2>4. PICK mv : mv = Moving
    OBVIOUS
  <2>5. c \in Seq(Text) /\ r = Ink(FlattenSeq(c)) /\ r \in Seq(Char)
    <3>1. PICK f : f = FlattenSeq(c)
      OBVIOUS
    <3>2. f \in Text /\ r = Ink(f)
      BY <1>1, <2>2, <2>3, <3>1, FlattenText DEF Read
    <3>3. Ink(f) \in Text
      BY <3>2, InkConcat
    <3> QED BY <1>1, <2>2, <2>3, <3>2, <3>3 DEF Read, Text
  <2>6. CASE Trim(t) = <<>>
    <3>1. Ink(t) = <<>>
      BY <2>1, <2>6, InkOfTrim
    <3>2. r = <<>> \o (<<>> \o r) /\ <<>> \in Seq(Char)
      BY <2>5, ConcatEmptySeq, EmptySeq
    <3>3. \E i \in 0 .. Len(r) : IsPrefix(<<>>, SubSeq(r, i + 1, Len(r)))
      BY <2>5, <3>2, StartsSomewhere
    <3> QED BY <2>2, <3>1, <3>3
  <2>7. CASE t \in Due
    <3>1. outbox = <<>> /\ (Holds(chat, Moving, t) \/ Coming(outbox, t))
      BY <1>2, <2>7 DEF TelegramInv, Kept
    <3>2. ~ Coming(outbox, t)
      BY <3>1 DEF Coming
    <3>3. Holds(c, mv, t)
      BY <2>3, <2>4, <3>1, <3>2
    <3>4. \E i \in 0 .. Len(r) : IsPrefix(Ink(t), SubSeq(r, i + 1, Len(r)))
      BY <2>1, <2>5, <3>3, HeldIsRead
    <3> QED BY <2>2, <3>4
  <2> QED BY <2>1, <2>6, <2>7
<1>3. (route = "telegram stream" /\ Waits) => QuestionSeen
  <2>1. route = "telegram stream" => ~ WeChat /\ Streaming
    BY Zenon DEF WeChat, Streaming
  <2> QED BY <2>1, QuestionHolds, Zenon
<1> QED BY <1>2, <1>3, Zenon DEF TelegramKeepsItAll

\* What the proof of the next theorem keeps true.
KeepInv == TelegramInv /\ PartsInv /\ CodexInv

\* A reply of Telegram that ends without an error, and without an edit that
\* failed unseen, holds every text the agent finished, and a question of Codex
\* that waits can be read while it waits, whatever the texts, the sizes, the
\* events and the calls that fail.
THEOREM TelegramKeepsAll == Spec => []TelegramKeepsItAll
<1>1. Init => KeepInv
  <2> SUFFICES ASSUME Init PROVE KeepInv
    OBVIOUS
  <2>1. /\ coming = <<>> /\ ~ agent.asking /\ spoken = <<>> /\ outbox = <<>>
        /\ buffers = <<>> /\ sink.bubble = 0 /\ ~ hidden
        /\ (~ agent.over => parts = <<>>) /\ parts \in {<<>>, <<last>>}
    BY DEF Init, EmptySink
  <2>2. Range(<<>>) = {} /\ Len(<<>>) = 0 /\ DOMAIN <<>> = {}
    BY DEF Range
  <2>3. Tells(coming) /\ Unseen(coming)
    BY <2>1, <2>2 DEF Tells, Unseen
  <2>4. PartsInv
    BY <2>1, <2>3 DEF PartsInv
  <2>5. CodexInv
    BY <2>1, <2>2 DEF CodexInv
  <2> QED BY <2>4, <2>5, TelegramStarts DEF KeepInv
<1>2. TypeOK /\ TypeOK' /\ KeepInv /\ [Next]_vars => KeepInv'
  <2> SUFFICES ASSUME TypeOK, TypeOK', KeepInv, [Next]_vars PROVE KeepInv'
    OBVIOUS
  <2>1. TelegramInv /\ PartsInv /\ CodexInv
    BY DEF KeepInv
  <2>2. TelegramInv'
    BY <2>1, TelegramAlways
  <2>3. PartsInv'
    BY <2>1, PartsNext
  <2>4. CodexInv'
    BY <2>1, CodexAlways
  <2> QED BY <2>2, <2>3, <2>4 DEF KeepInv
<1>3. TypeOK /\ KeepInv => TelegramKeepsItAll
  BY TelegramHolds DEF KeepInv
<1> QED BY <1>1, <1>2, <1>3, TypeCorrect, PTL DEF Spec
=============================================================================
