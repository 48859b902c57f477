-------------------------- MODULE TranscriptProofs --------------------------
(***************************************************************************)
(* Proofs about Transcript, for a history, a window and lines of any       *)
(* length, any texts and any number of images: what is left out is no      *)
(* news, both agents read the same, and the images are the latest ones.    *)
(*                                                                         *)
(* The transcript is made by passes over sequences.  Induction on their    *)
(* length is had from the well-foundedness of < on Nat; each pass has a    *)
(* lemma that says what one element more changes, and each property of a   *)
(* pass is proved with it by induction.                                    *)
(***************************************************************************)
EXTENDS Transcript, WellFoundedInduction, FiniteSetTheorems, TLAPS

-----------------------------------------------------------------------------
(* Induction *)

LEMMA LeastNat ==
  ASSUME NEW T, T \subseteq Nat, T # {}
  PROVE  \E n \in T : \A m \in T : n <= m
<1>1. PICK R : R = OpToRel(<, Nat)
  OBVIOUS
<1>2. \A m, n \in Nat : <<m, n>> \in R <=> m < n
  BY <1>1 DEF OpToRel
<1>3. IsWellFoundedOn(R, Nat)
  BY <1>1, NatLessThanWellFounded
<1>4. PICK n \in T : \A m \in T : ~(<<m, n>> \in R)
  BY <1>3, WFMin
<1>5. ASSUME NEW m \in T PROVE n <= m
  <2>1. m \in Nat /\ n \in Nat
    BY <1>4
  <2>2. ~(m < n)
    BY <1>2, <1>4, <2>1
  <2> QED
    BY <2>1, <2>2
<1> QED
  BY <1>5

LEMMA Induction ==
  ASSUME NEW T, 0 \in T, \A n \in Nat : n \in T => n + 1 \in T
  PROVE  Nat \subseteq T
<1>1. PICK S : S = Nat \ T
  OBVIOUS
<1>2. ASSUME S # {} PROVE FALSE
  <2>1. PICK n \in S : \A m \in S : n <= m
    BY <1>1, <1>2, LeastNat
  <2>2. n \in Nat /\ n # 0 /\ n \notin T
    BY <1>1, <2>1
  <2>3. n - 1 \in Nat /\ n - 1 \in T
    BY <1>1, <2>1, <2>2
  <2> QED
    BY <2>2, <2>3
<1> QED
  BY <1>1, <1>2

\* Up to a bound.
LEMMA InductionTo ==
  ASSUME NEW N \in Nat, NEW T, 0 \in T, \A n \in 0..(N - 1) : n \in T => n + 1 \in T
  PROVE  0..N \subseteq T
<1>1. PICK U : U = {n \in Nat : n \in 0..N => n \in T}
  OBVIOUS
<1>2. 0 \in U
  BY <1>1
<1>3. \A n \in Nat : n \in U => n + 1 \in U
  <2>1. ASSUME NEW n \in Nat, n \in U, n + 1 \in 0..N PROVE n + 1 \in T
    <3>1. n \in 0..(N - 1) /\ n \in 0..N
      BY <2>1
    <3> QED
      BY <1>1, <2>1, <3>1
  <2> QED
    BY <1>1, <2>1
<1>4. Nat \subseteq U
  BY <1>2, <1>3, Induction
<1> QED
  BY <1>1, <1>4

LEMMA SeqInduction ==
  ASSUME NEW S, NEW T, <<>> \in T,
         \A s \in Seq(S), e \in S : s \in T => Append(s, e) \in T
  PROVE  Seq(S) \subseteq T
<1>1. PICK U : U = {n \in Nat : \A s \in Seq(S) : Len(s) = n => s \in T}
  OBVIOUS
<1>2. 0 \in U
  BY <1>1
<1>3. ASSUME NEW n \in Nat, n \in U PROVE n + 1 \in U
  <2>1. ASSUME NEW s \in Seq(S), Len(s) = n + 1 PROVE s \in T
    <3>1. PICK r : r = SubSeq(s, 1, n)
      OBVIOUS
    <3>2. r \in Seq(S) /\ Len(r) = n /\ \A i \in 1..n : r[i] = s[i]
      BY <2>1, <3>1
    <3>3. s[n + 1] \in S
      BY <2>1
    <3>4. s = Append(r, s[n + 1])
      BY <2>1, <3>2, <3>3
    <3>5. r \in T
      BY <1>1, <1>3, <3>2
    <3> QED
      BY <3>2, <3>3, <3>4, <3>5
  <2> QED
    BY <1>1, <2>1
<1>4. Nat \subseteq U
  BY <1>2, <1>3, Induction
<1> QED
  BY <1>1, <1>4

\* What is defined step by step is defined.
Steps(f, A, base, N, next) ==
  /\ f \in [0..N -> A] /\ f[0] = base
  /\ \A i \in 0..(N - 1) : f[i + 1] = next[<<f[i], i + 1>>]

LEMMA Recursion ==
  ASSUME NEW A, NEW base \in A, NEW N \in Nat, NEW next \in [A \X (1..N) -> A]
  PROVE  \E f : Steps(f, A, base, N, next)
<1>1. PICK T : T = {n \in 0..N : \E f : Steps(f, A, base, n, next)}
  OBVIOUS
<1>2. 0 \in T
  <2>1. PICK f : f = [i \in 0..0 |-> base]
    OBVIOUS
  <2>2. Steps(f, A, base, 0, next)
    BY <2>1 DEF Steps
  <2> QED
    BY <1>1, <2>2
<1>3. ASSUME NEW n \in 0..(N - 1), n \in T PROVE n + 1 \in T
  <2>1. PICK f : Steps(f, A, base, n, next)
    BY <1>1, <1>3
  <2>2. PICK e : e = next[<<f[n], n + 1>>]
    OBVIOUS
  <2>3. f[n] \in A /\ n + 1 \in 1..N
    BY <1>3, <2>1 DEF Steps
  <2>4. e \in A
    BY <2>2, <2>3
  <2>5. PICK g : g = [i \in 0..(n + 1) |-> IF i = n + 1 THEN e ELSE f[i]]
    OBVIOUS
  <2>6. g \in [0..(n + 1) -> A] /\ g[0] = base
    BY <1>3, <2>1, <2>4, <2>5 DEF Steps
  <2>7. ASSUME NEW i \in 0..n PROVE g[i + 1] = next[<<g[i], i + 1>>]
    <3>1. g[i] = f[i]
      BY <1>3, <2>5
    <3>2. CASE i = n
      <4>1. g[n + 1] = e
        BY <1>3, <2>5
      <4> QED
        BY <2>2, <3>1, <3>2, <4>1
    <3>3. CASE i # n
      <4>1. i \in 0..(n - 1) /\ g[i + 1] = f[i + 1]
        BY <1>3, <2>5, <3>3
      <4> QED
        BY <2>1, <3>1, <4>1 DEF Steps
    <3> QED
      BY <3>2, <3>3
  <2>8. n + 1 - 1 = n
    BY <1>3
  <2>9. Steps(g, A, base, n + 1, next)
    BY <2>6, <2>7, <2>8 DEF Steps
  <2> QED
    BY <1>1, <1>3, <2>9
<1>4. 0..N \subseteq T
  BY <1>2, <1>3, InductionTo
<1>5. N \in T
  BY <1>4
<1> QED
  BY <1>1, <1>5

-----------------------------------------------------------------------------
(* FlattenSeq and At *)

Flattens(f, S, ss) ==
  /\ f \in [1..Len(ss) -> Seq(S)] /\ f[1] = ss[1]
  /\ \A i \in 1..(Len(ss) - 1) : f[i + 1] = f[i] \o ss[i + 1]

LEMMA FlattenSteps ==
  ASSUME NEW S, NEW ss \in Seq(Seq(S)), ss # <<>>
  PROVE  \E f : Flattens(f, S, ss) /\ FlattenSeq(ss) = f[Len(ss)]
<1> DEFINE N == Len(ss)
           Is(f) == f = [i \in 1..N |-> IF i = 1 THEN ss[i] ELSE f[i - 1] \o ss[i]]
<1>1. N \in Nat /\ N # 0 /\ 1 \in 1..N /\ \A i \in 1..N : ss[i] \in Seq(S)
  OBVIOUS
<1>2. \E f : Is(f)
  <2>1. PICK next : next = [p \in Seq(S) \X (1..N) |-> IF p[2] = 1 THEN ss[p[2]] ELSE p[1] \o ss[p[2]]]
    OBVIOUS
  <2>2. next \in [Seq(S) \X (1..N) -> Seq(S)]
    <3>1. ASSUME NEW p \in Seq(S) \X (1..N)
          PROVE  (IF p[2] = 1 THEN ss[p[2]] ELSE p[1] \o ss[p[2]]) \in Seq(S)
      BY <1>1
    <3> QED
      BY <2>1, <3>1
  <2>3. PICK base : base = <<>>
    OBVIOUS
  <2>4. base \in Seq(S)
    BY <2>3
  <2>5. PICK g : Steps(g, Seq(S), base, N, next)
    <3> HIDE DEF N
    <3> QED
      BY <1>1, <2>2, <2>4, Recursion
  <2>6. PICK f : f = [i \in 1..N |-> g[i]]
    OBVIOUS
  <2>7. ASSUME NEW i \in 1..N PROVE f[i] = IF i = 1 THEN ss[i] ELSE f[i - 1] \o ss[i]
    <3>1. PICK j : j = i - 1
      OBVIOUS
    <3>2. j \in 0..(N - 1) /\ j \in 0..N /\ i = j + 1 /\ (i # 1 => j \in 1..N)
      BY <1>1, <3>1
    <3>3. g[j] \in Seq(S) /\ g[j + 1] = next[<<g[j], j + 1>>]
      BY <2>5, <3>2 DEF Steps
    <3>4. <<g[j], i>> \in Seq(S) \X (1..N)
      BY <3>3
    <3>5. g[i] = IF i = 1 THEN ss[i] ELSE g[j] \o ss[i]
      BY <2>1, <3>2, <3>3, <3>4
    <3>6. f[i] = g[i] /\ (i # 1 => f[j] = g[j])
      BY <2>6, <3>2
    <3> QED
      BY <3>1, <3>5, <3>6
  <2>8. f = [i \in 1..N |-> f[i]]
    BY <2>6
  <2>9. Is(f)
    BY <2>7, <2>8
  <2> QED
    BY <2>9
<1>3. PICK f : f = CHOOSE g : Is(g)
  OBVIOUS
<1>4. Is(f)
  BY <1>2, <1>3
<1>5. FlattenSeq(ss) = f[N]
  BY <1>1, <1>3 DEF FlattenSeq
<1>6. f[1] = ss[1]
  BY <1>1, <1>4
<1>7. ASSUME NEW i \in 1..(N - 1) PROVE f[i + 1] = f[i] \o ss[i + 1]
  <2>1. PICK j : j = i + 1
    OBVIOUS
  <2>2. j \in 1..N /\ j # 1 /\ j - 1 = i
    BY <1>1, <2>1
  <2>3. f[j] = f[j - 1] \o ss[j]
    BY <1>4, <2>2
  <2> QED
    BY <2>1, <2>2, <2>3
<1>8. f \in [1..N -> Seq(S)]
  <2>1. PICK T : T = {i \in 0..N : i # 0 => f[i] \in Seq(S)}
    OBVIOUS
  <2>2. 0 \in T
    BY <1>1, <2>1
  <2>3. ASSUME NEW i \in 0..(N - 1), i \in T PROVE i + 1 \in T
    <3>1. CASE i = 0
      BY <1>1, <1>6, <2>1, <3>1
    <3>2. CASE i # 0
      <4>1. i \in 1..(N - 1) /\ i + 1 \in 1..N /\ f[i] \in Seq(S)
        BY <1>1, <2>1, <2>3, <3>2
      <4>2. f[i + 1] = f[i] \o ss[i + 1] /\ ss[i + 1] \in Seq(S)
        BY <1>1, <1>7, <4>1
      <4>3. f[i + 1] \in Seq(S)
        BY <4>1, <4>2
      <4> QED
        BY <1>1, <2>1, <4>1, <4>3
    <3> QED
      BY <3>1, <3>2
  <2>4. 0..N \subseteq T
    BY <1>1, <2>2, <2>3, InductionTo
  <2>5. ASSUME NEW i \in 1..N PROVE f[i] \in Seq(S)
    <3>1. i \in 0..N /\ i # 0
      BY <1>1
    <3> QED
      BY <2>1, <2>4, <3>1
  <2>6. DOMAIN f = 1..N /\ f = [i \in 1..N |-> f[i]]
    BY <1>4
  <2> QED
    BY <2>5, <2>6
<1>9. Flattens(f, S, ss)
  BY <1>6, <1>7, <1>8 DEF Flattens
<1> QED
  BY <1>5, <1>9

LEMMA FlattenEmpty == FlattenSeq(<<>>) = <<>>
  BY DEF FlattenSeq

LEMMA FlattenType == ASSUME NEW S, NEW ss \in Seq(Seq(S)) PROVE FlattenSeq(ss) \in Seq(S)
<1>1. CASE ss = <<>>
  <2>1. FlattenSeq(ss) = <<>>
    BY <1>1, FlattenEmpty
  <2> QED
    BY <2>1
<1>2. CASE ss # <<>>
  <2>1. PICK f : Flattens(f, S, ss) /\ FlattenSeq(ss) = f[Len(ss)]
    BY <1>2, FlattenSteps
  <2>2. Len(ss) \in 1..Len(ss)
    BY <1>2
  <2> QED
    BY <2>1, <2>2 DEF Flattens
<1> QED
  BY <1>1, <1>2

LEMMA FlattenAppend ==
  ASSUME NEW S, NEW ss \in Seq(Seq(S)), NEW s \in Seq(S)
  PROVE  FlattenSeq(Append(ss, s)) = FlattenSeq(ss) \o s
<1>1. PICK longer : longer = Append(ss, s)
  OBVIOUS
<1>2. PICK N : N = Len(ss)
  OBVIOUS
<1>3. /\ longer \in Seq(Seq(S)) /\ longer # <<>> /\ Len(longer) = N + 1 /\ N \in Nat
      /\ longer[N + 1] = s /\ \A i \in 1..N : longer[i] = ss[i]
  BY <1>1, <1>2
<1>4. PICK g : Flattens(g, S, longer) /\ FlattenSeq(longer) = g[Len(longer)]
  BY <1>3, FlattenSteps
<1>5. g[1] = longer[1] /\ \A i \in 1..N : g[i + 1] = g[i] \o longer[i + 1]
  <2>1. Len(longer) - 1 = N
    BY <1>3
  <2> QED
    BY <1>4, <2>1 DEF Flattens
<1>6. FlattenSeq(longer) = g[N + 1]
  BY <1>3, <1>4
<1>7. CASE ss = <<>>
  <2>1. N = 0
    BY <1>2, <1>7
  <2>2. FlattenSeq(longer) = s
    BY <1>3, <1>5, <1>6, <2>1
  <2>3. FlattenSeq(ss) = <<>> /\ <<>> \o s = s
    BY <1>7, FlattenEmpty
  <2> QED
    BY <1>1, <2>2, <2>3
<1>8. CASE ss # <<>>
  <2>1. PICK f : Flattens(f, S, ss) /\ FlattenSeq(ss) = f[Len(ss)]
    BY <1>8, FlattenSteps
  <2>2. f[1] = ss[1] /\ (\A i \in 1..(N - 1) : f[i + 1] = f[i] \o ss[i + 1]) /\ FlattenSeq(ss) = f[N]
    BY <1>2, <2>1 DEF Flattens
  <2>3. N # 0
    BY <1>2, <1>8
  <2>4. PICK T : T = {i \in 0..N : i # 0 => f[i] = g[i]}
    OBVIOUS
  <2>5. 0 \in T
    BY <1>3, <2>4
  <2>6. ASSUME NEW i \in 0..(N - 1), i \in T PROVE i + 1 \in T
    <3>1. CASE i = 0
      BY <1>3, <1>5, <2>2, <2>3, <2>4, <3>1
    <3>2. CASE i # 0
      <4>1. i \in 1..(N - 1) /\ i \in 1..N /\ i + 1 \in 1..N
        BY <1>3, <3>2
      <4>2. f[i] = g[i] /\ longer[i + 1] = ss[i + 1]
        BY <1>3, <2>4, <2>6, <3>2, <4>1
      <4>3. f[i + 1] = g[i + 1]
        BY <1>5, <2>2, <4>1, <4>2
      <4> QED
        BY <1>3, <2>4, <4>1, <4>3
    <3> QED
      BY <3>1, <3>2
  <2>7. 0..N \subseteq T
    BY <1>3, <2>5, <2>6, InductionTo
  <2>8. f[N] = g[N] /\ N \in 1..N
    BY <1>3, <2>3, <2>4, <2>7
  <2>9. g[N + 1] = g[N] \o s
    BY <1>3, <1>5, <2>8
  <2> QED
    BY <1>1, <1>6, <2>2, <2>8, <2>9
<1> QED
  BY <1>7, <1>8

\* A sequence that is another one and one element more.
LEMMA OneMore ==
  ASSUME NEW S, NEW N \in Nat, NEW f, f \in [1..N -> S], NEW g, g \in [1..(N + 1) -> S],
         \A i \in 1..N : g[i] = f[i]
  PROVE  f \in Seq(S) /\ g \in Seq(S) /\ Len(f) = N /\ g = Append(f, g[N + 1])
<1>1. f \in Seq(S) /\ Len(f) = N /\ g \in Seq(S) /\ Len(g) = N + 1
  OBVIOUS
<1>2. g[N + 1] \in S
  OBVIOUS
<1>3. PICK h : h = Append(f, g[N + 1])
  OBVIOUS
<1>4. h \in Seq(S) /\ Len(h) = N + 1 /\ h[N + 1] = g[N + 1] /\ \A i \in 1..N : h[i] = f[i]
  BY <1>1, <1>2, <1>3
<1>5. \A i \in 1..(N + 1) : h[i] = g[i]
  BY <1>4
<1>6. h = g
  BY <1>1, <1>4, <1>5
<1> QED
  BY <1>1, <1>3, <1>6

LEMMA AppendIs ==
  ASSUME NEW S, NEW s \in Seq(S), NEW e \in S
  PROVE  /\ Append(s, e) \in Seq(S) /\ Len(Append(s, e)) = Len(s) + 1 /\ Len(s) \in Nat
         /\ DOMAIN s = 1..Len(s) /\ DOMAIN Append(s, e) = 1..(Len(s) + 1)
         /\ Append(s, e)[Len(s) + 1] = e /\ \A i \in 1..Len(s) : Append(s, e)[i] = s[i] /\ s[i] \in S
  OBVIOUS

\* What At puts in a row.
Pick(s, I) == [i \in DOMAIN s |-> IF i \in I THEN <<s[i]>> ELSE <<>>]

LEMMA PickIs ==
  ASSUME NEW S, NEW s \in Seq(S), NEW I
  PROVE  /\ Pick(s, I) \in [1..Len(s) -> Seq(S)] /\ Pick(s, I) \in Seq(Seq(S))
         /\ At(s, I) = FlattenSeq(Pick(s, I))
<1>1. Len(s) \in Nat /\ DOMAIN s = 1..Len(s) /\ \A i \in 1..Len(s) : <<s[i]>> \in Seq(S) /\ <<>> \in Seq(S)
  OBVIOUS
<1>2. Pick(s, I) \in [1..Len(s) -> Seq(S)]
  BY <1>1 DEF Pick
<1>3. Pick(s, I) \in Seq(Seq(S))
  BY <1>1, <1>2
<1> QED
  BY <1>2, <1>3 DEF At, Pick

LEMMA AtType == ASSUME NEW S, NEW s \in Seq(S), NEW I PROVE At(s, I) \in Seq(S)
  BY PickIs, FlattenType

LEMMA AtEmpty == ASSUME NEW I PROVE At(<<>>, I) = <<>>
<1>1. [i \in DOMAIN <<>> |-> IF i \in I THEN <<(<<>>)[i]>> ELSE <<>>] = <<>>
  OBVIOUS
<1> QED
  BY <1>1, FlattenEmpty DEF At

LEMMA AtAppend ==
  ASSUME NEW S, NEW s \in Seq(S), NEW e \in S, NEW I
  PROVE  At(Append(s, e), I) = IF Len(s) + 1 \in I THEN Append(At(s, I), e) ELSE At(s, I)
<1>1. PICK longer, N : longer = Append(s, e) /\ N = Len(s)
  OBVIOUS
<1>2. /\ longer \in Seq(S) /\ Len(longer) = N + 1 /\ N \in Nat /\ DOMAIN s = 1..N
      /\ DOMAIN longer = 1..(N + 1) /\ longer[N + 1] = e /\ \A i \in 1..N : longer[i] = s[i]
  BY <1>1, AppendIs
<1>3. PICK f, g : f = Pick(s, I) /\ g = Pick(longer, I)
  OBVIOUS
<1>4. /\ f \in [1..N -> Seq(S)] /\ g \in [1..(N + 1) -> Seq(S)]
      /\ At(s, I) = FlattenSeq(f) /\ At(longer, I) = FlattenSeq(g)
  BY <1>1, <1>2, <1>3, PickIs
<1>5. \A i \in 1..N : g[i] = f[i]
  BY <1>2, <1>3 DEF Pick
<1>6. PICK last : last = g[N + 1]
  OBVIOUS
<1>7. last = IF N + 1 \in I THEN <<e>> ELSE <<>>
  BY <1>2, <1>3, <1>6 DEF Pick
<1>8. f \in Seq(Seq(S)) /\ g = Append(f, last)
  BY <1>2, <1>4, <1>5, <1>6, OneMore
<1>9. last \in Seq(S)
  BY <1>7
<1>10. At(longer, I) = At(s, I) \o last
  BY <1>4, <1>8, <1>9, FlattenAppend
<1>11. At(s, I) \in Seq(S)
  BY AtType
<1>12. CASE N + 1 \in I
  <2>1. At(s, I) \o <<e>> = Append(At(s, I), e)
    BY <1>11
  <2> QED
    BY <1>1, <1>7, <1>10, <1>12, <2>1
<1>13. CASE N + 1 \notin I
  <2>1. At(s, I) \o <<>> = At(s, I)
    BY <1>11
  <2> QED
    BY <1>1, <1>7, <1>10, <1>13, <2>1
<1> QED
  BY <1>12, <1>13

LEMMA AtSame ==
  ASSUME NEW s, NEW I, NEW J, \A i \in DOMAIN s : i \in I <=> i \in J
  PROVE  At(s, I) = At(s, J)
<1>1. Pick(s, I) = Pick(s, J)
  BY DEF Pick
<1> QED
  BY <1>1 DEF At, Pick

LEMMA OfTypeEmpty == ASSUME NEW type PROVE OfType(<<>>, type) = <<>>
  BY AtEmpty DEF OfType

LEMMA OfTypeAppend ==
  ASSUME NEW S, NEW s \in Seq(S), NEW e \in S, NEW type
  PROVE  /\ OfType(s, type) \in Seq(S)
         /\ e.type = type => OfType(Append(s, e), type) = Append(OfType(s, type), e)
         /\ e.type # type => OfType(Append(s, e), type) = OfType(s, type)
<1>1. PICK longer, I, J : /\ longer = Append(s, e)
                          /\ I = {i \in DOMAIN s : s[i].type = type}
                          /\ J = {i \in DOMAIN longer : longer[i].type = type}
  OBVIOUS
<1>2. \A i \in DOMAIN s : i \in I <=> i \in J
  BY <1>1, AppendIs
<1>3. Len(s) + 1 \in J <=> e.type = type
  BY <1>1, AppendIs
<1>4. At(s, I) = At(s, J)
  BY <1>2, AtSame
<1>5. At(longer, J) = IF Len(s) + 1 \in J THEN Append(At(s, J), e) ELSE At(s, J)
  BY <1>1, AtAppend
<1>6. At(s, I) \in Seq(S)
  BY AtType
<1>7. OfType(s, type) = At(s, I) /\ OfType(longer, type) = At(longer, J)
  BY <1>1 DEF OfType
<1> QED
  BY <1>1, <1>3, <1>4, <1>5, <1>6, <1>7

LEMMA WrittenEmpty == Written(<<>>) = <<>>
  BY AtEmpty DEF Written

LEMMA WrittenAppend ==
  ASSUME NEW S, NEW s \in Seq(S), NEW e \in S
  PROVE  /\ Written(s) \in Seq(S)
         /\ e.message # Placeholder => Written(Append(s, e)) = Append(Written(s), e)
         /\ e.message = Placeholder => Written(Append(s, e)) = Written(s)
<1>1. PICK longer, I, J : /\ longer = Append(s, e)
                          /\ I = {i \in DOMAIN s : s[i].message # Placeholder}
                          /\ J = {i \in DOMAIN longer : longer[i].message # Placeholder}
  OBVIOUS
<1>2. \A i \in DOMAIN s : i \in I <=> i \in J
  BY <1>1, AppendIs
<1>3. Len(s) + 1 \in J <=> e.message # Placeholder
  BY <1>1, AppendIs
<1>4. At(s, I) = At(s, J)
  BY <1>2, AtSame
<1>5. At(longer, J) = IF Len(s) + 1 \in J THEN Append(At(s, J), e) ELSE At(s, J)
  BY <1>1, AtAppend
<1>6. At(s, I) \in Seq(S)
  BY AtType
<1>7. Written(s) = At(s, I) /\ Written(longer) = At(longer, J)
  BY <1>1 DEF Written
<1> QED
  BY <1>1, <1>3, <1>4, <1>5, <1>6, <1>7

-----------------------------------------------------------------------------
(* The entries and their lines *)

Words     == DOMAIN Plain
LineTypes == EntryTypes \cup Deduplicated \cup {"audio_out"}

Entries == Contents \cup {[type |-> "history_summary", message |-> summary] : summary \in Summaries}

\* The lines that can be made of a window: those of images have the placeholder.
Lines(window) ==
  {line \in [type : LineTypes, message : Words \cup {Placeholder}, source : DOMAIN window] :
     /\ line.message = Placeholder => line.type = "system_message"
     /\ line.message = Placeholder <=> window[line.source].type \in ImageTypes}

LEMMA AtIn ==
  ASSUME NEW S, NEW s \in Seq(S), NEW I, NEW T, \A i \in DOMAIN s : i \in I => s[i] \in T
  PROVE  At(s, I) \in Seq(T)
<1>1. Len(s) \in Nat /\ DOMAIN s = 1..Len(s) /\ \A i \in 1..Len(s) : i \in I => <<s[i]>> \in Seq(T)
  OBVIOUS
<1>2. Pick(s, I) \in [1..Len(s) -> Seq(T)]
  BY <1>1 DEF Pick
<1>3. Pick(s, I) \in Seq(Seq(T))
  BY <1>1, <1>2
<1>4. At(s, I) = FlattenSeq(Pick(s, I))
  BY PickIs
<1> QED
  BY <1>3, <1>4, FlattenType

LEMMA EntryIs ==
  ASSUME NEW entry \in Entries
  PROVE  /\ entry.type \in EntryTypes
         /\ entry.type = "vision_agent_output" =>
              {entry.observation, entry.thoughts, entry.anticipation, entry.to_tell_user} \subseteq Words \cup {None}
         /\ entry.type \notin ImageTypes \cup {"vision_agent_output"} => entry.message \in Words
<1>1. CASE entry \in Contents
  BY <1>1, ContentsAssumption DEF Words
<1>2. CASE entry \notin Contents
  <2>1. PICK summary \in Summaries : entry = [type |-> "history_summary", message |-> summary]
    BY <1>2 DEF Entries
  <2>2. entry.type = "history_summary" /\ entry.message \in Words
    BY <2>1, ContentsAssumption DEF Words
  <2> QED
    BY <2>2 DEF EntryTypes
<1> QED
  BY <1>1, <1>2

LEMMA LineIs ==
  ASSUME NEW window, NEW i \in DOMAIN window, NEW type \in LineTypes, NEW m \in Words \cup {Placeholder},
         m = Placeholder => type = "system_message",
         m = Placeholder <=> window[i].type \in ImageTypes
  PROVE  Line(type, m, i) \in Lines(window)
  BY DEF Line, Lines

LEMMA LinesOfImage ==
  ASSUME NEW window, NEW i \in DOMAIN window, window[i].type \in ImageTypes
  PROVE  LinesOf(window[i], i) = <<Line("system_message", Placeholder, i)>>
<1>1. window[i].type # "vision_agent_output"
  BY DEF ImageTypes
<1> QED
  BY <1>1 DEF LinesOf

LEMMA LinesOfType ==
  ASSUME NEW window \in Seq(Entries), NEW i \in DOMAIN window
  PROVE  /\ LinesOf(window[i], i) \in Seq(Lines(window))
         /\ \A k \in DOMAIN LinesOf(window[i], i) : LinesOf(window[i], i)[k].source = i
<1>1. PICK entry : entry = window[i]
  OBVIOUS
<1>2. entry \in Entries
  BY <1>1
<1>3. PICK L : L = {line \in Lines(window) : line.source = i}
  OBVIOUS
<1>4. ASSUME LinesOf(entry, i) \in Seq(L)
      PROVE  /\ LinesOf(entry, i) \in Seq(Lines(window))
             /\ \A k \in DOMAIN LinesOf(entry, i) : LinesOf(entry, i)[k].source = i
  <2>1. PICK lines : lines = LinesOf(entry, i)
    OBVIOUS
  <2>2. \A k \in DOMAIN lines : lines[k] \in L
    BY <1>4, <2>1
  <2>3. lines \in Seq(Lines(window))
    BY <1>3, <1>4, <2>1, <2>2
  <2> QED
    BY <1>3, <2>1, <2>2, <2>3
<1>5. ASSUME NEW type \in LineTypes, NEW m \in Words \cup {Placeholder},
             m = Placeholder => type = "system_message", m = Placeholder <=> entry.type \in ImageTypes
      PROVE  Line(type, m, i) \in L
  <2>1. Line(type, m, i) \in Lines(window)
    BY <1>1, <1>5, LineIs
  <2> QED
    BY <1>3, <2>1 DEF Line
<1>6. "vision_agent_output" \notin ImageTypes /\ "system_message" \in LineTypes
  BY DEF ImageTypes, LineTypes, EntryTypes
<1>7. CASE entry.type = "vision_agent_output"
  <2>1. PICK lines : lines = <<Line("observation", entry.observation, i), Line("thoughts", entry.thoughts, i),
                               Line("anticipation", entry.anticipation, i), Line("audio_out", entry.to_tell_user, i)>>
    OBVIOUS
  <2>2. PICK I : I = {k \in DOMAIN lines : lines[k].message # None}
    OBVIOUS
  <2>3. DOMAIN lines = 1..4
    BY <2>1
  <2>4. lines \in Seq({lines[k] : k \in 1..4})
    BY <2>1
  <2>5. {"observation", "thoughts", "anticipation", "audio_out"} \subseteq LineTypes
    BY DEF LineTypes, Deduplicated
  <2>6. ASSUME NEW type \in LineTypes, NEW m \in Words \cup {None}, m # None PROVE Line(type, m, i) \in L
    <3>1. m \in Words /\ m # Placeholder /\ entry.type \notin ImageTypes
      BY <1>6, <1>7, <2>6, TextsAssumption DEF Words
    <3> QED
      BY <1>5, <3>1
  <2>7. {entry.observation, entry.thoughts, entry.anticipation, entry.to_tell_user} \subseteq Words \cup {None}
    BY <1>2, <1>7, EntryIs
  <2>8. \A type, m : Line(type, m, i).message = m
    BY DEF Line
  <2>9. ASSUME NEW k \in DOMAIN lines, k \in I PROVE lines[k] \in L
    <3>1. CASE k = 1
      BY <2>1, <2>2, <2>5, <2>6, <2>7, <2>8, <2>9, <3>1
    <3>2. CASE k = 2
      BY <2>1, <2>2, <2>5, <2>6, <2>7, <2>8, <2>9, <3>2
    <3>3. CASE k = 3
      BY <2>1, <2>2, <2>5, <2>6, <2>7, <2>8, <2>9, <3>3
    <3>4. CASE k = 4
      BY <2>1, <2>2, <2>5, <2>6, <2>7, <2>8, <2>9, <3>4
    <3> QED
      BY <2>3, <3>1, <3>2, <3>3, <3>4
  <2>10. At(lines, I) \in Seq(L)
    BY <2>4, <2>9, AtIn
  <2>11. LinesOf(entry, i) = At(lines, I)
    BY <1>7, <2>1, <2>2 DEF LinesOf
  <2> QED
    BY <1>1, <1>4, <2>10, <2>11
<1>8. CASE entry.type \in ImageTypes
  <2>1. LinesOf(entry, i) = <<Line("system_message", Placeholder, i)>>
    BY <1>1, <1>8, LinesOfImage
  <2>2. Line("system_message", Placeholder, i) \in L
    BY <1>5, <1>6, <1>8
  <2>3. LinesOf(entry, i) \in Seq(L)
    BY <2>1, <2>2
  <2> QED
    BY <1>1, <1>4, <2>3
<1>9. CASE entry.type \notin ImageTypes \cup {"vision_agent_output"}
  <2>1. LinesOf(entry, i) = <<Line(entry.type, entry.message, i)>>
    BY <1>9 DEF LinesOf
  <2>2. entry.type \in LineTypes /\ entry.message \in Words /\ entry.message # Placeholder
    BY <1>2, <1>9, EntryIs, TextsAssumption DEF LineTypes, Words
  <2>3. Line(entry.type, entry.message, i) \in L
    BY <1>5, <1>9, <2>2
  <2>4. LinesOf(entry, i) \in Seq(L)
    BY <2>1, <2>3
  <2> QED
    BY <1>1, <1>4, <2>4
<1> QED
  BY <1>7, <1>8, <1>9

Start(s, n) == SubSeq(s, 1, n)

LEMMA Starts ==
  ASSUME NEW S, NEW s \in Seq(S)
  PROVE  /\ Len(s) \in Nat /\ Start(s, 0) = <<>> /\ Start(s, Len(s)) = s
         /\ \A n \in 0..Len(s) : Start(s, n) \in Seq(S)
         /\ \A n \in 0..(Len(s) - 1) : /\ n + 1 \in 1..Len(s) /\ n \in 0..Len(s) /\ s[n + 1] \in S
                                       /\ Start(s, n + 1) = Append(Start(s, n), s[n + 1])
<1>1. Len(s) \in Nat /\ Start(s, 0) = <<>>
  BY DEF Start
<1>2. Start(s, Len(s)) = s
  BY DEF Start
<1>3. ASSUME NEW n \in 0..Len(s) PROVE Start(s, n) \in Seq(S)
  BY DEF Start
<1>4. ASSUME NEW n \in 0..(Len(s) - 1)
      PROVE  /\ n + 1 \in 1..Len(s) /\ n \in 0..Len(s) /\ s[n + 1] \in S
             /\ Start(s, n + 1) = Append(Start(s, n), s[n + 1])
  <2>1. n + 1 \in 1..Len(s) /\ n \in 0..Len(s) /\ s[n + 1] \in S
    OBVIOUS
  <2>2. Start(s, n + 1) = Append(Start(s, n), s[n + 1])
    BY <2>1 DEF Start
  <2> QED
    BY <2>1, <2>2
<1> QED
  BY <1>1, <1>2, <1>3, <1>4

LEMMA IntermediateType ==
  ASSUME NEW window \in Seq(Entries)
  PROVE  /\ [i \in DOMAIN window |-> LinesOf(window[i], i)] \in Seq(Seq(Lines(window)))
         /\ IntermediateEntries(window) \in Seq(Lines(window))
<1>1. DOMAIN window = 1..Len(window) /\ Len(window) \in Nat
  OBVIOUS
<1>2. \A i \in DOMAIN window : LinesOf(window[i], i) \in Seq(Lines(window))
  BY LinesOfType
<1>3. [i \in DOMAIN window |-> LinesOf(window[i], i)] \in Seq(Seq(Lines(window)))
  BY <1>1, <1>2
<1> QED
  BY <1>3, FlattenType DEF IntermediateEntries

-----------------------------------------------------------------------------
(* Leaving out repeated lines *)

Accs(L) == [kept : Seq(L), last : [Deduplicated -> {Plain[m] : m \in Words} \cup {None}]]

\* Lines of which those that may be left out say something.
Sayable(L) == \A line \in L : line.type \in Deduplicated => line.message \in Words

LEMMA LinesAreSayable == ASSUME NEW window PROVE Sayable(Lines(window))
<1>1. "system_message" \notin Deduplicated
  BY DEF Deduplicated
<1> QED
  BY <1>1 DEF Sayable, Lines

LEMMA WithLineIs ==
  ASSUME NEW L, Sayable(L), NEW acc \in Accs(L), NEW line \in L
  PROVE  /\ WithLine(acc, line) \in Accs(L)
         /\ line.type \notin Deduplicated =>
              WithLine(acc, line).kept = Append(acc.kept, line) /\ WithLine(acc, line).last = acc.last
         /\ line.type \in Deduplicated /\ acc.last[line.type] # Plain[line.message] =>
              /\ WithLine(acc, line).kept = Append(acc.kept, line)
              /\ WithLine(acc, line).last = [acc.last EXCEPT ![line.type] = Plain[line.message]]
         /\ line.type \in Deduplicated /\ acc.last[line.type] = Plain[line.message] =>
              WithLine(acc, line) = acc
<1>1. /\ acc.kept \in Seq(L) /\ acc.last \in [Deduplicated -> {Plain[m] : m \in Words} \cup {None}]
      /\ Append(acc.kept, line) \in Seq(L)
  BY DEF Accs
<1>2. CASE line.type \notin Deduplicated
  BY <1>1, <1>2 DEF WithLine, Accs
<1>3. CASE line.type \in Deduplicated /\ acc.last[line.type] # Plain[line.message]
  <2>1. Plain[line.message] \in {Plain[m] : m \in Words}
    BY <1>3 DEF Sayable
  <2>2. [acc.last EXCEPT ![line.type] = Plain[line.message]] \in [Deduplicated -> {Plain[m] : m \in Words} \cup {None}]
    BY <1>1, <2>1
  <2>3. WithLine(acc, line) = [kept |-> Append(acc.kept, line),
                               last |-> [acc.last EXCEPT ![line.type] = Plain[line.message]]]
    BY <1>3 DEF WithLine, IsNew
  <2> QED
    BY <1>1, <1>3, <2>2, <2>3 DEF Accs
<1>4. CASE line.type \in Deduplicated /\ acc.last[line.type] = Plain[line.message]
  <2>1. WithLine(acc, line) = acc
    BY <1>4 DEF WithLine, IsNew
  <2> QED
    BY <1>4, <2>1
<1> QED
  BY <1>2, <1>3, <1>4

IsNews(acc, line)  == line.type \in Deduplicated /\ acc.last[line.type] # Plain[line.message]
Repeats(acc, line) == line.type \in Deduplicated /\ acc.last[line.type] = Plain[line.message]

LEMMA WithOther ==
  ASSUME NEW L, Sayable(L), NEW acc \in Accs(L), NEW line \in L, line.type \notin Deduplicated
  PROVE  WithLine(acc, line).kept = Append(acc.kept, line) /\ WithLine(acc, line).last = acc.last
  BY WithLineIs

LEMMA WithNewsKept ==
  ASSUME NEW L, Sayable(L), NEW acc \in Accs(L), NEW line \in L, IsNews(acc, line)
  PROVE  WithLine(acc, line).kept = Append(acc.kept, line)
<1>1. WithLine(acc, line) = [kept |-> Append(acc.kept, line),
                             last |-> [acc.last EXCEPT ![line.type] = Plain[line.message]]]
  BY DEF IsNews, WithLine, IsNew
<1> QED
  BY <1>1

LEMMA WithNewsLast ==
  ASSUME NEW L, Sayable(L), NEW acc \in Accs(L), NEW line \in L, IsNews(acc, line)
  PROVE  WithLine(acc, line).last = [acc.last EXCEPT ![line.type] = Plain[line.message]]
<1>1. WithLine(acc, line) = [kept |-> Append(acc.kept, line),
                             last |-> [acc.last EXCEPT ![line.type] = Plain[line.message]]]
  BY DEF IsNews, WithLine, IsNew
<1> QED
  BY <1>1

LEMMA WithRepeated ==
  ASSUME NEW L, Sayable(L), NEW acc \in Accs(L), NEW line \in L, Repeats(acc, line)
  PROVE  WithLine(acc, line) = acc
  BY WithLineIs DEF Repeats

NothingKept == [kept |-> <<>>, last |-> [t \in Deduplicated |-> None]]

\* How the lines are gone through, one by one.
Passes(f, L, lines) ==
  /\ f \in [0..Len(lines) -> Accs(L)] /\ f[0] = NothingKept
  /\ \A n \in 0..(Len(lines) - 1) : f[n + 1] = WithLine(f[n], lines[n + 1])

LEMMA DeduplicateSteps ==
  ASSUME NEW L, Sayable(L), NEW lines \in Seq(L)
  PROVE  \E f : Passes(f, L, lines) /\ Deduplicate(lines) = f[Len(lines)].kept
<1> DEFINE N == Len(lines)
           Is(f) == f = [n \in 0..N |-> IF n = 0 THEN NothingKept ELSE WithLine(f[n - 1], lines[n])]
<1>1. N \in Nat /\ N \in 0..N /\ 0 \in 0..N /\ \A n \in 1..N : lines[n] \in L
  OBVIOUS
<1>2. NothingKept \in Accs(L)
  BY DEF NothingKept, Accs
<1>3. \E f : Is(f)
  <2>1. PICK next : next = [p \in Accs(L) \X (1..N) |-> WithLine(p[1], lines[p[2]])]
    OBVIOUS
  <2>2. next \in [Accs(L) \X (1..N) -> Accs(L)]
    <3>1. ASSUME NEW p \in Accs(L) \X (1..N) PROVE WithLine(p[1], lines[p[2]]) \in Accs(L)
      <4>1. p[1] \in Accs(L) /\ lines[p[2]] \in L
        BY <1>1
      <4> QED
        BY <4>1, WithLineIs
    <3> QED
      BY <2>1, <3>1
  <2>3. PICK g : Steps(g, Accs(L), NothingKept, N, next)
    <3> HIDE DEF N
    <3> QED
      BY <1>1, <1>2, <2>2, Recursion
  <2>4. ASSUME NEW n \in 0..N PROVE g[n] = IF n = 0 THEN NothingKept ELSE WithLine(g[n - 1], lines[n])
    <3>1. CASE n = 0
      BY <2>3, <3>1 DEF Steps
    <3>2. CASE n # 0
      <4>1. PICK j : j = n - 1
        OBVIOUS
      <4>2. j \in 0..(N - 1) /\ j \in 0..N /\ n = j + 1 /\ n \in 1..N
        BY <1>1, <3>2, <4>1
      <4>3. g[j] \in Accs(L) /\ g[j + 1] = next[<<g[j], j + 1>>]
        BY <2>3, <4>2 DEF Steps
      <4>4. <<g[j], n>> \in Accs(L) \X (1..N)
        BY <4>2, <4>3
      <4>5. g[n] = WithLine(g[j], lines[n])
        BY <2>1, <4>2, <4>3, <4>4
      <4> QED
        BY <3>2, <4>1, <4>5
    <3> QED
      BY <3>1, <3>2
  <2>5. g = [n \in 0..N |-> g[n]]
    BY <2>3 DEF Steps
  <2>6. Is(g)
    BY <2>4, <2>5
  <2> QED
    BY <2>6
<1>4. PICK f : f = CHOOSE g : Is(g)
  OBVIOUS
<1>5. Is(f)
  BY <1>3, <1>4
<1>6. Deduplicate(lines) = f[N].kept
  BY <1>4 DEF Deduplicate, NothingKept
<1>7. f[0] = NothingKept
  BY <1>1, <1>5
<1>8. ASSUME NEW n \in 0..(N - 1) PROVE f[n + 1] = WithLine(f[n], lines[n + 1])
  <2>1. PICK j : j = n + 1
    OBVIOUS
  <2>2. j \in 0..N /\ j # 0 /\ j - 1 = n
    BY <1>1, <2>1
  <2>3. f[j] = WithLine(f[j - 1], lines[j])
    BY <1>5, <2>2
  <2> QED
    BY <2>1, <2>2, <2>3
<1>9. f \in [0..N -> Accs(L)]
  <2>1. PICK T : T = {n \in 0..N : f[n] \in Accs(L)}
    OBVIOUS
  <2>2. 0 \in T
    BY <1>1, <1>2, <1>7, <2>1
  <2>3. ASSUME NEW n \in 0..(N - 1), n \in T PROVE n + 1 \in T
    <3>1. f[n] \in Accs(L) /\ n + 1 \in 1..N /\ n + 1 \in 0..N /\ lines[n + 1] \in L
      BY <1>1, <2>1, <2>3
    <3>2. f[n + 1] = WithLine(f[n], lines[n + 1])
      BY <1>8
    <3>3. f[n + 1] \in Accs(L)
      <4>1. PICK acc, line : acc = f[n] /\ line = lines[n + 1]
        OBVIOUS
      <4>2. WithLine(acc, line) \in Accs(L)
        BY <3>1, <4>1, WithLineIs
      <4> QED
        BY <3>2, <4>1, <4>2
    <3> QED
      BY <2>1, <3>1, <3>3
  <2>4. 0..N \subseteq T
    BY <1>1, <2>2, <2>3, InductionTo
  <2>5. \A n \in 0..N : f[n] \in Accs(L)
    BY <2>1, <2>4
  <2>6. f = [n \in 0..N |-> f[n]]
    BY <1>5
  <2> QED
    BY <2>5, <2>6
<1>10. Passes(f, L, lines)
  BY <1>7, <1>8, <1>9 DEF Passes
<1> QED
  BY <1>6, <1>10

LEMMA DeduplicateType ==
  ASSUME NEW L, Sayable(L), NEW lines \in Seq(L)
  PROVE  Deduplicate(lines) \in Seq(L)
<1>1. PICK f : Passes(f, L, lines) /\ Deduplicate(lines) = f[Len(lines)].kept
  BY DeduplicateSteps
<1>2. Len(lines) \in 0..Len(lines)
  OBVIOUS
<1>3. f[Len(lines)] \in Accs(L)
  BY <1>1, <1>2 DEF Passes
<1> QED
  BY <1>1, <1>3 DEF Accs

LEMMA LastAppended == ASSUME NEW S, NEW s \in Seq(S), NEW e \in S PROVE Last(Append(s, e)) = e /\ Append(s, e) # <<>>
  BY AppendIs DEF Last

\* Of each kind of line the last one kept says what the last one recorded says.
LEMMA NewestKept ==
  ASSUME NEW L, Sayable(L), NEW lines \in Seq(L), NEW t \in Deduplicated, OfType(lines, t) # <<>>
  PROVE  /\ OfType(Deduplicate(lines), t) # <<>>
         /\ Plain[Last(OfType(Deduplicate(lines), t)).message] = Plain[Last(OfType(lines, t)).message]
<1>1. PICK f : Passes(f, L, lines) /\ Deduplicate(lines) = f[Len(lines)].kept
  BY DeduplicateSteps
<1>2. PICK N : N = Len(lines)
  OBVIOUS
<1> DEFINE Says(kept, last, recorded) ==
             /\ recorded = <<>> => last[t] = None
             /\ recorded # <<>> => /\ kept # <<>>
                                   /\ last[t] = Plain[Last(recorded).message]
                                   /\ last[t] = Plain[Last(kept).message]
           At0(n) == Says(OfType(f[n].kept, t), f[n].last, OfType(Start(lines, n), t))
<1>3. PICK T : T = {n \in 0..N : At0(n)}
  OBVIOUS
<1>4. 0 \in T
  <2>1. f[0].kept = <<>> /\ f[0].last[t] = None /\ Start(lines, 0) = <<>>
    BY <1>1, Starts DEF Passes, NothingKept
  <2>2. At0(0)
    BY <2>1, OfTypeEmpty
  <2>3. N \in Nat
    BY <1>2
  <2> QED
    BY <1>3, <2>2, <2>3
<1>5. ASSUME NEW n \in 0..(N - 1), n \in T PROVE n + 1 \in T
  <2>1. PICK acc, line, before : acc = f[n] /\ line = lines[n + 1] /\ before = Start(lines, n)
    OBVIOUS
  <2>2. PICK new, after : new = f[n + 1] /\ after = Start(lines, n + 1)
    OBVIOUS
  <2>3. /\ n + 1 \in 0..N /\ n \in 0..N /\ line \in L /\ before \in Seq(L)
        /\ after = Append(before, line)
    BY <1>2, <2>1, <2>2, Starts
  <2>4. acc \in Accs(L) /\ new = WithLine(acc, line)
    BY <1>1, <1>2, <2>1, <2>2, <2>3 DEF Passes
  <2>5. acc.kept \in Seq(L) /\ acc.last \in [Deduplicated -> {Plain[m] : m \in Words} \cup {None}]
    BY <2>4 DEF Accs
  <2>6. PICK kept, recorded : kept = OfType(acc.kept, t) /\ recorded = OfType(before, t)
    OBVIOUS
  <2>7. kept \in Seq(L) /\ recorded \in Seq(L)
    BY <2>3, <2>5, <2>6, OfTypeAppend
  <2>8. Says(kept, acc.last, recorded)
    BY <1>3, <1>5, <2>1, <2>6
  <2>9. Says(OfType(new.kept, t), new.last, OfType(after, t))
    <3>1. CASE line.type # t
      <4>1. OfType(after, t) = recorded
        BY <2>3, <2>6, <3>1, OfTypeAppend
      <4>2. OfType(Append(acc.kept, line), t) = kept
        BY <2>3, <2>5, <2>6, <3>1, OfTypeAppend
      <4>3. CASE line.type \notin Deduplicated
        <5>1. new.kept = Append(acc.kept, line) /\ new.last = acc.last
          BY <2>3, <2>4, <4>3, WithOther
        <5> QED
          BY <2>8, <4>1, <4>2, <5>1
      <4>4. CASE IsNews(acc, line)
        <5>1. /\ new.kept = Append(acc.kept, line)
              /\ new.last = [acc.last EXCEPT ![line.type] = Plain[line.message]]
          <6>1. line \in L /\ acc \in Accs(L) /\ IsNews(acc, line)
            BY <2>3, <2>4, <4>4
          <6>2. WithLine(acc, line).kept = Append(acc.kept, line)
            BY <6>1, WithNewsKept
          <6>3. WithLine(acc, line).last = [acc.last EXCEPT ![line.type] = Plain[line.message]]
            BY <6>1, WithNewsLast
          <6> QED
            BY <2>4, <6>2, <6>3
        <5>2. new.last[t] = acc.last[t]
          BY <2>5, <3>1, <5>1
        <5> QED
          BY <2>8, <4>1, <4>2, <5>1, <5>2
      <4>5. CASE Repeats(acc, line)
        <5>1. new = acc
          BY <2>3, <2>4, <4>5, WithRepeated
        <5> QED
          BY <2>6, <2>8, <4>1, <5>1
      <4> QED
        BY <4>3, <4>4, <4>5 DEF IsNews, Repeats
    <3>2. CASE line.type = t
      <4>1. OfType(after, t) = Append(recorded, line)
        BY <2>3, <2>6, <3>2, OfTypeAppend
      <4>2. OfType(Append(acc.kept, line), t) = Append(kept, line)
        BY <2>3, <2>5, <2>6, <3>2, OfTypeAppend
      <4>3. Last(Append(recorded, line)) = line /\ Append(recorded, line) # <<>>
        BY <2>3, <2>7, LastAppended
      <4>4. Last(Append(kept, line)) = line /\ Append(kept, line) # <<>>
        BY <2>3, <2>7, LastAppended
      <4>5. line.message \in Words /\ Plain[line.message] # None
        BY <2>3, <3>2, TextsAssumption DEF Sayable, Words
      <4>6. CASE IsNews(acc, line)
        <5>1. /\ new.kept = Append(acc.kept, line)
              /\ new.last = [acc.last EXCEPT ![line.type] = Plain[line.message]]
          <6>1. line \in L /\ acc \in Accs(L) /\ IsNews(acc, line)
            BY <2>3, <2>4, <4>6
          <6>2. WithLine(acc, line).kept = Append(acc.kept, line)
            BY <6>1, WithNewsKept
          <6>3. WithLine(acc, line).last = [acc.last EXCEPT ![line.type] = Plain[line.message]]
            BY <6>1, WithNewsLast
          <6> QED
            BY <2>4, <6>2, <6>3
        <5>2. new.last[t] = Plain[line.message]
          BY <2>5, <3>2, <5>1
        <5> QED
          BY <4>1, <4>2, <4>3, <4>4, <5>1, <5>2
      <4>7. CASE Repeats(acc, line)
        <5>1. new = acc
          BY <2>3, <2>4, <3>2, <4>7, WithRepeated
        <5>2. acc.last[t] = Plain[line.message] /\ recorded # <<>>
          BY <2>8, <3>2, <4>5, <4>7 DEF Repeats
        <5>3. kept # <<>> /\ acc.last[t] = Plain[Last(kept).message]
          BY <2>8, <5>2
        <5> QED
          BY <2>6, <4>1, <4>3, <5>1, <5>2, <5>3
      <4> QED
        BY <3>2, <4>6, <4>7 DEF IsNews, Repeats
    <3> QED
      BY <3>1, <3>2
  <2> QED
    BY <1>3, <2>2, <2>3, <2>9
<1>6. N \in Nat /\ Start(lines, N) = lines
  BY <1>2, Starts
<1>7. 0..N \subseteq T
  BY <1>4, <1>5, <1>6, InductionTo
<1>8. At0(N)
  BY <1>3, <1>6, <1>7
<1> QED
  BY <1>1, <1>2, <1>6, <1>8

\* The elements of s that are in E.
Among(s, E) == At(s, {i \in DOMAIN s : s[i] \in E})

LEMMA AmongEmpty == ASSUME NEW E PROVE Among(<<>>, E) = <<>>
  BY AtEmpty DEF Among

LEMMA AmongAppend ==
  ASSUME NEW S, NEW s \in Seq(S), NEW e \in S, NEW E
  PROVE  /\ Among(s, E) \in Seq(S)
         /\ e \in E => Among(Append(s, e), E) = Append(Among(s, E), e)
         /\ e \notin E => Among(Append(s, e), E) = Among(s, E)
<1>1. PICK longer, I, J : /\ longer = Append(s, e)
                          /\ I = {i \in DOMAIN s : s[i] \in E}
                          /\ J = {i \in DOMAIN longer : longer[i] \in E}
  OBVIOUS
<1>2. \A i \in DOMAIN s : i \in I <=> i \in J
  BY <1>1, AppendIs
<1>3. Len(s) + 1 \in J <=> e \in E
  BY <1>1, AppendIs
<1>4. At(s, I) = At(s, J)
  BY <1>2, AtSame
<1>5. At(longer, J) = IF Len(s) + 1 \in J THEN Append(At(s, J), e) ELSE At(s, J)
  BY <1>1, AtAppend
<1>6. At(s, I) \in Seq(S)
  BY AtType
<1>7. Among(s, E) = At(s, I) /\ Among(longer, E) = At(longer, J)
  BY <1>1 DEF Among
<1> QED
  BY <1>1, <1>3, <1>4, <1>5, <1>6, <1>7

\* No line of a type that is never left out is left out.
LEMMA OthersKept ==
  ASSUME NEW L, Sayable(L), NEW lines \in Seq(L), NEW E, \A line \in E : line.type \notin Deduplicated
  PROVE  Among(Deduplicate(lines), E) = Among(lines, E)
<1>1. PICK f : Passes(f, L, lines) /\ Deduplicate(lines) = f[Len(lines)].kept
  BY DeduplicateSteps
<1>2. PICK N : N = Len(lines)
  OBVIOUS
<1>3. PICK T : T = {n \in 0..N : Among(f[n].kept, E) = Among(Start(lines, n), E)}
  OBVIOUS
<1>4. N \in Nat /\ Start(lines, N) = lines
  BY <1>2, Starts
<1>5. 0 \in T
  <2>1. f[0].kept = <<>> /\ Start(lines, 0) = <<>>
    BY <1>1, Starts DEF Passes, NothingKept
  <2> QED
    BY <1>3, <1>4, <2>1
<1>6. ASSUME NEW n \in 0..(N - 1), n \in T PROVE n + 1 \in T
  <2>1. PICK acc, line, before : acc = f[n] /\ line = lines[n + 1] /\ before = Start(lines, n)
    OBVIOUS
  <2>2. PICK new, after : new = f[n + 1] /\ after = Start(lines, n + 1)
    OBVIOUS
  <2>3. /\ n + 1 \in 0..N /\ n \in 0..N /\ line \in L /\ before \in Seq(L)
        /\ after = Append(before, line)
    BY <1>2, <2>1, <2>2, Starts
  <2>4. acc \in Accs(L) /\ new = WithLine(acc, line)
    BY <1>1, <1>2, <2>1, <2>2, <2>3 DEF Passes
  <2>5. PICK kept : kept = acc.kept
    OBVIOUS
  <2>6. kept \in Seq(L) /\ Among(kept, E) = Among(before, E)
    BY <1>3, <1>6, <2>1, <2>4, <2>5 DEF Accs
  <2>7. \/ new.kept = Append(kept, line)
        \/ line.type \in Deduplicated /\ new.kept = kept
    <3>1. CASE line.type \notin Deduplicated
      BY <2>3, <2>4, <2>5, <3>1, WithOther
    <3>2. CASE IsNews(acc, line)
      <4>1. WithLine(acc, line).kept = Append(acc.kept, line)
        BY <2>3, <2>4, <3>2, WithNewsKept
      <4> QED
        BY <2>4, <2>5, <4>1
    <3>3. CASE Repeats(acc, line)
      BY <2>3, <2>4, <2>5, <3>3, WithRepeated DEF Repeats
    <3> QED
      BY <3>1, <3>2, <3>3 DEF IsNews, Repeats
  <2>8. Among(new.kept, E) = Among(after, E)
    <3>1. CASE line \in E
      <4>1. new.kept = Append(kept, line)
        BY <2>7, <3>1
      <4>2. Among(after, E) = Append(Among(before, E), line)
        BY <2>3, <3>1, AmongAppend
      <4>3. Among(Append(kept, line), E) = Append(Among(kept, E), line)
        <5>1. kept \in Seq(L) /\ line \in L
          BY <2>3, <2>6
        <5> QED
          BY <3>1, <5>1, AmongAppend
      <4> QED
        BY <2>6, <4>1, <4>2, <4>3
    <3>2. CASE line \notin E
      <4>1. Among(after, E) = Among(before, E)
        BY <2>3, <3>2, AmongAppend
      <4>2. Among(Append(kept, line), E) = Among(kept, E)
        BY <2>3, <2>6, <3>2, AmongAppend
      <4> QED
        BY <2>6, <2>7, <4>1, <4>2
    <3> QED
      BY <3>1, <3>2
  <2> QED
    BY <1>3, <2>2, <2>3, <2>8
<1>7. 0..N \subseteq T
  BY <1>4, <1>5, <1>6, InductionTo
<1>8. N \in T
  BY <1>4, <1>7
<1> QED
  BY <1>1, <1>2, <1>3, <1>4, <1>8

-----------------------------------------------------------------------------
(* The entries, and the blocks that items are merged into *)

LEMMA LastOfType == ASSUME NEW S, NEW s \in Seq(S), NEW n \in Nat PROVE LastOf(s, n) \in Seq(S)
  BY DEF LastOf

LEMMA ShownType == ASSUME NEW S, NEW s \in Seq(S) PROVE Shown(s) \in Seq(S)
  BY TranscriptAssumption DEF Shown

EntriesTyped == entries \in Seq(Entries)

LEMMA Typed == Spec => []EntriesTyped
<1>1. Init => EntriesTyped
  BY DEF Init, EntriesTyped
<1>2. EntriesTyped /\ [Next]_vars => EntriesTyped'
  <2> SUFFICES ASSUME EntriesTyped, [Next]_vars PROVE EntriesTyped'
    OBVIOUS
  <2>1. CASE Add
    BY <2>1 DEF Add, EntriesTyped, Entries
  <2>2. CASE Summarize
    <3>1. PICK summary \in Summaries : entries' = <<[type |-> "history_summary", message |-> summary]>>
                                                 \o LastOf(entries, NUM_HISTORY_TO_SUMMARIZE)
      BY <2>2 DEF Summarize
    <3>2. [type |-> "history_summary", message |-> summary] \in Entries
      BY DEF Entries
    <3>3. LastOf(entries, NUM_HISTORY_TO_SUMMARIZE) \in Seq(Entries)
      BY TranscriptAssumption, LastOfType DEF EntriesTyped
    <3> QED
      BY <3>1, <3>2, <3>3 DEF EntriesTyped
  <2>3. CASE Reset
    BY <2>3 DEF Reset, EntriesTyped
  <2>4. CASE UNCHANGED vars
    BY <2>4 DEF vars, EntriesTyped
  <2> QED
    BY <2>1, <2>2, <2>3, <2>4 DEF Next
<1> QED
  BY <1>1, <1>2, PTL DEF Spec

\* Items whose lines are in K, parts of a list that are made of them, and the
\* list with the block that is not in it yet.
ItemsIn(K) == {item \in [image : BOOLEAN, line : K] : item.image => item.line.message = Placeholder}

Parts(K) == [type : {"text"}, lines : Seq(K)] \cup [type : {"image"}, source : {line.source : line \in K}]

Blocks(K) == [list : Seq(Parts(K)), block : Seq(K)]

LEMMA ClosedType == ASSUME NEW K, NEW acc \in Blocks(K) PROVE Closed(acc) \in Seq(Parts(K))
<1>1. acc.list \in Seq(Parts(K)) /\ acc.block \in Seq(K)
  BY DEF Blocks
<1>2. Text(acc.block) \in Parts(K)
  BY <1>1 DEF Text, Parts
<1> QED
  BY <1>1, <1>2 DEF Closed

LEMMA WithItemIs ==
  ASSUME NEW K, NEW acc \in Blocks(K), NEW item \in ItemsIn(K)
  PROVE  WithItem(acc, item) \in Blocks(K)
<1>1. acc.list \in Seq(Parts(K)) /\ acc.block \in Seq(K) /\ item.line \in K /\ item.image \in BOOLEAN
  BY DEF Blocks, ItemsIn
<1>2. CASE item.image
  <2>1. Closed(acc) \in Seq(Parts(K)) /\ Image(item.line.source) \in Parts(K)
    BY <1>1, ClosedType DEF Image, Parts
  <2>2. Append(Closed(acc), Image(item.line.source)) \in Seq(Parts(K)) /\ <<>> \in Seq(K)
    BY <2>1
  <2> QED
    BY <1>2, <2>2 DEF WithItem, WithImage, Blocks
<1>3. CASE ~item.image /\ item.line.message = Placeholder
  BY <1>3 DEF WithItem
<1>4. CASE ~item.image /\ item.line.message # Placeholder
  <2>1. Append(acc.block, item.line) \in Seq(K)
    BY <1>1
  <2> QED
    BY <1>4, <2>1 DEF WithItem, Blocks
<1> QED
  BY <1>2, <1>3, <1>4

NothingMerged == [list |-> <<>>, block |-> <<>>]

\* How the items are gone through, one by one.
Merges(f, K, items) ==
  /\ f \in [0..Len(items) -> Blocks(K)] /\ f[0] = NothingMerged
  /\ \A n \in 0..(Len(items) - 1) : f[n + 1] = WithItem(f[n], items[n + 1])

LEMMA MergeSteps ==
  ASSUME NEW K, NEW items \in Seq(ItemsIn(K))
  PROVE  \E f : Merges(f, K, items) /\ Merge(items) = f[Len(items)]
<1> DEFINE N == Len(items)
           Is(f) == f = [n \in 0..N |-> IF n = 0 THEN NothingMerged ELSE WithItem(f[n - 1], items[n])]
<1>1. N \in Nat /\ N \in 0..N /\ 0 \in 0..N /\ \A n \in 1..N : items[n] \in ItemsIn(K)
  OBVIOUS
<1>2. NothingMerged \in Blocks(K)
  BY DEF NothingMerged, Blocks
<1>3. \E f : Is(f)
  <2>1. PICK next : next = [p \in Blocks(K) \X (1..N) |-> WithItem(p[1], items[p[2]])]
    OBVIOUS
  <2>2. next \in [Blocks(K) \X (1..N) -> Blocks(K)]
    <3>1. ASSUME NEW p \in Blocks(K) \X (1..N) PROVE WithItem(p[1], items[p[2]]) \in Blocks(K)
      <4>1. p[1] \in Blocks(K) /\ items[p[2]] \in ItemsIn(K)
        BY <1>1
      <4> QED
        BY <4>1, WithItemIs
    <3> QED
      BY <2>1, <3>1
  <2>3. PICK g : Steps(g, Blocks(K), NothingMerged, N, next)
    <3> HIDE DEF N
    <3> QED
      BY <1>1, <1>2, <2>2, Recursion
  <2>4. ASSUME NEW n \in 0..N PROVE g[n] = IF n = 0 THEN NothingMerged ELSE WithItem(g[n - 1], items[n])
    <3>1. CASE n = 0
      BY <2>3, <3>1 DEF Steps
    <3>2. CASE n # 0
      <4>1. PICK j : j = n - 1
        OBVIOUS
      <4>2. j \in 0..(N - 1) /\ j \in 0..N /\ n = j + 1 /\ n \in 1..N
        BY <1>1, <3>2, <4>1
      <4>3. g[j] \in Blocks(K) /\ g[j + 1] = next[<<g[j], j + 1>>]
        BY <2>3, <4>2 DEF Steps
      <4>4. <<g[j], n>> \in Blocks(K) \X (1..N)
        BY <4>2, <4>3
      <4>5. g[n] = WithItem(g[j], items[n])
        BY <2>1, <4>2, <4>3, <4>4
      <4> QED
        BY <3>2, <4>1, <4>5
    <3> QED
      BY <3>1, <3>2
  <2>5. g = [n \in 0..N |-> g[n]]
    BY <2>3 DEF Steps
  <2>6. Is(g)
    BY <2>4, <2>5
  <2> QED
    BY <2>6
<1>4. PICK f : f = CHOOSE g : Is(g)
  OBVIOUS
<1>5. Is(f)
  BY <1>3, <1>4
<1>6. Merge(items) = f[N]
  BY <1>4 DEF Merge, NothingMerged
<1>7. f[0] = NothingMerged
  BY <1>1, <1>5
<1>8. ASSUME NEW n \in 0..(N - 1) PROVE f[n + 1] = WithItem(f[n], items[n + 1])
  <2>1. PICK j : j = n + 1
    OBVIOUS
  <2>2. j \in 0..N /\ j # 0 /\ j - 1 = n
    BY <1>1, <2>1
  <2>3. f[j] = WithItem(f[j - 1], items[j])
    BY <1>5, <2>2
  <2> QED
    BY <2>1, <2>2, <2>3
<1>9. f \in [0..N -> Blocks(K)]
  <2>1. PICK T : T = {n \in 0..N : f[n] \in Blocks(K)}
    OBVIOUS
  <2>2. 0 \in T
    BY <1>1, <1>2, <1>7, <2>1
  <2>3. ASSUME NEW n \in 0..(N - 1), n \in T PROVE n + 1 \in T
    <3>1. f[n] \in Blocks(K) /\ n + 1 \in 1..N /\ n + 1 \in 0..N /\ items[n + 1] \in ItemsIn(K)
      BY <1>1, <2>1, <2>3
    <3>2. f[n + 1] = WithItem(f[n], items[n + 1])
      BY <1>8
    <3>3. f[n + 1] \in Blocks(K)
      <4>1. PICK acc, item : acc = f[n] /\ item = items[n + 1]
        OBVIOUS
      <4>2. WithItem(acc, item) \in Blocks(K)
        BY <3>1, <4>1, WithItemIs
      <4> QED
        BY <3>2, <4>1, <4>2
    <3> QED
      BY <2>1, <3>1, <3>3
  <2>4. 0..N \subseteq T
    BY <1>1, <2>2, <2>3, InductionTo
  <2>5. \A n \in 0..N : f[n] \in Blocks(K)
    BY <2>1, <2>4
  <2>6. f = [n \in 0..N |-> f[n]]
    BY <1>5
  <2> QED
    BY <2>5, <2>6
<1>10. Merges(f, K, items)
  BY <1>7, <1>8, <1>9 DEF Merges
<1> QED
  BY <1>6, <1>10

LEMMA MergeEmpty == Merge(<<>>) = NothingMerged
<1>1. <<>> \in Seq(ItemsIn({})) /\ Len(<<>>) = 0
  OBVIOUS
<1>2. \E f : Merges(f, {}, <<>>) /\ Merge(<<>>) = f[Len(<<>>)]
  BY <1>1, MergeSteps
<1> QED
  BY <1>1, <1>2 DEF Merges

LEMMA MergeType == ASSUME NEW K, NEW items \in Seq(ItemsIn(K)) PROVE Merge(items) \in Blocks(K)
<1>1. PICK f : Merges(f, K, items) /\ Merge(items) = f[Len(items)]
  BY MergeSteps
<1>2. Len(items) \in 0..Len(items)
  OBVIOUS
<1> QED
  BY <1>1, <1>2 DEF Merges

LEMMA MergeAppend ==
  ASSUME NEW K, NEW items \in Seq(ItemsIn(K)), NEW item \in ItemsIn(K)
  PROVE  Merge(Append(items, item)) = WithItem(Merge(items), item)
<1>1. PICK N, longer : N = Len(items) /\ longer = Append(items, item)
  OBVIOUS
<1>2. /\ N \in Nat /\ longer \in Seq(ItemsIn(K)) /\ Len(longer) = N + 1 /\ longer[N + 1] = item
      /\ \A i \in 1..N : longer[i] = items[i]
  BY <1>1, AppendIs
<1>3. PICK f : Merges(f, K, items) /\ Merge(items) = f[Len(items)]
  BY MergeSteps
<1>4. PICK g : Merges(g, K, longer) /\ Merge(longer) = g[Len(longer)]
  BY <1>2, MergeSteps
<1>5. f[0] = NothingMerged /\ \A n \in 0..(N - 1) : f[n + 1] = WithItem(f[n], items[n + 1])
  BY <1>1, <1>3 DEF Merges
<1>6. g[0] = NothingMerged /\ \A n \in 0..N : g[n + 1] = WithItem(g[n], longer[n + 1])
  BY <1>2, <1>4 DEF Merges
<1>7. PICK T : T = {n \in 0..N : f[n] = g[n]}
  OBVIOUS
<1>8. 0 \in T
  BY <1>2, <1>5, <1>6, <1>7
<1>9. ASSUME NEW n \in 0..(N - 1), n \in T PROVE n + 1 \in T
  <2>1. n \in 0..N /\ n + 1 \in 0..N /\ n + 1 \in 1..N /\ f[n] = g[n]
    BY <1>2, <1>7, <1>9
  <2>2. longer[n + 1] = items[n + 1]
    BY <1>2, <2>1
  <2>3. f[n + 1] = WithItem(f[n], items[n + 1])
    BY <1>5
  <2>4. g[n + 1] = WithItem(g[n], longer[n + 1])
    BY <1>6, <2>1
  <2> QED
    BY <1>7, <2>1, <2>2, <2>3, <2>4
<1>10. 0..N \subseteq T
  BY <1>2, <1>8, <1>9, InductionTo
<1>11. f[N] = g[N]
  BY <1>2, <1>7, <1>10
<1>12. g[N + 1] = WithItem(g[N], longer[N + 1])
  BY <1>2, <1>6
<1> QED
  BY <1>1, <1>2, <1>3, <1>4, <1>11, <1>12

\* The three ways to go on.
LEMMA MergePlaceholder ==
  ASSUME NEW K, NEW items \in Seq(ItemsIn(K)), NEW item \in ItemsIn(K),
         ~item.image, item.line.message = Placeholder
  PROVE  Merge(Append(items, item)) = Merge(items)
  BY MergeAppend DEF WithItem

LEMMA MergeText ==
  ASSUME NEW K, NEW items \in Seq(ItemsIn(K)), NEW item \in ItemsIn(K),
         ~item.image, item.line.message # Placeholder
  PROVE  /\ Merge(Append(items, item)).list = Merge(items).list
         /\ Merge(Append(items, item)).block = Append(Merge(items).block, item.line)
<1>1. PICK acc, longer : acc = Merge(items) /\ longer = Merge(Append(items, item))
  OBVIOUS
<1>2. acc \in Blocks(K)
  BY <1>1, MergeType
<1>3. longer = WithItem(acc, item)
  BY <1>1, MergeAppend
<1>4. longer = [acc EXCEPT !.block = Append(@, item.line)]
  BY <1>3 DEF WithItem
<1>5. longer.list = acc.list /\ longer.block = Append(acc.block, item.line)
  BY <1>2, <1>4 DEF Blocks
<1> QED
  BY <1>1, <1>5

LEMMA MergeImage ==
  ASSUME NEW K, NEW items \in Seq(ItemsIn(K)), NEW item \in ItemsIn(K), item.image
  PROVE  /\ Merge(Append(items, item)).list = Append(Closed(Merge(items)), Image(item.line.source))
         /\ Merge(Append(items, item)).block = <<>>
  BY MergeAppend DEF WithItem, WithImage

\* What is read in a list.
PartText(part) == IF part.type = "text" THEN part.lines ELSE <<>>

LEMMA TextsEmpty == Texts(<<>>) = <<>>
<1>1. [i \in DOMAIN <<>> |-> IF <<>>[i].type = "text" THEN <<>>[i].lines ELSE <<>>] = <<>>
  OBVIOUS
<1> QED
  BY <1>1, FlattenEmpty DEF Texts

LEMMA TextsAppend ==
  ASSUME NEW K, NEW list \in Seq(Parts(K)), NEW part \in Parts(K)
  PROVE  /\ Texts(list) \in Seq(K) /\ PartText(part) \in Seq(K)
         /\ Texts(Append(list, part)) = Texts(list) \o PartText(part)
<1>1. ASSUME NEW p \in Parts(K) PROVE PartText(p) \in Seq(K)
  BY DEF Parts, PartText
<1>2. PICK N, longer : N = Len(list) /\ longer = Append(list, part)
  OBVIOUS
<1>3. /\ N \in Nat /\ DOMAIN list = 1..N /\ DOMAIN longer = 1..(N + 1) /\ longer[N + 1] = part
      /\ \A i \in 1..N : longer[i] = list[i] /\ list[i] \in Parts(K)
  BY <1>2, AppendIs
<1>4. PICK f, g : f = [i \in DOMAIN list |-> PartText(list[i])] /\ g = [i \in DOMAIN longer |-> PartText(longer[i])]
  OBVIOUS
<1>5. Texts(list) = FlattenSeq(f) /\ Texts(longer) = FlattenSeq(g)
  BY <1>4 DEF Texts, PartText
<1>6. f \in [1..N -> Seq(K)]
  BY <1>1, <1>3, <1>4
<1>7. g \in [1..(N + 1) -> Seq(K)]
  BY <1>1, <1>3, <1>4
<1>8. \A i \in 1..N : g[i] = f[i]
  BY <1>3, <1>4
<1>9. g[N + 1] = PartText(part)
  BY <1>3, <1>4
<1>10. f \in Seq(Seq(K)) /\ g = Append(f, PartText(part))
  BY <1>3, <1>6, <1>7, <1>8, <1>9, OneMore
<1>11. FlattenSeq(f) \in Seq(K) /\ FlattenSeq(Append(f, PartText(part))) = FlattenSeq(f) \o PartText(part)
  BY <1>1, <1>10, FlattenType, FlattenAppend
<1> QED
  BY <1>1, <1>2, <1>5, <1>10, <1>11

\* The block is read as if it were in the list.
LEMMA TextsClosed ==
  ASSUME NEW K, NEW acc \in Blocks(K)
  PROVE  /\ Texts(acc.list) \in Seq(K)
         /\ Texts(Closed(acc)) = Texts(acc.list) \o acc.block
<1>1. acc.list \in Seq(Parts(K)) /\ acc.block \in Seq(K)
  BY DEF Blocks
<1>2. PICK list, block : list = acc.list /\ block = acc.block
  OBVIOUS
<1>3. Text(block) \in Parts(K) /\ PartText(Text(block)) = block
  BY <1>1, <1>2 DEF Text, Parts, PartText
<1>4. Texts(list) \in Seq(K) /\ Texts(Append(list, Text(block))) = Texts(list) \o block
  BY <1>1, <1>2, <1>3, TextsAppend
<1>5. CASE block = <<>>
  <2>1. Closed(acc) = list /\ Texts(list) \o block = Texts(list)
    BY <1>2, <1>4, <1>5 DEF Closed
  <2> QED
    BY <1>2, <1>4, <2>1
<1>6. CASE block # <<>>
  BY <1>2, <1>4, <1>6 DEF Closed
<1> QED
  BY <1>5, <1>6

LinesIn(items) == [i \in DOMAIN items |-> items[i].line]

LEMMA LinesInEmpty == LinesIn(<<>>) = <<>>
  BY DEF LinesIn

LEMMA LinesInAppend ==
  ASSUME NEW K, NEW items \in Seq(ItemsIn(K)), NEW item \in ItemsIn(K)
  PROVE  /\ LinesIn(items) \in Seq(K) /\ item.line \in K
         /\ LinesIn(Append(items, item)) = Append(LinesIn(items), item.line)
<1>1. PICK N, longer : N = Len(items) /\ longer = Append(items, item)
  OBVIOUS
<1>2. /\ N \in Nat /\ DOMAIN items = 1..N /\ DOMAIN longer = 1..(N + 1) /\ longer[N + 1] = item
      /\ \A i \in 1..N : longer[i] = items[i] /\ items[i] \in ItemsIn(K)
  BY <1>1, AppendIs
<1>3. PICK f, g : f = LinesIn(items) /\ g = LinesIn(longer)
  OBVIOUS
<1>4. item.line \in K /\ \A i \in 1..N : items[i].line \in K
  BY <1>2 DEF ItemsIn
<1>5. f \in [1..N -> K]
  BY <1>2, <1>3, <1>4 DEF LinesIn
<1>6. g \in [1..(N + 1) -> K]
  BY <1>2, <1>3, <1>4 DEF LinesIn
<1>7. g[N + 1] = item.line /\ \A i \in 1..N : g[i] = f[i]
  BY <1>2, <1>3 DEF LinesIn
<1>8. f \in Seq(K) /\ g = Append(f, g[N + 1])
  BY <1>2, <1>5, <1>6, <1>7, OneMore
<1> QED
  BY <1>1, <1>3, <1>4, <1>7, <1>8

\* What is read is what the items say, but for the placeholders.
LEMMA MergedTexts ==
  ASSUME NEW K, NEW items \in Seq(ItemsIn(K))
  PROVE  Texts(Merged(items)) = Written(LinesIn(items))
<1>1. PICK T : T = {s \in Seq(ItemsIn(K)) : Texts(Merged(s)) = Written(LinesIn(s))}
  OBVIOUS
<1>2. <<>> \in T
  <2>1. Closed(NothingMerged) = <<>>
    BY DEF Closed, NothingMerged
  <2>2. Texts(Merged(<<>>)) = <<>>
    BY <2>1, MergeEmpty, TextsEmpty DEF Merged
  <2>3. Written(LinesIn(<<>>)) = <<>>
    BY LinesInEmpty, WrittenEmpty
  <2>4. <<>> \in Seq(ItemsIn(K))
    OBVIOUS
  <2> QED
    BY <1>1, <2>2, <2>3, <2>4
<1>3. ASSUME NEW s \in Seq(ItemsIn(K)), NEW item \in ItemsIn(K), s \in T PROVE Append(s, item) \in T
  <2>1. PICK acc, longer, new, said, line : /\ acc = Merge(s) /\ longer = Append(s, item)
                                            /\ new = Merge(longer) /\ said = LinesIn(s) /\ line = item.line
    OBVIOUS
  <2>2. longer \in Seq(ItemsIn(K))
    BY <2>1, AppendIs
  <2>3. acc \in Blocks(K) /\ new \in Blocks(K)
    BY <2>1, <2>2, MergeType
  <2>4. said \in Seq(K) /\ line \in K /\ LinesIn(longer) = Append(said, line)
    BY <2>1, LinesInAppend
  <2>5. PICK before, block, read : before = Texts(acc.list) /\ block = acc.block /\ read = Texts(Closed(acc))
    OBVIOUS
  <2>6. before \in Seq(K) /\ block \in Seq(K) /\ read = before \o block
    BY <2>3, <2>5, TextsClosed DEF Blocks
  <2>7. read = Written(said)
    BY <1>1, <1>3, <2>1, <2>5 DEF Merged
  <2>8. Texts(Closed(new)) = Texts(new.list) \o new.block
    BY <2>3, TextsClosed
  <2>9. Texts(Closed(new)) = Written(Append(said, line))
    <3>1. CASE item.image
      <4>1. new.list = Append(Closed(acc), Image(line.source)) /\ new.block = <<>>
        BY <2>1, <3>1, MergeImage
      <4>2. Closed(acc) \in Seq(Parts(K)) /\ Image(line.source) \in Parts(K) /\ PartText(Image(line.source)) = <<>>
        BY <2>3, <2>4, ClosedType DEF Image, Parts, PartText
      <4>3. Texts(new.list) = read \o <<>>
        BY <2>5, <4>1, <4>2, TextsAppend
      <4>4. read \in Seq(K)
        BY <2>6
      <4>5. Texts(Closed(new)) = read
        BY <2>8, <4>1, <4>3, <4>4
      <4>6. line.message = Placeholder
        BY <2>1, <3>1 DEF ItemsIn
      <4>7. Written(Append(said, line)) = Written(said)
        BY <2>4, <4>6, WrittenAppend
      <4> QED
        BY <2>7, <4>5, <4>7
    <3>2. CASE ~item.image /\ line.message = Placeholder
      <4>1. new = acc
        BY <2>1, <3>2, MergePlaceholder
      <4>2. Written(Append(said, line)) = Written(said)
        BY <2>4, <3>2, WrittenAppend
      <4> QED
        BY <2>5, <2>7, <4>1, <4>2
    <3>3. CASE ~item.image /\ line.message # Placeholder
      <4>1. new.list = acc.list /\ new.block = Append(block, line)
        BY <2>1, <2>5, <3>3, MergeText
      <4>2. before \o Append(block, line) = Append(before \o block, line)
        BY <2>4, <2>6
      <4>3. Written(Append(said, line)) = Append(Written(said), line)
        BY <2>4, <3>3, WrittenAppend
      <4> QED
        BY <2>5, <2>6, <2>7, <2>8, <4>1, <4>2, <4>3
    <3> QED
      BY <3>1, <3>2, <3>3
  <2> QED
    BY <1>1, <2>1, <2>2, <2>4, <2>9 DEF Merged
<1>4. Seq(ItemsIn(K)) \subseteq T
  BY <1>2, <1>3, SeqInduction
<1> QED
  BY <1>1, <1>4

\* Where the list ends in a text, the time is put into it.
LEMMA TimeAdded ==
  ASSUME NEW M, CurrentTime \in M, NEW list \in Seq(Parts(M)), list # <<>>, Last(list).type = "text"
  PROVE  \E front \in Seq(Parts(M)), said \in Seq(M) :
           /\ list = Append(front, Text(said))
           /\ WithTime(list) = Append(front, Text(Append(said, CurrentTime)))
<1>1. PICK N, last : N = Len(list) - 1 /\ last = list[Len(list)]
  OBVIOUS
<1>2. N \in Nat /\ Len(list) = N + 1 /\ last \in Parts(M) /\ last.type = "text" /\ N \in 0..(Len(list) - 1)
  BY <1>1 DEF Last
<1>3. last.lines \in Seq(M) /\ last = Text(last.lines)
  BY <1>2 DEF Parts, Text
<1>4. PICK front : front = Start(list, N)
  OBVIOUS
<1>5. front \in Seq(Parts(M)) /\ list = Append(front, last) /\ Len(front) = N
  <2>1. front \in Seq(Parts(M)) /\ Start(list, N + 1) = Append(front, list[N + 1]) /\ Start(list, Len(list)) = list
    BY <1>2, <1>4, Starts
  <2>2. list = Append(front, last)
    BY <1>1, <1>2, <2>1
  <2>3. Len(Append(front, last)) = Len(front) + 1 /\ Len(front) \in Nat
    BY <2>1
  <2> QED
    BY <1>2, <2>1, <2>2, <2>3
<1>6. PICK said : said = last.lines
  OBVIOUS
<1>7. said \in Seq(M) /\ Append(said, CurrentTime) \in Seq(M)
  BY <1>3, <1>6
<1>8. Text(Append(said, CurrentTime)) \in Parts(M) /\ PartText(Text(Append(said, CurrentTime))) = Append(said, CurrentTime)
  BY <1>7 DEF Text, Parts, PartText
<1>9. WithTime(list) = Append(front, Text(Append(said, CurrentTime)))
  <2>1. PICK new : new = WithTime(list)
    OBVIOUS
  <2>2. new = [list EXCEPT ![Len(list)].lines = Append(@, CurrentTime)]
    BY <2>1 DEF WithTime
  <2>3. Len(list) \in DOMAIN list /\ DOMAIN list = 1..(N + 1)
    BY <1>2
  <2>4. new[N + 1] = [last EXCEPT !.lines = Append(@, CurrentTime)]
    BY <1>1, <1>2, <2>2, <2>3
  <2>5. new[N + 1] = Text(Append(said, CurrentTime))
    <3>1. last = [type |-> "text", lines |-> said]
      BY <1>3, <1>6 DEF Text
    <3> QED
      BY <2>4, <3>1 DEF Text
  <2>6. new \in [1..(N + 1) -> Parts(M)]
    <3>1. new = [i \in 1..(N + 1) |-> new[i]]
      BY <2>2, <2>3
    <3>2. ASSUME NEW i \in 1..(N + 1) PROVE new[i] \in Parts(M)
      <4>1. CASE i = N + 1
        BY <1>8, <2>5, <4>1
      <4>2. CASE i # N + 1
        <5>1. new[i] = list[i] /\ list[i] \in Parts(M)
          BY <1>2, <2>2, <2>3, <4>2
        <5> QED
          BY <5>1
      <4> QED
        BY <4>1, <4>2
    <3> QED
      BY <3>1, <3>2
  <2>7. front \in [1..N -> Parts(M)]
    BY <1>5
  <2>8. \A i \in 1..N : new[i] = front[i]
    <3>1. ASSUME NEW i \in 1..N PROVE new[i] = front[i]
      <4>1. i \in DOMAIN list /\ i # Len(list)
        BY <1>2, <2>3
      <4>2. new[i] = list[i]
        BY <2>2, <4>1
      <4>3. list[i] = front[i]
        BY <1>2, <1>5, AppendIs
      <4> QED
        BY <4>2, <4>3
    <3> QED
      BY <3>1
  <2>9. new = Append(front, new[N + 1])
    BY <1>2, <2>6, <2>7, <2>8, OneMore
  <2> QED
    BY <2>1, <2>5, <2>9
<1> QED
  BY <1>3, <1>5, <1>6, <1>7, <1>9

\* The time comes after all of it.
LEMMA TimeLast ==
  ASSUME NEW K, NEW list \in Seq(Parts(K))
  PROVE  Texts(WithTime(list)) = Append(Texts(list), CurrentTime)
<1>1. PICK M : M = K \cup {CurrentTime}
  OBVIOUS
<1>2. Parts(K) \subseteq Parts(M) /\ CurrentTime \in M
  BY <1>1 DEF Parts
<1>3. list \in Seq(Parts(M))
  BY <1>2
<1>4. CASE list # <<>> /\ Last(list).type = "text"
  <2>1. PICK front \in Seq(Parts(M)), said \in Seq(M) :
          /\ list = Append(front, Text(said))
          /\ WithTime(list) = Append(front, Text(Append(said, CurrentTime)))
    BY <1>2, <1>3, <1>4, TimeAdded
  <2>2. PICK longer : longer = Append(said, CurrentTime)
    OBVIOUS
  <2>3. longer \in Seq(M)
    BY <1>2, <2>2, AppendIs
  <2>4. Text(longer) \in Parts(M) /\ PartText(Text(longer)) = longer
    BY <2>3 DEF Text, Parts, PartText
  <2>5. Text(said) \in Parts(M) /\ PartText(Text(said)) = said
    BY DEF Text, Parts, PartText
  <2>6. Texts(front) \in Seq(M) /\ Texts(WithTime(list)) = Texts(front) \o longer
    BY <2>1, <2>2, <2>4, TextsAppend
  <2>7. Texts(list) = Texts(front) \o said
    BY <2>1, <2>5, TextsAppend
  <2>8. Texts(front) \o longer = Append(Texts(front) \o said, CurrentTime)
    BY <1>2, <2>2, <2>6
  <2> QED
    BY <2>6, <2>7, <2>8
<1>5. CASE ~(list # <<>> /\ Last(list).type = "text")
  <2>1. <<CurrentTime>> \in Seq(M)
    BY <1>2
  <2>2. Text(<<CurrentTime>>) \in Parts(M) /\ PartText(Text(<<CurrentTime>>)) = <<CurrentTime>>
    BY <2>1 DEF Text, Parts, PartText
  <2>3. Texts(list) \in Seq(M) /\ Texts(Append(list, Text(<<CurrentTime>>))) = Texts(list) \o <<CurrentTime>>
    BY <1>3, <2>2, TextsAppend
  <2>4. WithTime(list) = Append(list, Text(<<CurrentTime>>))
    BY <1>5 DEF WithTime
  <2>5. PICK read : read = Texts(list)
    OBVIOUS
  <2>6. read \o <<CurrentTime>> = Append(read, CurrentTime)
    BY <1>2, <2>3, <2>5
  <2> QED
    BY <2>3, <2>4, <2>5, <2>6
<1> QED
  BY <1>4, <1>5

-----------------------------------------------------------------------------
(* The items of a window *)

AllLines(window) == Lines(window) \cup {Line("system_message", Seeing, i) : i \in DOMAIN window}

ImagesOf(window) == {i \in DOMAIN window : window[i].type \in ImageTypes}

LEMMA IndicesType ==
  ASSUME NEW window \in Seq(Entries), NEW type
  PROVE  Indices(window, type) \in Seq({i \in DOMAIN window : window[i].type = type})
<1>1. PICK own : own = [i \in DOMAIN window |-> i]
  OBVIOUS
<1>2. own \in Seq(DOMAIN window) /\ DOMAIN own = DOMAIN window
  BY <1>1
<1>3. PICK I : I = {i \in DOMAIN window : window[i].type = type}
  OBVIOUS
<1>4. \A i \in DOMAIN own : i \in I => own[i] \in I
  BY <1>1
<1>5. At(own, I) \in Seq(I)
  BY <1>2, <1>4, AtIn
<1> QED
  BY <1>1, <1>3, <1>5 DEF Indices

LEMMA ToSetIn == ASSUME NEW S, NEW s \in Seq(S) PROVE ToSet(s) \subseteq S
  BY DEF ToSet

LEMMA SelectedImages == ASSUME NEW window \in Seq(Entries) PROVE Selected(window) \subseteq ImagesOf(window)
<1>1. ASSUME NEW type \in ImageTypes, NEW n \in Nat
      PROVE  ToSet(LastOf(Indices(window, type), n)) \subseteq ImagesOf(window)
  <2>1. PICK I, s : I = {i \in DOMAIN window : window[i].type = type} /\ s = LastOf(Indices(window, type), n)
    OBVIOUS
  <2>2. s \in Seq(I)
    BY <2>1, IndicesType, LastOfType
  <2>3. ToSet(s) \subseteq I
    BY <2>2, ToSetIn
  <2> QED
    BY <2>1, <2>3 DEF ImagesOf
<1>2. "generic_image" \in ImageTypes /\ "image_pre_action" \in ImageTypes
  BY DEF ImageTypes
<1>3. ToSet(LastOf(Indices(window, "generic_image"), max_recent_generic_images)) \subseteq ImagesOf(window)
  BY <1>1, <1>2, TranscriptAssumption
<1>4. ToSet(LastOf(Indices(window, "image_pre_action"), max_recent_pre_action_images)) \subseteq ImagesOf(window)
  BY <1>1, <1>2, TranscriptAssumption
<1> QED
  BY <1>3, <1>4 DEF Selected

\* The items of a line: it is the image, after a line that announces it, or
\* it is a line.
Announcing(line) == [image |-> FALSE, line |-> Line("system_message", Seeing, line.source)]
AsImage(line)    == [image |-> TRUE, line |-> line]
AsLine(line)     == [image |-> FALSE, line |-> line]

LEMMA ItemsOfIs ==
  ASSUME NEW window, NEW I, I \subseteq ImagesOf(window), NEW line \in Lines(window)
  PROVE  /\ ItemsOf(line, I) \in Seq(ItemsIn(AllLines(window)))
         /\ Announcing(line) \in ItemsIn(AllLines(window)) /\ AsLine(line) \in ItemsIn(AllLines(window))
         /\ line.source \in I => /\ AsImage(line) \in ItemsIn(AllLines(window))
                                 /\ ItemsOf(line, I) = <<Announcing(line), AsImage(line)>>
         /\ line.source \notin I => ItemsOf(line, I) = <<AsLine(line)>>
<1>1. line \in AllLines(window) /\ Line("system_message", Seeing, line.source) \in AllLines(window)
  BY DEF AllLines, Lines
<1>2. Announcing(line) \in ItemsIn(AllLines(window)) /\ AsLine(line) \in ItemsIn(AllLines(window))
  BY <1>1 DEF Announcing, AsLine, ItemsIn
<1>3. CASE line.source \in I
  <2>1. line.message = Placeholder
    BY <1>3 DEF ImagesOf, Lines
  <2>2. AsImage(line) \in ItemsIn(AllLines(window))
    BY <1>1, <2>1 DEF AsImage, ItemsIn
  <2>3. ItemsOf(line, I) = <<Announcing(line), AsImage(line)>>
    BY <1>3 DEF ItemsOf, Announcing, AsImage
  <2> QED
    BY <1>2, <1>3, <2>2, <2>3
<1>4. CASE line.source \notin I
  <2>1. ItemsOf(line, I) = <<AsLine(line)>>
    BY <1>4 DEF ItemsOf, AsLine
  <2> QED
    BY <1>2, <1>4, <2>1
<1> QED
  BY <1>3, <1>4

AllItems(lines, I) == FlattenSeq([i \in DOMAIN lines |-> ItemsOf(lines[i], I)])

LEMMA AllItemsEmpty == ASSUME NEW I PROVE AllItems(<<>>, I) = <<>>
<1>1. [i \in DOMAIN <<>> |-> ItemsOf(<<>>[i], I)] = <<>>
  OBVIOUS
<1> QED
  BY <1>1, FlattenEmpty DEF AllItems

LEMMA AllItemsAppend ==
  ASSUME NEW window, NEW I, I \subseteq ImagesOf(window), NEW lines \in Seq(Lines(window)), NEW line \in Lines(window)
  PROVE  /\ AllItems(lines, I) \in Seq(ItemsIn(AllLines(window)))
         /\ AllItems(Append(lines, line), I) = AllItems(lines, I) \o ItemsOf(line, I)
<1>1. PICK S : S = ItemsIn(AllLines(window))
  OBVIOUS
<1>2. \A l \in Lines(window) : ItemsOf(l, I) \in Seq(S)
  BY <1>1, ItemsOfIs
<1>3. PICK N, longer : N = Len(lines) /\ longer = Append(lines, line)
  OBVIOUS
<1>4. /\ N \in Nat /\ DOMAIN lines = 1..N /\ DOMAIN longer = 1..(N + 1) /\ longer[N + 1] = line
      /\ \A i \in 1..N : longer[i] = lines[i] /\ lines[i] \in Lines(window)
  BY <1>3, AppendIs
<1>5. PICK f, g : f = [i \in DOMAIN lines |-> ItemsOf(lines[i], I)] /\ g = [i \in DOMAIN longer |-> ItemsOf(longer[i], I)]
  OBVIOUS
<1>6. AllItems(lines, I) = FlattenSeq(f) /\ AllItems(longer, I) = FlattenSeq(g)
  BY <1>5 DEF AllItems
<1>7. f \in [1..N -> Seq(S)]
  BY <1>2, <1>4, <1>5
<1>8. g \in [1..(N + 1) -> Seq(S)]
  BY <1>2, <1>4, <1>5
<1>9. g[N + 1] = ItemsOf(line, I) /\ \A i \in 1..N : g[i] = f[i]
  BY <1>4, <1>5
<1>10. f \in Seq(Seq(S)) /\ g = Append(f, ItemsOf(line, I)) /\ ItemsOf(line, I) \in Seq(S)
  BY <1>2, <1>4, <1>7, <1>8, <1>9, OneMore
<1>11. FlattenSeq(f) \in Seq(S) /\ FlattenSeq(Append(f, ItemsOf(line, I))) = FlattenSeq(f) \o ItemsOf(line, I)
  BY <1>10, FlattenType, FlattenAppend
<1> QED
  BY <1>1, <1>3, <1>6, <1>10, <1>11

\* One by one: of a selected image, and of any other line.
LEMMA AllItemsImage ==
  ASSUME NEW window, NEW I, I \subseteq ImagesOf(window), NEW lines \in Seq(Lines(window)),
         NEW line \in Lines(window), line.source \in I
  PROVE  AllItems(Append(lines, line), I) = Append(Append(AllItems(lines, I), Announcing(line)), AsImage(line))
<1>1. PICK S, items, a, b : /\ S = ItemsIn(AllLines(window)) /\ items = AllItems(lines, I)
                            /\ a = Announcing(line) /\ b = AsImage(line)
  OBVIOUS
<1>2. items \in Seq(S) /\ AllItems(Append(lines, line), I) = items \o ItemsOf(line, I)
  BY <1>1, AllItemsAppend
<1>3. a \in S /\ b \in S /\ ItemsOf(line, I) = <<a, b>>
  BY <1>1, ItemsOfIs
<1>4. items \o <<a, b>> = Append(Append(items, a), b)
  BY <1>2, <1>3
<1> QED
  BY <1>1, <1>2, <1>3, <1>4

LEMMA AllItemsLine ==
  ASSUME NEW window, NEW I, I \subseteq ImagesOf(window), NEW lines \in Seq(Lines(window)),
         NEW line \in Lines(window), line.source \notin I
  PROVE  AllItems(Append(lines, line), I) = Append(AllItems(lines, I), AsLine(line))
<1>1. PICK S, items, c : S = ItemsIn(AllLines(window)) /\ items = AllItems(lines, I) /\ c = AsLine(line)
  OBVIOUS
<1>2. items \in Seq(S) /\ AllItems(Append(lines, line), I) = items \o ItemsOf(line, I)
  BY <1>1, AllItemsAppend
<1>3. c \in S /\ ItemsOf(line, I) = <<c>>
  BY <1>1, ItemsOfIs
<1>4. items \o <<c>> = Append(items, c)
  BY <1>2, <1>3
<1> QED
  BY <1>1, <1>2, <1>3, <1>4

LEMMA AllItemsType ==
  ASSUME NEW window, NEW I, I \subseteq ImagesOf(window), NEW lines \in Seq(Lines(window))
  PROVE  AllItems(lines, I) \in Seq(ItemsIn(AllLines(window)))
<1>1. CASE lines = <<>>
  <2>1. AllItems(lines, I) = <<>>
    BY <1>1, AllItemsEmpty
  <2> QED
    BY <2>1
<1>2. CASE lines # <<>>
  <2>1. lines[1] \in Lines(window)
    BY <1>2
  <2> QED
    BY <2>1, AllItemsAppend
<1> QED
  BY <1>1, <1>2

\* The lines of a window, and those that are shown.
LEMMA WindowLines ==
  ASSUME NEW window \in Seq(Entries)
  PROVE  /\ IntermediateEntries(window) \in Seq(Lines(window)) /\ Sayable(Lines(window))
         /\ Deduplicate(IntermediateEntries(window)) \in Seq(Lines(window))
         /\ UnifiedItems(window) = AllItems(Deduplicate(IntermediateEntries(window)), Selected(window))
         /\ UnifiedItems(window) \in Seq(ItemsIn(AllLines(window)))
<1>1. PICK recorded, lines, L : /\ recorded = IntermediateEntries(window) /\ lines = Deduplicate(recorded)
                                /\ L = Lines(window)
  OBVIOUS
<1>2. recorded \in Seq(L) /\ Sayable(L)
  BY <1>1, IntermediateType, LinesAreSayable
<1>3. lines \in Seq(L)
  BY <1>1, <1>2, DeduplicateType
<1>4. UnifiedItems(window) = AllItems(lines, Selected(window))
  BY <1>1 DEF UnifiedItems, AllItems
<1>5. AllItems(lines, Selected(window)) \in Seq(ItemsIn(AllLines(window)))
  BY <1>1, <1>3, SelectedImages, AllItemsType
<1> QED
  BY <1>1, <1>2, <1>3, <1>4, <1>5

\* What the vision agent reads of a window.
LEMMA ReadOf ==
  ASSUME NEW window \in Seq(Entries)
  PROVE  /\ Merged(UnifiedItems(window)) \in Seq(Parts(AllLines(window)))
         /\ LinesIn(UnifiedItems(window)) \in Seq(AllLines(window))
         /\ Texts(WithTime(Merged(UnifiedItems(window)))) = Append(Written(LinesIn(UnifiedItems(window))), CurrentTime)
<1>1. PICK items, K : items = UnifiedItems(window) /\ K = AllLines(window)
  OBVIOUS
<1>2. items \in Seq(ItemsIn(K))
  BY <1>1, WindowLines
<1>3. PICK list : list = Merged(items)
  OBVIOUS
<1>4. list \in Seq(Parts(K))
  <2>1. Merge(items) \in Blocks(K)
    BY <1>2, MergeType
  <2> QED
    BY <1>3, <2>1, ClosedType DEF Merged
<1>5. Texts(list) = Written(LinesIn(items))
  BY <1>2, <1>3, MergedTexts
<1>6. Texts(WithTime(list)) = Append(Texts(list), CurrentTime)
  BY <1>4, TimeLast
<1>7. LinesIn(items) \in Seq(K)
  <2>1. DOMAIN items = 1..Len(items) /\ Len(items) \in Nat /\ \A i \in DOMAIN items : items[i].line \in K
    BY <1>2 DEF ItemsIn
  <2> QED
    BY <2>1 DEF LinesIn
<1> QED
  BY <1>1, <1>3, <1>4, <1>5, <1>6, <1>7

LEMMA ReadsTheSame == EntriesTyped => SameText
<1> SUFFICES ASSUME EntriesTyped, entries # <<>>
             PROVE  Texts(AsMultimodalList) = Written(AsString)
  BY DEF SameText
<1>1. PICK window, items, said : window = Shown(entries) /\ items = UnifiedItems(window) /\ said = LinesIn(items)
  OBVIOUS
<1>2. window \in Seq(Entries)
  BY <1>1, ShownType DEF EntriesTyped
<1>3. PICK K : K = AllLines(window) \cup {CurrentTime}
  OBVIOUS
<1>4. said \in Seq(AllLines(window)) /\ Texts(WithTime(Merged(items))) = Append(Written(said), CurrentTime)
  BY <1>1, <1>2, ReadOf
<1>5. said \in Seq(K) /\ CurrentTime \in K
  BY <1>3, <1>4
<1>6. AsString = Append(said, CurrentTime)
  <2>1. AsString = said \o <<CurrentTime>>
    BY <1>1 DEF AsString, LinesIn
  <2> QED
    BY <1>5, <2>1
<1>7. CurrentTime.message # Placeholder
  BY DEF CurrentTime, Placeholder
<1>8. Written(Append(said, CurrentTime)) = Append(Written(said), CurrentTime)
  BY <1>5, <1>7, WrittenAppend
<1>9. AsMultimodalList = WithTime(Merged(items))
  BY <1>1 DEF AsMultimodalList
<1> QED
  BY <1>4, <1>6, <1>8, <1>9

\* The two agents read the same (history.py:466).
THEOREM ReadersAgree == Spec => []SameText
  BY Typed, ReadsTheSame, PTL

-----------------------------------------------------------------------------
(* The newest line of each kind *)

\* Neither placeholders nor announcements are of a type that may be left out.
LEMMA SystemMessage == "system_message" \notin Deduplicated /\ Seeing # Placeholder
  BY DEF Deduplicated, Seeing, Placeholder

LEMMA SameNews ==
  ASSUME NEW window, NEW I, I \subseteq ImagesOf(window), NEW t \in Deduplicated, NEW lines \in Seq(Lines(window))
  PROVE  OfType(Written(LinesIn(AllItems(lines, I))), t) = OfType(lines, t)
<1>1. PICK L, K : L = Lines(window) /\ K = AllLines(window)
  OBVIOUS
<1>2. PICK T : T = {s \in Seq(L) : OfType(Written(LinesIn(AllItems(s, I))), t) = OfType(s, t)}
  OBVIOUS
<1>3. <<>> \in T
  <2>1. Written(LinesIn(AllItems(<<>>, I))) = <<>>
    BY AllItemsEmpty, LinesInEmpty, WrittenEmpty
  <2>2. <<>> \in Seq(L)
    OBVIOUS
  <2> QED
    BY <1>2, <2>1, <2>2
<1>4. ASSUME NEW s \in Seq(L), NEW line \in L, s \in T PROVE Append(s, line) \in T
  <2>1. PICK items, said, longer : items = AllItems(s, I) /\ said = LinesIn(items) /\ longer = Append(s, line)
    OBVIOUS
  <2>2. items \in Seq(ItemsIn(K)) /\ longer \in Seq(L)
    BY <1>1, <2>1, AllItemsType, AppendIs
  <2>3. PICK a, b, c : a = Announcing(line) /\ b = AsImage(line) /\ c = AsLine(line)
    OBVIOUS
  <2>4. a \in ItemsIn(K) /\ c \in ItemsIn(K) /\ (line.source \in I => b \in ItemsIn(K))
    BY <1>1, <2>3, ItemsOfIs
  <2>5. line \in K /\ line.message = Placeholder => line.type = "system_message"
    BY <1>1 DEF Lines
  <2>6. PICK read : read = Written(said)
    OBVIOUS
  <2>7. said \in Seq(K) /\ read \in Seq(K)
    <3>1. said \in Seq(K)
      BY <2>1, <2>2, <2>4, LinesInAppend
    <3> QED
      BY <2>6, <3>1, <2>4, WrittenAppend, AtType DEF Written
  <2>8. OfType(read, t) = OfType(s, t)
    BY <1>2, <1>4, <2>1, <2>6
  <2>9. line \in K
    BY <1>1 DEF AllLines
  <2>10. OfType(Written(LinesIn(AllItems(longer, I))), t) = OfType(longer, t)
    <3>1. CASE line.source \in I
      <4>1. AllItems(longer, I) = Append(Append(items, a), b)
        <5>1. AllItems(Append(s, line), I) = Append(Append(AllItems(s, I), Announcing(line)), AsImage(line))
          BY <1>1, <3>1, AllItemsImage
        <5> QED
          BY <2>1, <2>3, <5>1
      <4>2. Append(items, a) \in Seq(ItemsIn(K)) /\ b \in ItemsIn(K)
        BY <2>2, <2>4, <3>1, AppendIs
      <4>3. PICK seeing : seeing = a.line
        OBVIOUS
      <4>4. seeing \in K /\ LinesIn(Append(items, a)) = Append(said, seeing)
        BY <2>1, <2>2, <2>4, <4>3, LinesInAppend
      <4>5. LinesIn(AllItems(longer, I)) = Append(Append(said, seeing), line)
        <5>1. b.line = line
          BY <2>3 DEF AsImage
        <5> QED
          BY <4>1, <4>2, <4>4, <5>1, LinesInAppend
      <4>6. seeing.type = "system_message" /\ seeing.message = Seeing
        BY <2>3, <4>3 DEF Announcing, Line
      <4>7. line.message = Placeholder
        BY <2>3, <2>4, <3>1 DEF AsImage, ItemsIn
      <4>8. line.type = "system_message"
        BY <1>1, <4>7 DEF Lines
      <4>9. Written(Append(said, seeing)) = Append(read, seeing)
        BY <2>6, <2>7, <4>4, <4>6, SystemMessage, WrittenAppend
      <4>10. Append(said, seeing) \in Seq(K)
        BY <2>7, <4>4, AppendIs
      <4>11. Written(Append(Append(said, seeing), line)) = Append(read, seeing)
        BY <2>9, <4>7, <4>9, <4>10, WrittenAppend
      <4>12. OfType(Append(read, seeing), t) = OfType(read, t)
        BY <2>7, <4>4, <4>6, SystemMessage, OfTypeAppend
      <4>13. OfType(longer, t) = OfType(s, t)
        BY <2>1, <4>8, SystemMessage, OfTypeAppend
      <4> QED
        BY <2>8, <4>5, <4>11, <4>12, <4>13
    <3>2. CASE line.source \notin I
      <4>1. AllItems(longer, I) = Append(items, c)
        BY <1>1, <2>1, <2>3, <3>2, AllItemsLine
      <4>2. c.line = line
        BY <2>3 DEF AsLine
      <4>3. LinesIn(AllItems(longer, I)) = Append(said, line)
        BY <2>1, <2>2, <2>4, <4>1, <4>2, LinesInAppend
      <4>4. CASE line.message = Placeholder
        <5>1. Written(Append(said, line)) = read
          BY <2>6, <2>7, <2>9, <4>4, WrittenAppend
        <5>2. line.type = "system_message"
          BY <1>1, <4>4 DEF Lines
        <5>3. OfType(longer, t) = OfType(s, t)
          BY <2>1, <5>2, SystemMessage, OfTypeAppend
        <5> QED
          BY <2>8, <4>3, <5>1, <5>3
      <4>5. CASE line.message # Placeholder
        <5>1. Written(Append(said, line)) = Append(read, line)
          BY <2>6, <2>7, <2>9, <4>5, WrittenAppend
        <5>2. CASE line.type = t
          <6>1. OfType(Append(read, line), t) = Append(OfType(read, t), line)
            BY <2>7, <2>9, <5>2, OfTypeAppend
          <6>2. OfType(longer, t) = Append(OfType(s, t), line)
            BY <2>1, <5>2, OfTypeAppend
          <6> QED
            BY <2>8, <4>3, <5>1, <6>1, <6>2
        <5>3. CASE line.type # t
          <6>1. OfType(Append(read, line), t) = OfType(read, t)
            BY <2>7, <2>9, <5>3, OfTypeAppend
          <6>2. OfType(longer, t) = OfType(s, t)
            BY <2>1, <5>3, OfTypeAppend
          <6> QED
            BY <2>8, <4>3, <5>1, <6>1, <6>2
        <5> QED
          BY <5>2, <5>3
      <4> QED
        BY <4>4, <4>5
    <3> QED
      BY <3>1, <3>2
  <2> QED
    BY <1>2, <2>1, <2>2, <2>10
<1>5. Seq(L) \subseteq T
  BY <1>3, <1>4, SeqInduction
<1> QED
  BY <1>1, <1>2, <1>5

LEMMA NoEntriesNoLines == IntermediateEntries(Shown(<<>>)) = <<>>
<1>1. Shown(<<>>) = <<>>
  BY TranscriptAssumption DEF Shown
<1>2. [i \in DOMAIN <<>> |-> LinesOf(<<>>[i], i)] = <<>>
  OBVIOUS
<1> QED
  BY <1>1, <1>2, FlattenEmpty DEF IntermediateEntries

LEMMA NewestRead == EntriesTyped => NewestShown
<1> SUFFICES ASSUME EntriesTyped, NEW t \in Deduplicated,
                    OfType(IntermediateEntries(Shown(entries)), t) # <<>>
             PROVE  /\ OfType(Texts(AsMultimodalList), t) # <<>>
                    /\ Plain[Last(OfType(Texts(AsMultimodalList), t)).message]
                         = Plain[Last(OfType(IntermediateEntries(Shown(entries)), t)).message]
  BY DEF NewestShown
<1>1. PICK window, recorded, items : /\ window = Shown(entries) /\ recorded = IntermediateEntries(window)
                                     /\ items = UnifiedItems(window)
  OBVIOUS
<1>2. window \in Seq(Entries) /\ OfType(recorded, t) # <<>>
  BY <1>1, ShownType DEF EntriesTyped
<1>3. entries # <<>>
  BY <1>1, <1>2, NoEntriesNoLines, OfTypeEmpty
<1>4. PICK lines, I, L : lines = Deduplicate(recorded) /\ I = Selected(window) /\ L = Lines(window)
  OBVIOUS
<1>5. recorded \in Seq(L) /\ Sayable(L) /\ lines \in Seq(L) /\ items = AllItems(lines, I)
  BY <1>1, <1>2, <1>4, WindowLines
<1>6. I \subseteq ImagesOf(window)
  BY <1>2, <1>4, SelectedImages
<1>7. PICK said, read, K : said = LinesIn(items) /\ read = Written(said) /\ K = AllLines(window) \cup {CurrentTime}
  OBVIOUS
<1>8. Texts(AsMultimodalList) = Append(read, CurrentTime)
  BY <1>1, <1>2, <1>3, <1>7, ReadOf DEF AsMultimodalList
<1>9. read \in Seq(K) /\ CurrentTime \in K
  <2>1. said \in Seq(K) /\ CurrentTime \in K
    <3>1. said \in Seq(AllLines(window))
      BY <1>1, <1>2, <1>7, ReadOf
    <3> QED
      BY <1>7, <3>1
  <2> QED
    BY <1>7, <2>1, WrittenAppend
<1>10. CurrentTime.type # t
  BY DEF CurrentTime, Deduplicated
<1>11. OfType(Append(read, CurrentTime), t) = OfType(read, t)
  BY <1>9, <1>10, OfTypeAppend
<1>12. OfType(read, t) = OfType(lines, t)
  BY <1>4, <1>5, <1>6, <1>7, SameNews
<1>13. /\ OfType(lines, t) # <<>>
       /\ Plain[Last(OfType(lines, t)).message] = Plain[Last(OfType(recorded, t)).message]
  BY <1>2, <1>4, <1>5, NewestKept
<1> QED
  BY <1>1, <1>8, <1>11, <1>12, <1>13

\* Nothing new is left out (history.py:207-247).
THEOREM NothingNewLost == Spec => []NewestShown
  BY Typed, NewestRead, PTL

-----------------------------------------------------------------------------
(* The images of a list *)

SourcesOf(s) == [i \in DOMAIN s |-> s[i].source]

LEMMA SourcesOfEmpty == SourcesOf(<<>>) = <<>>
  BY DEF SourcesOf

LEMMA SourcesOfAppend ==
  ASSUME NEW S, NEW s \in Seq(S), NEW e \in S
  PROVE  SourcesOf(Append(s, e)) = Append(SourcesOf(s), e.source)
<1>1. PICK N, longer, D : N = Len(s) /\ longer = Append(s, e) /\ D = {x.source : x \in S}
  OBVIOUS
<1>2. /\ N \in Nat /\ DOMAIN s = 1..N /\ DOMAIN longer = 1..(N + 1) /\ longer[N + 1] = e
      /\ \A i \in 1..N : longer[i] = s[i] /\ s[i] \in S
  BY <1>1, AppendIs
<1>3. PICK f, g : f = SourcesOf(s) /\ g = SourcesOf(longer)
  OBVIOUS
<1>4. e.source \in D /\ \A i \in 1..N : s[i].source \in D
  BY <1>1, <1>2
<1>5. f \in [1..N -> D]
  BY <1>2, <1>3, <1>4 DEF SourcesOf
<1>6. g \in [1..(N + 1) -> D]
  BY <1>2, <1>3, <1>4 DEF SourcesOf
<1>7. g[N + 1] = e.source /\ \A i \in 1..N : g[i] = f[i]
  BY <1>2, <1>3 DEF SourcesOf
<1>8. g = Append(f, g[N + 1])
  BY <1>2, <1>5, <1>6, <1>7, OneMore
<1> QED
  BY <1>1, <1>3, <1>7, <1>8

\* The image at k of a list comes after a text that ends by announcing it.
AnnouncedAt(list, k) ==
  /\ k > 1 /\ list[k - 1].type = "text"
  /\ Last(list[k - 1].lines).message = Seeing
  /\ Last(list[k - 1].lines).source = list[k].source

Announced(list) == \A k \in DOMAIN list : list[k].type = "image" => AnnouncedAt(list, k)

Pictures(list) == SourcesOf(OfType(list, "image"))

LEMMA NoPictures == Announced(<<>>) /\ Pictures(<<>>) = <<>>
<1>1. Announced(<<>>)
  BY DEF Announced
<1> QED
  BY <1>1, OfTypeEmpty, SourcesOfEmpty DEF Pictures

LEMMA TextIs ==
  ASSUME NEW K, NEW lines \in Seq(K)
  PROVE  Text(lines) \in Parts(K) /\ Text(lines).type = "text" /\ Text(lines).lines = lines
  BY DEF Text, Parts

LEMMA ImageIs ==
  ASSUME NEW K, NEW line \in K
  PROVE  /\ Image(line.source) \in Parts(K) /\ Image(line.source).type = "image"
         /\ Image(line.source).source = line.source
  BY DEF Image, Parts

LEMMA PicturesAppend ==
  ASSUME NEW K, NEW list \in Seq(Parts(K)), NEW part \in Parts(K)
  PROVE  /\ part.type = "image" => Pictures(Append(list, part)) = Append(Pictures(list), part.source)
         /\ part.type # "image" => Pictures(Append(list, part)) = Pictures(list)
<1>1. PICK s : s = OfType(list, "image")
  OBVIOUS
<1>2. s \in Seq(Parts(K))
  BY <1>1, OfTypeAppend
<1>3. CASE part.type = "image"
  <2>1. OfType(Append(list, part), "image") = Append(s, part)
    BY <1>1, <1>3, OfTypeAppend
  <2>2. SourcesOf(Append(s, part)) = Append(SourcesOf(s), part.source)
    BY <1>2, SourcesOfAppend
  <2> QED
    BY <1>1, <1>3, <2>1, <2>2 DEF Pictures
<1>4. CASE part.type # "image"
  <2>1. OfType(Append(list, part), "image") = s
    BY <1>1, <1>4, OfTypeAppend
  <2> QED
    BY <1>1, <1>4, <2>1 DEF Pictures
<1> QED
  BY <1>3, <1>4

\* Whether the part at k is announced depends on the parts up to k.
LEMMA AnnouncedBefore ==
  ASSUME NEW K, NEW list \in Seq(Parts(K)), NEW part \in Parts(K)
  PROVE  /\ part.type # "image" => (Announced(Append(list, part)) <=> Announced(list))
         /\ Announced(list) /\ AnnouncedAt(Append(list, part), Len(list) + 1) => Announced(Append(list, part))
<1>1. PICK N, longer : N = Len(list) /\ longer = Append(list, part)
  OBVIOUS
<1>2. /\ N \in Nat /\ DOMAIN list = 1..N /\ DOMAIN longer = 1..(N + 1) /\ longer[N + 1] = part
      /\ \A i \in 1..N : longer[i] = list[i]
  BY <1>1, AppendIs
<1>3. ASSUME NEW k \in 1..N PROVE AnnouncedAt(longer, k) <=> AnnouncedAt(list, k)
  <2>1. longer[k] = list[k]
    BY <1>2
  <2>2. k > 1 => longer[k - 1] = list[k - 1]
    <3>1. k > 1 => k - 1 \in 1..N
      BY <1>2
    <3> QED
      BY <1>2, <3>1
  <2> QED
    BY <2>1, <2>2 DEF AnnouncedAt
<1>4. ASSUME Announced(longer) PROVE Announced(list)
  <2> SUFFICES ASSUME NEW k \in DOMAIN list, list[k].type = "image" PROVE AnnouncedAt(list, k)
    BY DEF Announced
  <2>1. k \in 1..N /\ k \in DOMAIN longer /\ longer[k].type = "image"
    BY <1>2
  <2>2. AnnouncedAt(longer, k)
    BY <1>4, <2>1 DEF Announced
  <2> QED
    BY <1>3, <2>1, <2>2
<1>5. ASSUME Announced(list), part.type # "image" \/ AnnouncedAt(longer, N + 1) PROVE Announced(longer)
  <2> SUFFICES ASSUME NEW k \in DOMAIN longer, longer[k].type = "image" PROVE AnnouncedAt(longer, k)
    BY DEF Announced
  <2>1. CASE k = N + 1
    BY <1>2, <1>5, <2>1
  <2>2. CASE k # N + 1
    <3>1. k \in 1..N /\ k \in DOMAIN list /\ list[k].type = "image"
      BY <1>2, <2>2
    <3>2. AnnouncedAt(list, k)
      BY <1>5, <3>1 DEF Announced
    <3> QED
      BY <1>3, <3>1, <3>2
  <2> QED
    BY <2>1, <2>2
<1> QED
  BY <1>1, <1>4, <1>5

\* A text puts no image in the list.
LEMMA MoreText ==
  ASSUME NEW K, NEW list \in Seq(Parts(K)), NEW lines \in Seq(K)
  PROVE  /\ Announced(Append(list, Text(lines))) <=> Announced(list)
         /\ Pictures(Append(list, Text(lines))) = Pictures(list)
<1>1. PICK part : part = Text(lines)
  OBVIOUS
<1>2. part \in Parts(K) /\ part.type # "image"
  BY <1>1, TextIs
<1>3. Announced(Append(list, part)) <=> Announced(list)
  BY <1>2, AnnouncedBefore
<1>4. Pictures(Append(list, part)) = Pictures(list)
  BY <1>2, PicturesAppend
<1> QED
  BY <1>1, <1>3, <1>4

LEMMA ClosedImages ==
  ASSUME NEW K, NEW acc \in Blocks(K)
  PROVE  (Announced(Closed(acc)) <=> Announced(acc.list)) /\ Pictures(Closed(acc)) = Pictures(acc.list)
<1>1. PICK list, block : list = acc.list /\ block = acc.block
  OBVIOUS
<1>2. list \in Seq(Parts(K)) /\ block \in Seq(K)
  BY <1>1 DEF Blocks
<1>3. Closed(acc) = list \/ Closed(acc) = Append(list, Text(block))
  BY <1>1 DEF Closed
<1>4. /\ Announced(Append(list, Text(block))) <=> Announced(list)
      /\ Pictures(Append(list, Text(block))) = Pictures(list)
  BY <1>2, MoreText
<1> QED
  BY <1>1, <1>3, <1>4

LEMMA TimedImages ==
  ASSUME NEW K, NEW list \in Seq(Parts(K))
  PROVE  (Announced(WithTime(list)) <=> Announced(list)) /\ Pictures(WithTime(list)) = Pictures(list)
<1>1. PICK M : M = K \cup {CurrentTime}
  OBVIOUS
<1>2. Parts(K) \subseteq Parts(M) /\ CurrentTime \in M
  BY <1>1 DEF Parts
<1>3. list \in Seq(Parts(M))
  BY <1>2
<1>4. CASE list # <<>> /\ Last(list).type = "text"
  <2>1. PICK front \in Seq(Parts(M)), said \in Seq(M) :
          /\ list = Append(front, Text(said))
          /\ WithTime(list) = Append(front, Text(Append(said, CurrentTime)))
    BY <1>2, <1>3, <1>4, TimeAdded
  <2>2. PICK longer : longer = Append(said, CurrentTime)
    OBVIOUS
  <2>3. longer \in Seq(M)
    BY <1>2, <2>2, AppendIs
  <2>4. /\ Announced(Append(front, Text(said))) <=> Announced(front)
        /\ Pictures(Append(front, Text(said))) = Pictures(front)
    BY MoreText
  <2>5. /\ Announced(Append(front, Text(longer))) <=> Announced(front)
        /\ Pictures(Append(front, Text(longer))) = Pictures(front)
    BY <2>3, MoreText
  <2> QED
    BY <2>1, <2>2, <2>4, <2>5
<1>5. CASE ~(list # <<>> /\ Last(list).type = "text")
  <2>1. PICK time : time = <<CurrentTime>>
    OBVIOUS
  <2>2. time \in Seq(M)
    BY <1>2, <2>1
  <2>3. WithTime(list) = Append(list, Text(time))
    BY <1>5, <2>1 DEF WithTime
  <2> QED
    BY <1>3, <2>2, <2>3, MoreText
<1> QED
  BY <1>4, <1>5

\* A selected image is put in the list after the block, that ends by announcing it.
LEMMA MergeSelected ==
  ASSUME NEW window, NEW I, I \subseteq ImagesOf(window), NEW lines \in Seq(Lines(window)),
         NEW line \in Lines(window), line.source \in I
  PROVE  Merge(AllItems(Append(lines, line), I)).list =
           Append(Append(Merge(AllItems(lines, I)).list,
                         Text(Append(Merge(AllItems(lines, I)).block, Line("system_message", Seeing, line.source)))),
                  Image(line.source))
<1>1. PICK K, items, a, b : /\ K = AllLines(window) /\ items = AllItems(lines, I)
                            /\ a = Announcing(line) /\ b = AsImage(line)
  OBVIOUS
<1>2. items \in Seq(ItemsIn(K)) /\ a \in ItemsIn(K) /\ b \in ItemsIn(K)
  BY <1>1, AllItemsType, ItemsOfIs
<1>3. PICK longer : longer = Append(items, a)
  OBVIOUS
<1>4. longer \in Seq(ItemsIn(K))
  BY <1>2, <1>3, AppendIs
<1>5. AllItems(Append(lines, line), I) = Append(longer, b)
  <2>1. AllItems(Append(lines, line), I) = Append(Append(AllItems(lines, I), Announcing(line)), AsImage(line))
    BY AllItemsImage
  <2> QED
    BY <1>1, <1>3, <2>1
<1>6. PICK acc, new : acc = Merge(items) /\ new = Merge(longer)
  OBVIOUS
<1>7. acc \in Blocks(K) /\ new \in Blocks(K)
  BY <1>2, <1>4, <1>6, MergeType
<1>8. PICK seeing : seeing = Line("system_message", Seeing, line.source)
  OBVIOUS
<1>9. ~a.image /\ a.line = seeing /\ seeing.message # Placeholder
  BY <1>1, <1>8, SystemMessage DEF Announcing, Line
<1>10. new.list = acc.list /\ new.block = Append(acc.block, seeing)
  BY <1>2, <1>3, <1>6, <1>9, MergeText
<1>11. Append(acc.block, seeing) # <<>>
  <2>1. acc.block \in Seq(K) /\ seeing \in K
    BY <1>2, <1>7, <1>9 DEF Blocks, ItemsIn
  <2> QED
    BY <2>1, AppendIs
<1>12. Closed(new) = Append(acc.list, Text(Append(acc.block, seeing)))
  BY <1>10, <1>11 DEF Closed
<1>13. b.image /\ b.line.source = line.source
  BY <1>1 DEF AsImage
<1>14. Merge(Append(longer, b)).list = Append(Closed(new), Image(b.line.source))
  BY <1>2, <1>4, <1>6, <1>13, MergeImage
<1> QED
  BY <1>1, <1>5, <1>6, <1>8, <1>12, <1>13, <1>14

LEMMA MergeOther ==
  ASSUME NEW window, NEW I, I \subseteq ImagesOf(window), NEW lines \in Seq(Lines(window)),
         NEW line \in Lines(window), line.source \notin I
  PROVE  Merge(AllItems(Append(lines, line), I)).list = Merge(AllItems(lines, I)).list
<1>1. PICK K, items, c : K = AllLines(window) /\ items = AllItems(lines, I) /\ c = AsLine(line)
  OBVIOUS
<1>2. items \in Seq(ItemsIn(K)) /\ c \in ItemsIn(K)
  BY <1>1, AllItemsType, ItemsOfIs
<1>3. AllItems(Append(lines, line), I) = Append(items, c)
  <2>1. AllItems(Append(lines, line), I) = Append(AllItems(lines, I), AsLine(line))
    BY AllItemsLine
  <2> QED
    BY <1>1, <2>1
<1>4. ~c.image
  BY <1>1 DEF AsLine
<1>5. CASE c.line.message = Placeholder
  BY <1>1, <1>2, <1>3, <1>4, <1>5, MergePlaceholder
<1>6. CASE c.line.message # Placeholder
  BY <1>1, <1>2, <1>3, <1>4, <1>6, MergeText
<1> QED
  BY <1>5, <1>6

LEMMA AmongIn ==
  ASSUME NEW S, NEW s \in Seq(S), NEW e \in S, NEW E, e \in E
  PROVE  Among(Append(s, e), E) = Append(Among(s, E), e)
  BY AmongAppend

\* The list has an image for each line of a selected image, announced.
LEMMA ImagesMerged ==
  ASSUME NEW window, NEW I, I \subseteq ImagesOf(window), NEW lines \in Seq(Lines(window)),
         NEW E, E = {line \in Lines(window) : line.source \in I}
  PROVE  /\ Announced(Merge(AllItems(lines, I)).list)
         /\ Pictures(Merge(AllItems(lines, I)).list) = SourcesOf(Among(lines, E))
<1>1. PICK L, K : L = Lines(window) /\ K = AllLines(window)
  OBVIOUS
<1> DEFINE Holds(s) == /\ Announced(Merge(AllItems(s, I)).list)
                       /\ Pictures(Merge(AllItems(s, I)).list) = SourcesOf(Among(s, E))
<1>2. PICK T : T = {s \in Seq(L) : Holds(s)}
  OBVIOUS
<1>3. <<>> \in T
  <2>1. Merge(AllItems(<<>>, I)).list = <<>>
    BY AllItemsEmpty, MergeEmpty DEF NothingMerged
  <2>2. SourcesOf(Among(<<>>, E)) = <<>>
    BY AmongEmpty, SourcesOfEmpty
  <2>3. <<>> \in Seq(L) /\ Holds(<<>>)
    BY <2>1, <2>2, NoPictures
  <2> QED
    BY <1>2, <2>3
<1>4. ASSUME NEW s \in Seq(L), NEW line \in L, s \in T PROVE Append(s, line) \in T
  <2>1. PICK longer, acc, list, among : /\ longer = Append(s, line) /\ acc = Merge(AllItems(s, I))
                                        /\ list = acc.list /\ among = Among(s, E)
    OBVIOUS
  <2>2. longer \in Seq(L)
    BY <2>1, AppendIs
  <2>3. acc \in Blocks(K)
    <3>1. AllItems(s, I) \in Seq(ItemsIn(K))
      BY <1>1, AllItemsType
    <3> QED
      BY <2>1, <3>1, MergeType
  <2>4. Announced(list) /\ Pictures(list) = SourcesOf(among)
    BY <1>2, <1>4, <2>1
  <2>5. among \in Seq(L)
    BY <2>1, AmongAppend
  <2>6. CASE line.source \notin I
    <3>1. Merge(AllItems(longer, I)).list = list
      BY <1>1, <2>1, <2>6, MergeOther
    <3>2. Among(longer, E) = among
      <4>1. line \notin E
        BY <2>6
      <4> QED
        BY <2>1, <4>1, AmongAppend
    <3>3. Holds(longer)
      BY <2>4, <3>1, <3>2
    <3> QED
      BY <1>2, <2>1, <2>2, <3>3
  <2>7. CASE line.source \in I
    <3>1. PICK seeing : seeing = Line("system_message", Seeing, line.source)
      OBVIOUS
    <3>2. seeing \in K /\ line \in K
      BY <1>1, <3>1 DEF AllLines, Lines
    <3>3. PICK block, text, with, image : /\ block = Append(acc.block, seeing) /\ text = Text(block)
                                          /\ with = Append(list, text) /\ image = Image(line.source)
      OBVIOUS
    <3>4. Merge(AllItems(longer, I)).list = Append(with, image)
      <4>1. Merge(AllItems(Append(s, line), I)).list =
              Append(Append(Merge(AllItems(s, I)).list,
                            Text(Append(Merge(AllItems(s, I)).block, Line("system_message", Seeing, line.source)))),
                     Image(line.source))
        BY <1>1, <2>7, MergeSelected
      <4> QED
        BY <2>1, <3>1, <3>3, <4>1
    <3>5. list \in Seq(Parts(K)) /\ acc.block \in Seq(K)
      BY <2>1, <2>3 DEF Blocks
    <3>6. block \in Seq(K) /\ Last(block) = seeing
      BY <3>2, <3>3, <3>5, AppendIs, LastAppended
    <3>7. text \in Parts(K) /\ text.type = "text" /\ text.lines = block
      BY <3>3, <3>6, TextIs
    <3>8. image \in Parts(K) /\ image.type = "image" /\ image.source = line.source
      BY <3>2, <3>3, ImageIs
    <3>9. Announced(with) /\ Pictures(with) = Pictures(list)
      BY <2>4, <3>3, <3>5, <3>6, MoreText
    <3>10. with \in Seq(Parts(K)) /\ Len(with) = Len(list) + 1 /\ with[Len(with)] = text
      BY <3>3, <3>5, <3>7, AppendIs
    <3>11. Announced(Append(with, image))
      <4>1. PICK new, k : new = Append(with, image) /\ k = Len(with) + 1
        OBVIOUS
      <4>2. k > 1 /\ new[k - 1] = text /\ new[k] = image
        <5>1. Len(list) \in Nat /\ Len(with) \in 1..Len(with) /\ Len(with) \in Nat
          BY <3>5, <3>10
        <5>2. new[Len(with) + 1] = image /\ new[Len(with)] = with[Len(with)]
          BY <3>8, <3>10, <4>1, <5>1, AppendIs
        <5>3. k > 1 /\ k - 1 = Len(with)
          BY <3>10, <4>1, <5>1
        <5> QED
          BY <3>10, <4>1, <5>2, <5>3
      <4>3. seeing.message = Seeing /\ seeing.source = line.source
        BY <3>1 DEF Line
      <4>4. AnnouncedAt(new, k)
        BY <3>6, <3>7, <3>8, <4>2, <4>3 DEF AnnouncedAt
      <4> QED
        BY <3>8, <3>9, <3>10, <4>1, <4>4, AnnouncedBefore
    <3>12. Pictures(Append(with, image)) = Append(Pictures(list), line.source)
      BY <3>8, <3>9, <3>10, PicturesAppend
    <3>13. Among(longer, E) = Append(among, line)
      <4>1. line \in E
        BY <1>1, <2>7
      <4>2. Among(Append(s, line), E) = Append(Among(s, E), line)
        BY <4>1, AmongIn
      <4> QED
        BY <2>1, <4>2
    <3>14. SourcesOf(Append(among, line)) = Append(SourcesOf(among), line.source)
      BY <2>5, SourcesOfAppend
    <3>15. Holds(longer)
      BY <2>4, <3>4, <3>11, <3>12, <3>13, <3>14
    <3> QED
      BY <1>2, <2>1, <2>2, <3>15
  <2> QED
    BY <2>6, <2>7
<1>5. Seq(L) \subseteq T
  BY <1>3, <1>4, SeqInduction
<1> QED
  BY <1>1, <1>2, <1>5

-----------------------------------------------------------------------------
(* The lines of the selected images *)

LEMMA AmongConcat ==
  ASSUME NEW S, NEW a \in Seq(S), NEW b \in Seq(S), NEW E, \A k \in DOMAIN b : b[k] \notin E
  PROVE  Among(a \o b, E) = Among(a, E)
<1>1. PICK T : T = {s \in Seq(S) : (\A k \in DOMAIN s : s[k] \notin E) => Among(a \o s, E) = Among(a, E)}
  OBVIOUS
<1>2. <<>> \in T
  <2>1. a \o <<>> = a /\ <<>> \in Seq(S)
    OBVIOUS
  <2> QED
    BY <1>1, <2>1
<1>3. ASSUME NEW s \in Seq(S), NEW e \in S, s \in T PROVE Append(s, e) \in T
  <2>1. PICK longer, before : longer = Append(s, e) /\ before = a \o s
    OBVIOUS
  <2>2. /\ longer \in Seq(S) /\ before \in Seq(S) /\ a \o longer = Append(before, e)
        /\ Len(s) \in Nat /\ DOMAIN s = 1..Len(s) /\ DOMAIN longer = 1..(Len(s) + 1)
        /\ longer[Len(s) + 1] = e /\ \A i \in 1..Len(s) : longer[i] = s[i]
    <3>1. before \in Seq(S) /\ a \o longer = Append(before, e)
      BY <2>1
    <3> QED
      BY <2>1, <3>1, AppendIs
  <2>3. ASSUME \A k \in DOMAIN longer : longer[k] \notin E PROVE Among(a \o longer, E) = Among(a, E)
    <3>1. e \notin E
      BY <2>2, <2>3
    <3>2. \A k \in DOMAIN s : s[k] \notin E
      BY <2>2, <2>3
    <3>3. Among(before, E) = Among(a, E)
      BY <1>1, <1>3, <2>1, <3>2
    <3>4. Among(Append(before, e), E) = Among(before, E)
      BY <2>2, <3>1, AmongAppend
    <3> QED
      BY <2>2, <3>3, <3>4
  <2> QED
    BY <1>1, <2>1, <2>2, <2>3
<1>4. Seq(S) \subseteq T
  BY <1>2, <1>3, SeqInduction
<1> QED
  BY <1>1, <1>4

LEMMA StartLen == ASSUME NEW S, NEW s \in Seq(S), NEW n \in 0..Len(s) PROVE Len(Start(s, n)) = n
  BY DEF Start

\* The indices in I up to n, one by one.
Own(N) == [i \in 1..N |-> i]

LEMMA OwnIs ==
  ASSUME NEW N \in Nat
  PROVE  Own(N) \in Seq(1..N) /\ Len(Own(N)) = N /\ \A i \in 1..N : Own(N)[i] = i
  BY DEF Own

LEMMA IndexEnds ==
  ASSUME NEW N \in Nat, NEW I
  PROVE  At(Start(Own(N), 0), I) = <<>> /\ Start(Own(N), N) = Own(N)
<1>1. Start(Own(N), 0) = <<>> /\ Start(Own(N), N) = Own(N)
  BY OwnIs, Starts
<1> QED
  BY <1>1, AtEmpty

LEMMA IndexType ==
  ASSUME NEW N \in Nat, NEW I, NEW n \in 0..N
  PROVE  At(Start(Own(N), n), I) \in Seq(1..N)
<1>1. PICK D, own : D = 1..N /\ own = Own(N)
  OBVIOUS
<1>2. own \in Seq(D) /\ n \in 0..Len(own)
  BY <1>1, OwnIs
<1>3. Start(own, n) \in Seq(D)
  BY <1>2, Starts
<1> QED
  BY <1>1, <1>3, AtType

LEMMA IndexStep ==
  ASSUME NEW N \in Nat, NEW I, NEW n \in 0..(N - 1)
  PROVE  /\ n + 1 \in I => At(Start(Own(N), n + 1), I) = Append(At(Start(Own(N), n), I), n + 1)
         /\ n + 1 \notin I => At(Start(Own(N), n + 1), I) = At(Start(Own(N), n), I)
<1>1. PICK D, own, i, done : D = 1..N /\ own = Own(N) /\ i = n + 1 /\ done = Start(own, n)
  OBVIOUS
<1>2. own \in Seq(D) /\ Len(own) = N /\ \A j \in 1..N : own[j] = j
  BY <1>1, OwnIs
<1>3. i \in D /\ n \in 0..Len(own) /\ n \in 0..(Len(own) - 1) /\ own[n + 1] = i
  BY <1>1, <1>2
<1>4. done \in Seq(D) /\ Start(own, n + 1) = Append(done, i)
  <2>1. Start(own, n) \in Seq(D) /\ Start(own, n + 1) = Append(Start(own, n), own[n + 1])
    BY <1>2, <1>3, Starts
  <2> QED
    BY <1>1, <1>3, <2>1
<1>5. Len(done) = n
  BY <1>1, <1>2, <1>3, StartLen
<1>6. At(Append(done, i), I) = IF Len(done) + 1 \in I THEN Append(At(done, I), i) ELSE At(done, I)
  BY <1>3, <1>4, AtAppend
<1>7. Start(Own(N), n + 1) = Append(done, i) /\ Start(Own(N), n) = done /\ Len(done) + 1 = i
  BY <1>1, <1>4, <1>5
<1> QED
  BY <1>1, <1>6, <1>7

\* The line of each selected image is there once, in the order of the entries.
LEMMA SelectedLines ==
  ASSUME NEW window \in Seq(Entries), NEW I, I \subseteq ImagesOf(window),
         NEW E, E = {line \in Lines(window) : line.source \in I}
  PROVE  SourcesOf(Among(IntermediateEntries(window), E)) = At([i \in DOMAIN window |-> i], I)
<1>1. PICK L, N, parts : /\ L = Lines(window) /\ N = Len(window)
                         /\ parts = [i \in DOMAIN window |-> LinesOf(window[i], i)]
  OBVIOUS
<1>2. N \in Nat /\ DOMAIN window = 1..N /\ Own(N) = [i \in DOMAIN window |-> i]
  BY <1>1 DEF Own
<1>3. /\ parts \in Seq(Seq(L)) /\ Len(parts) = N /\ IntermediateEntries(window) = FlattenSeq(parts)
      /\ \A i \in 1..N : parts[i] = LinesOf(window[i], i)
  <2>1. parts \in Seq(Seq(L))
    BY <1>1, IntermediateType
  <2>2. DOMAIN parts = 1..N
    BY <1>1, <1>2
  <2>3. Len(parts) = N
    BY <1>2, <2>1, <2>2
  <2> QED
    BY <1>1, <1>2, <2>1, <2>3 DEF IntermediateEntries
<1>4. At(Start(Own(N), 0), I) = <<>> /\ Start(Own(N), N) = Own(N)
  BY <1>2, IndexEnds
<1> DEFINE Holds(n) == SourcesOf(Among(FlattenSeq(Start(parts, n)), E)) = At(Start(Own(N), n), I)
<1>5. PICK T : T = {n \in 0..N : Holds(n)}
  OBVIOUS
<1>6. 0 \in T
  <2>1. Start(parts, 0) = <<>>
    BY <1>3, Starts
  <2>2. SourcesOf(Among(FlattenSeq(<<>>), E)) = <<>>
    BY FlattenEmpty, AmongEmpty, SourcesOfEmpty
  <2> QED
    BY <1>2, <1>4, <1>5, <2>1, <2>2
<1>7. ASSUME NEW n \in 0..(N - 1), n \in T PROVE n + 1 \in T
  <2>1. PICK i, new, before, done : /\ i = n + 1 /\ new = parts[n + 1] /\ before = Start(parts, n)
                                    /\ done = Start(Own(N), n)
    OBVIOUS
  <2>2. /\ i \in 1..N /\ n \in 0..N /\ i \in 0..N /\ new \in Seq(L) /\ before \in Seq(Seq(L))
        /\ Start(parts, n + 1) = Append(before, new)
    <3>1. i \in 1..N /\ n \in 0..N /\ i \in 0..N
      BY <1>2, <2>1
    <3>2. /\ parts[n + 1] \in Seq(L) /\ Start(parts, n) \in Seq(Seq(L))
          /\ Start(parts, n + 1) = Append(Start(parts, n), parts[n + 1])
      BY <1>3, <3>1, Starts
    <3> QED
      BY <2>1, <3>1, <3>2
  <2>3. /\ i \in I => At(Start(Own(N), n + 1), I) = Append(At(done, I), i)
        /\ i \notin I => At(Start(Own(N), n + 1), I) = At(done, I)
    BY <1>2, <2>1, IndexStep
  <2>4. PICK lines : lines = FlattenSeq(before)
    OBVIOUS
  <2>5. lines \in Seq(L) /\ FlattenSeq(Append(before, new)) = lines \o new
    BY <2>2, <2>4, FlattenType, FlattenAppend
  <2>6. SourcesOf(Among(lines, E)) = At(done, I)
    BY <1>5, <1>7, <2>1, <2>4
  <2>7. i \in DOMAIN window /\ new = LinesOf(window[i], i)
    BY <1>2, <1>3, <2>1, <2>2
  <2>8. CASE i \in I
    <3>1. PICK line : line = Line("system_message", Placeholder, i)
      OBVIOUS
    <3>2. new = <<line>>
      <4>1. window[i].type \in ImageTypes
        BY <2>8 DEF ImagesOf
      <4> QED
        BY <2>7, <3>1, <4>1, LinesOfImage
    <3>3. line \in L /\ line.source = i
      BY <2>2, <3>1, <3>2 DEF Line
    <3>4. lines \o new = Append(lines, line)
      BY <2>5, <3>2, <3>3
    <3>5. Among(Append(lines, line), E) = Append(Among(lines, E), line)
      <4>1. line \in E
        BY <1>1, <2>8, <3>3
      <4> QED
        BY <2>5, <3>3, <4>1, AmongIn
    <3>6. SourcesOf(Append(Among(lines, E), line)) = Append(SourcesOf(Among(lines, E)), i)
      <4>1. PICK among : among = Among(lines, E)
        OBVIOUS
      <4>2. among \in Seq(L)
        BY <2>5, <4>1, AtType DEF Among
      <4> QED
        BY <3>3, <4>1, <4>2, SourcesOfAppend
    <3>7. Holds(n + 1)
      BY <2>2, <2>3, <2>5, <2>6, <2>8, <3>4, <3>5, <3>6
    <3> QED
      BY <1>5, <2>1, <2>2, <3>7
  <2>9. CASE i \notin I
    <3>1. \A k \in DOMAIN new : new[k].source = i
      BY <2>7, LinesOfType
    <3>2. \A k \in DOMAIN new : new[k] \notin E
      BY <2>9, <3>1
    <3>3. Among(lines \o new, E) = Among(lines, E)
      BY <2>2, <2>5, <3>2, AmongConcat
    <3>4. Holds(n + 1)
      BY <2>2, <2>3, <2>5, <2>6, <2>9, <3>3
    <3> QED
      BY <1>5, <2>1, <2>2, <3>4
  <2> QED
    BY <2>8, <2>9
<1>8. 0..N \subseteq T
  BY <1>2, <1>6, <1>7, InductionTo
<1>9. Holds(N)
  BY <1>2, <1>5, <1>8
<1>10. Start(parts, N) = parts /\ Start(Own(N), N) = Own(N)
  BY <1>3, <1>4, Starts
<1> QED
  BY <1>1, <1>2, <1>3, <1>9, <1>10

-----------------------------------------------------------------------------
(* The latest of the images *)

Later(I, i, n) == {j \in (i + 1)..n : j \in I}

\* Every index in I up to n has its place; the indices after it are those that come later.
Counted(I, J, n) ==
  /\ J \in Seq(1..n)
  /\ \A i \in 1..n : i \in I => \E p \in DOMAIN J : J[p] = i
  /\ \A p \in DOMAIN J : J[p] \in I /\ Cardinality(Later(I, J[p], n)) = Len(J) - p

LEMMA LaterStep ==
  ASSUME NEW I, NEW n \in Nat, NEW i \in 1..n
  PROVE  /\ IsFiniteSet(Later(I, i, n)) /\ Cardinality(Later(I, i, n)) \in Nat
         /\ n + 1 \in I => Cardinality(Later(I, i, n + 1)) = Cardinality(Later(I, i, n)) + 1
         /\ n + 1 \notin I => Later(I, i, n + 1) = Later(I, i, n)
<1>1. Later(I, i, n) \subseteq (i + 1)..n
  BY DEF Later
<1>2. IsFiniteSet((i + 1)..n)
  BY FS_Interval
<1>3. IsFiniteSet(Later(I, i, n))
  BY <1>1, <1>2, FS_Subset
<1>4. Cardinality(Later(I, i, n)) \in Nat
  BY <1>3, FS_CardinalityType
<1>5. CASE n + 1 \in I
  <2>1. Later(I, i, n + 1) = Later(I, i, n) \cup {n + 1} /\ n + 1 \notin Later(I, i, n)
    BY <1>5 DEF Later
  <2> QED
    BY <1>3, <1>4, <1>5, <2>1, FS_AddElement
<1>6. CASE n + 1 \notin I
  <2>1. Later(I, i, n + 1) = Later(I, i, n)
    BY <1>6 DEF Later
  <2> QED
    BY <1>3, <1>4, <1>6, <2>1
<1> QED
  BY <1>5, <1>6

LEMMA CountedStep ==
  ASSUME NEW I, NEW n \in Nat, NEW J, Counted(I, J, n)
  PROVE  /\ n + 1 \in I => Counted(I, Append(J, n + 1), n + 1)
         /\ n + 1 \notin I => Counted(I, J, n + 1)
<1>1. J \in Seq(1..n) /\ J \in Seq(1..(n + 1)) /\ DOMAIN J = 1..Len(J) /\ Len(J) \in Nat
  BY DEF Counted
<1>2. \A p \in DOMAIN J : J[p] \in 1..n
  BY <1>1
<1>3. CASE n + 1 \in I
  <2>1. PICK new, m : new = Append(J, n + 1) /\ m = Len(J) + 1
    OBVIOUS
  <2>2. /\ new \in Seq(1..(n + 1)) /\ Len(new) = m /\ DOMAIN new = 1..m /\ new[m] = n + 1 /\ m \in Nat
        /\ \A p \in DOMAIN J : p \in 1..m /\ new[p] = J[p]
    BY <1>1, <2>1
  <2>3. ASSUME NEW i \in 1..(n + 1), i \in I PROVE \E p \in DOMAIN new : new[p] = i
    <3>1. CASE i = n + 1
      BY <2>1, <2>2, <3>1
    <3>2. CASE i # n + 1
      <4>1. PICK p \in DOMAIN J : J[p] = i
        BY <2>3, <3>2 DEF Counted
      <4> QED
        BY <2>2, <4>1
    <3> QED
      BY <3>1, <3>2
  <2>4. ASSUME NEW p \in DOMAIN new PROVE new[p] \in I /\ Cardinality(Later(I, new[p], n + 1)) = Len(new) - p
    <3>1. CASE p = m
      <4>1. Later(I, n + 1, n + 1) = {}
        BY DEF Later
      <4>2. Cardinality(Later(I, n + 1, n + 1)) = 0
        BY <4>1, FS_EmptySet
      <4> QED
        BY <1>3, <2>2, <3>1, <4>2
    <3>2. CASE p # m
      <4>1. p \in DOMAIN J /\ p \in Nat
        BY <1>1, <2>1, <2>2, <3>2
      <4>2. PICK i : i = J[p]
        OBVIOUS
      <4>3. i \in 1..n /\ new[p] = i /\ i \in I /\ Cardinality(Later(I, i, n)) = Len(J) - p
        BY <1>2, <2>2, <4>1, <4>2 DEF Counted
      <4>4. Cardinality(Later(I, i, n + 1)) = Cardinality(Later(I, i, n)) + 1
        BY <1>3, <4>3, LaterStep
      <4> QED
        BY <1>1, <2>1, <2>2, <4>1, <4>3, <4>4
    <3> QED
      BY <3>1, <3>2
  <2> QED
    BY <1>3, <2>1, <2>2, <2>3, <2>4 DEF Counted
<1>4. CASE n + 1 \notin I
  <2>1. ASSUME NEW i \in 1..(n + 1), i \in I PROVE \E p \in DOMAIN J : J[p] = i
    <3>1. i \in 1..n
      BY <1>4, <2>1
    <3> QED
      BY <2>1, <3>1 DEF Counted
  <2>2. ASSUME NEW p \in DOMAIN J PROVE J[p] \in I /\ Cardinality(Later(I, J[p], n + 1)) = Len(J) - p
    <3>1. PICK i : i = J[p]
      OBVIOUS
    <3>2. i \in 1..n /\ i \in I /\ Cardinality(Later(I, i, n)) = Len(J) - p
      BY <1>2, <3>1 DEF Counted
    <3>3. Later(I, i, n + 1) = Later(I, i, n)
      BY <1>4, <3>2, LaterStep
    <3> QED
      BY <3>1, <3>2, <3>3
  <2> QED
    BY <1>1, <1>4, <2>1, <2>2 DEF Counted
<1> QED
  BY <1>3, <1>4

LEMMA AllCounted == ASSUME NEW N \in Nat, NEW I PROVE Counted(I, At(Own(N), I), N)
<1>1. PICK T : T = {n \in 0..N : Counted(I, At(Start(Own(N), n), I), n)}
  OBVIOUS
<1>2. 0 \in T
  <2>1. Counted(I, <<>>, 0)
    BY DEF Counted
  <2>2. At(Start(Own(N), 0), I) = <<>>
    BY IndexEnds
  <2> QED
    BY <1>1, <2>1, <2>2
<1>3. ASSUME NEW n \in 0..(N - 1), n \in T PROVE n + 1 \in T
  <2>1. PICK J, new : J = At(Start(Own(N), n), I) /\ new = At(Start(Own(N), n + 1), I)
    OBVIOUS
  <2>2. n \in Nat /\ n + 1 \in 0..N
    OBVIOUS
  <2>3. Counted(I, J, n)
    BY <1>1, <1>3, <2>1
  <2>4. (n + 1 \in I => new = Append(J, n + 1)) /\ (n + 1 \notin I => new = J)
    BY <2>1, IndexStep
  <2>5. Counted(I, new, n + 1)
    BY <2>2, <2>3, <2>4, CountedStep
  <2> QED
    BY <1>1, <2>1, <2>2, <2>5
<1>4. 0..N \subseteq T
  BY <1>2, <1>3, InductionTo
<1>5. Counted(I, At(Start(Own(N), N), I), N)
  BY <1>1, <1>4
<1> QED
  BY <1>5, IndexEnds

\* The last m of a sequence are those that less than m come after.
LEMMA LastOfSet ==
  ASSUME NEW S, NEW s \in Seq(S), NEW m \in Nat \ {0}
  PROVE  ToSet(LastOf(s, m)) = {s[q] : q \in {q \in DOMAIN s : Len(s) - q < m}}
<1>1. PICK N, t : N = Len(s) /\ t = LastOf(s, m)
  OBVIOUS
<1>2. N \in Nat /\ DOMAIN s = 1..N /\ m \in Nat /\ m > 0
  BY <1>1
<1>3. CASE m >= N
  <2>1. t = s
    BY <1>1, <1>3 DEF LastOf
  <2>2. \A q \in DOMAIN s : Len(s) - q < m
    BY <1>1, <1>2, <1>3
  <2> QED
    BY <1>1, <2>1, <2>2 DEF ToSet
<1>4. CASE m < N
  <2>1. t = SubSeq(s, N - m + 1, N)
    BY <1>1, <1>2, <1>4 DEF LastOf
  <2>2. DOMAIN t = 1..m /\ \A k \in 1..m : t[k] = s[N - m + k]
    BY <1>1, <1>2, <1>4, <2>1
  <2>3. ASSUME NEW q \in DOMAIN s, N - q < m PROVE s[q] \in ToSet(t)
    <3>1. PICK k : k = q - N + m
      OBVIOUS
    <3>2. k \in 1..m /\ N - m + k = q
      BY <1>2, <1>4, <2>3, <3>1
    <3>3. t[k] = s[q]
      BY <2>2, <3>2
    <3> QED
      BY <2>2, <3>2, <3>3 DEF ToSet
  <2>4. ASSUME NEW x \in ToSet(t) PROVE \E q \in DOMAIN s : N - q < m /\ x = s[q]
    <3>1. PICK k \in 1..m : x = t[k]
      BY <2>2 DEF ToSet
    <3>2. PICK q : q = N - m + k
      OBVIOUS
    <3>3. q \in DOMAIN s /\ N - q < m /\ x = s[q]
      BY <1>2, <1>4, <2>2, <3>1, <3>2
    <3> QED
      BY <3>3
  <2> QED
    BY <1>1, <2>3, <2>4
<1> QED
  BY <1>1, <1>2, <1>3, <1>4

\* The entries of a type that fewer than m of it come after.
LatestOfType(window, type, m) ==
  {i \in DOMAIN window :
     /\ window[i].type = type
     /\ Cardinality({j \in (i + 1)..Len(window) : window[j].type = window[i].type}) < m}

LEMMA LatestOf ==
  ASSUME NEW window \in Seq(Entries), NEW type, NEW m \in Nat \ {0}
  PROVE  ToSet(LastOf(Indices(window, type), m)) = LatestOfType(window, type, m)
<1>1. PICK N, I, J : /\ N = Len(window) /\ I = {i \in DOMAIN window : window[i].type = type}
                     /\ J = Indices(window, type)
  OBVIOUS
<1>2. N \in Nat /\ DOMAIN window = 1..N /\ Own(N) = [i \in DOMAIN window |-> i] /\ I \subseteq 1..N
  BY <1>1 DEF Own
<1>3. J = At(Own(N), I)
  BY <1>1, <1>2 DEF Indices
<1>4. Counted(I, J, N)
  BY <1>2, <1>3, AllCounted
<1>5. J \in Seq(1..N)
  BY <1>4 DEF Counted
<1>6. ASSUME NEW i \in I
      PROVE  {j \in (i + 1)..Len(window) : window[j].type = window[i].type} = Later(I, i, N)
  <2>1. i \in 1..N /\ window[i].type = type
    BY <1>1, <1>2
  <2>2. \A j \in (i + 1)..N : j \in DOMAIN window
    BY <1>2, <2>1
  <2> QED
    BY <1>1, <2>1, <2>2 DEF Later
<1>7. PICK R : R = {i \in I : Cardinality(Later(I, i, N)) < m}
  OBVIOUS
<1>8. ToSet(LastOf(J, m)) = R
  <2>1. PICK Q : Q = {q \in DOMAIN J : Len(J) - q < m}
    OBVIOUS
  <2>2. ToSet(LastOf(J, m)) = {J[q] : q \in Q}
    BY <1>5, <2>1, LastOfSet
  <2>3. ASSUME NEW q \in Q PROVE J[q] \in R
    <3>1. J[q] \in I /\ Cardinality(Later(I, J[q], N)) = Len(J) - q
      BY <1>4, <2>1 DEF Counted
    <3> QED
      BY <1>7, <2>1, <3>1
  <2>4. ASSUME NEW i \in R PROVE \E q \in Q : J[q] = i
    <3>1. i \in I /\ i \in 1..N /\ Cardinality(Later(I, i, N)) < m
      BY <1>2, <1>7
    <3>2. PICK q \in DOMAIN J : J[q] = i
      BY <1>4, <3>1 DEF Counted
    <3>3. Cardinality(Later(I, i, N)) = Len(J) - q
      BY <1>4, <3>2 DEF Counted
    <3> QED
      BY <2>1, <3>1, <3>2, <3>3
  <2> QED
    BY <2>2, <2>3, <2>4
<1>9. LatestOfType(window, type, m) = R
  BY <1>1, <1>6, <1>7 DEF LatestOfType
<1> QED
  BY <1>1, <1>8, <1>9

\* As many images of each kind are shown.
Many(type) == IF type = "generic_image" THEN max_recent_generic_images ELSE max_recent_pre_action_images

Latest(window) ==
  {i \in DOMAIN window :
     /\ window[i].type \in ImageTypes
     /\ Cardinality({j \in (i + 1)..Len(window) : window[j].type = window[i].type}) < Many(window[i].type)}

LEMMA SelectedAreLatest == ASSUME NEW window \in Seq(Entries) PROVE Selected(window) = Latest(window)
<1>1. ToSet(LastOf(Indices(window, "generic_image"), max_recent_generic_images))
        = LatestOfType(window, "generic_image", max_recent_generic_images)
  BY TranscriptAssumption, LatestOf
<1>2. ToSet(LastOf(Indices(window, "image_pre_action"), max_recent_pre_action_images))
        = LatestOfType(window, "image_pre_action", max_recent_pre_action_images)
  BY TranscriptAssumption, LatestOf
<1>3. PICK count : count = [i \in DOMAIN window |->
                              Cardinality({j \in (i + 1)..Len(window) : window[j].type = window[i].type})]
  OBVIOUS
<1>4. \A type, m : LatestOfType(window, type, m) =
        {i \in DOMAIN window : window[i].type = type /\ count[i] < m}
  BY <1>3 DEF LatestOfType
<1>5. Latest(window) = {i \in DOMAIN window : window[i].type \in ImageTypes /\ count[i] < Many(window[i].type)}
  BY <1>3 DEF Latest
<1>6. Selected(window) = LatestOfType(window, "generic_image", max_recent_generic_images)
                           \cup LatestOfType(window, "image_pre_action", max_recent_pre_action_images)
  BY <1>1, <1>2 DEF Selected
<1> QED
  BY <1>4, <1>5, <1>6 DEF ImageTypes, Many

\* The images of the list that is made of a window.
LEMMA ImagesOfWindow ==
  ASSUME NEW window \in Seq(Entries), NEW list, list = WithTime(Merged(UnifiedItems(window)))
  PROVE  Announced(list) /\ Pictures(list) = At([i \in DOMAIN window |-> i], Latest(window))
<1>1. PICK recorded, lines, I, L : /\ recorded = IntermediateEntries(window) /\ lines = Deduplicate(recorded)
                                   /\ I = Selected(window) /\ L = Lines(window)
  OBVIOUS
<1>2. PICK E : E = {line \in L : line.source \in I}
  OBVIOUS
<1>3. recorded \in Seq(L) /\ Sayable(L) /\ lines \in Seq(L) /\ UnifiedItems(window) = AllItems(lines, I)
  BY <1>1, WindowLines
<1>4. I \subseteq ImagesOf(window)
  BY <1>1, SelectedImages
<1>5. PICK acc, K : acc = Merge(AllItems(lines, I)) /\ K = AllLines(window)
  OBVIOUS
<1>6. acc \in Blocks(K)
  <2>1. AllItems(lines, I) \in Seq(ItemsIn(K))
    BY <1>1, <1>3, <1>4, <1>5, AllItemsType
  <2> QED
    BY <1>5, <2>1, MergeType
<1>7. Announced(acc.list) /\ Pictures(acc.list) = SourcesOf(Among(lines, E))
  BY <1>1, <1>2, <1>3, <1>4, <1>5, ImagesMerged
<1>8. Among(lines, E) = Among(recorded, E)
  <2>1. ASSUME NEW line \in E PROVE line.type \notin Deduplicated
    <3>1. line.message = Placeholder
      BY <1>1, <1>2, <1>4 DEF ImagesOf, Lines
    <3>2. line.type = "system_message"
      BY <1>1, <1>2, <3>1 DEF Lines
    <3> QED
      BY <3>2, SystemMessage
  <2> QED
    BY <1>1, <1>3, <2>1, OthersKept
<1>9. SourcesOf(Among(recorded, E)) = At([i \in DOMAIN window |-> i], I)
  BY <1>1, <1>2, <1>4, SelectedLines
<1>10. PICK closed : closed = Closed(acc)
  OBVIOUS
<1>11. closed \in Seq(Parts(K)) /\ list = WithTime(closed)
  BY <1>3, <1>5, <1>6, <1>10, ClosedType DEF Merged
<1>12. Announced(closed) /\ Pictures(closed) = Pictures(acc.list)
  BY <1>6, <1>7, <1>10, ClosedImages
<1>13. Announced(list) /\ Pictures(list) = Pictures(closed)
  BY <1>11, <1>12, TimedImages
<1>14. I = Latest(window)
  BY <1>1, SelectedAreLatest
<1> QED
  BY <1>7, <1>8, <1>9, <1>12, <1>13, <1>14

LEMMA LatestRead == EntriesTyped => LatestImagesShown
<1> SUFFICES ASSUME EntriesTyped PROVE LatestImagesShown
  OBVIOUS
<1>1. PICK window, list : window = Shown(entries) /\ list = AsMultimodalList
  OBVIOUS
<1>2. window \in Seq(Entries)
  BY <1>1, ShownType DEF EntriesTyped
<1>3. Announced(list) /\ Pictures(list) = At([i \in DOMAIN window |-> i], Latest(window))
  <2>1. CASE entries = <<>>
    <3>1. window = <<>> /\ list = <<>>
      BY <1>1, <2>1, TranscriptAssumption DEF Shown, AsMultimodalList
    <3>2. [i \in DOMAIN window |-> i] = <<>>
      BY <3>1
    <3> QED
      BY <3>1, <3>2, NoPictures, AtEmpty
  <2>2. CASE entries # <<>>
    <3>1. list = WithTime(Merged(UnifiedItems(window)))
      BY <1>1, <2>2 DEF AsMultimodalList
    <3> QED
      BY <1>2, <3>1, ImagesOfWindow
  <2> QED
    BY <2>1, <2>2
<1>4. Pictures(list) = [k \in DOMAIN OfType(list, "image") |-> OfType(list, "image")[k].source]
  BY DEF Pictures, SourcesOf
<1> QED
  BY <1>1, <1>3, <1>4 DEF LatestImagesShown, Announced, AnnouncedAt, Latest, Many

\* Which images are shown, and where (history.py:332-396).
THEOREM LatestImages == Spec => []LatestImagesShown
  BY Typed, LatestRead, PTL
=============================================================================
