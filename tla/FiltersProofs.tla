----------------------------- MODULE FiltersProofs -----------------------------
(***************************************************************************)
(* Induction over sets of numbers and of sequences, and with it what the   *)
(* operators of Filters do for every list.                                 *)
(***************************************************************************)
EXTENDS Filters, SequenceTheorems, WellFoundedInduction, TLAPS

----------------------------------------------------------------------------
(* Induction, over sets of numbers and of sequences.                       *)

LEMMA NatMin ==
  ASSUME NEW T \in SUBSET Nat, T # {}
  PROVE  \E x \in T : \A y \in T : x <= y
<1>1. IsWellFoundedOn(OpToRel(<, Nat), Nat)
  BY NatLessThanWellFounded, Zenon
<1>2. PICK x \in T : \A y \in T : ~(<<y, x>> \in OpToRel(<, Nat))
  BY <1>1, WFMin
<1>3. \A y \in T : ~(y < x)
  BY <1>2 DEF OpToRel
<1> QED
  BY <1>3

LEMMA NatInduct ==
  ASSUME NEW T \in SUBSET Nat, 0 \in T, \A n \in T : n + 1 \in T
  PROVE  T = Nat
<1> SUFFICES ASSUME T # Nat PROVE FALSE
  OBVIOUS
<1>1. PICK x \in Nat \ T : \A y \in Nat \ T : x <= y
  BY NatMin
<1>2. x # 0 /\ x - 1 \in Nat /\ x - 1 \in T
  BY <1>1
<1> QED
  BY <1>1, <1>2

LEMMA SeqInduct ==
  ASSUME NEW A, NEW T \in SUBSET Seq(A), <<>> \in T, \A m \in T, x \in A : Append(m, x) \in T
  PROVE  T = Seq(A)
<1> DEFINE N == {n \in Nat : \A m \in Seq(A) : Len(m) = n => m \in T}
<1>1. 0 \in N
  BY EmptySeq
<1>2. ASSUME NEW n \in N PROVE n + 1 \in N
  <2> SUFFICES ASSUME NEW m \in Seq(A), Len(m) = n + 1 PROVE m \in T
    OBVIOUS
  <2>1. /\ SubSeq(m, 1, n) \in Seq(A) /\ Len(SubSeq(m, 1, n)) = n
        /\ m[n + 1] \in A
    BY SubSeqProperties, LenProperties
  <2>2. m = Append(SubSeq(m, 1, n), m[n + 1])
    <3>1. SubSeq(m, 1, n + 1) = SubSeq(m, 1, (n + 1) - 1) \o <<m[n + 1]>>
      BY SubSeqRecursiveSecond
    <3>2. SubSeq(m, 1, n + 1) = m /\ (n + 1) - 1 = n
      BY SubSeqFull
    <3> QED
      BY <3>1, <3>2, <2>1, AppendIsConcat
  <2> QED
    BY <2>1, <2>2, <1>2
<1>3. N = Nat
  <2> HIDE DEF N
  <2>1. N \in SUBSET Nat
    BY DEF N
  <2> QED
    BY <1>1, <1>2, <2>1, NatInduct
<1> QED
  BY <1>3, LenProperties

----------------------------------------------------------------------------
(* AtPlaces, one place after the other.                                     *)

\* f[n] is what was selected of the first n elements.
Steps(f, m, I, k) ==
  /\ DOMAIN f = 0 .. k
  /\ f[0] = <<>>
  /\ \A n \in 1 .. k : f[n] = IF n \in I THEN Append(f[n - 1], m[n]) ELSE f[n - 1]

LEMMA StepsExist ==
  ASSUME NEW m, NEW I, NEW k \in Nat
  PROVE  \E f : Steps(f, m, I, k)
<1> DEFINE N == {n \in Nat : \E f : Steps(f, m, I, n)}
<1>1. 0 \in N
  <2>1. Steps([i \in 0 .. 0 |-> <<>>], m, I, 0)
    BY DEF Steps
  <2> QED
    BY <2>1
<1>2. ASSUME NEW n \in N PROVE n + 1 \in N
  <2>1. PICK f : Steps(f, m, I, n)
    OBVIOUS
  <2> DEFINE g == [i \in 0 .. (n + 1) |-> IF i <= n THEN f[i] ELSE
                      IF n + 1 \in I THEN Append(f[n], m[n + 1]) ELSE f[n]]
  <2>2. /\ DOMAIN g = 0 .. (n + 1) /\ \A i \in 0 .. n : g[i] = f[i]
        /\ g[n + 1] = IF n + 1 \in I THEN Append(f[n], m[n + 1]) ELSE f[n]
    OBVIOUS
  <2> HIDE DEF g
  <2>3. \A i \in 1 .. n : i \in 0 .. n /\ i - 1 \in 0 .. n
    OBVIOUS
  <2>4. \A i \in 1 .. n : g[i] = IF i \in I THEN Append(g[i - 1], m[i]) ELSE g[i - 1]
    BY <2>1, <2>2, <2>3 DEF Steps
  <2>5. n \in 0 .. n /\ 0 \in 0 .. n /\ (n + 1) - 1 = n
    OBVIOUS
  <2>6. g[0] = <<>> /\ 1 .. n + 1 = (1 .. n) \cup {n + 1}
    BY <2>1, <2>2, <2>5 DEF Steps
  <2>7. \A i \in 1 .. n + 1 : g[i] = IF i \in I THEN Append(g[i - 1], m[i]) ELSE g[i - 1]
    BY <2>2, <2>4, <2>5, <2>6
  <2>8. Steps(g, m, I, n + 1)
    BY <2>2, <2>6, <2>7 DEF Steps
  <2> QED
    BY <2>8
<1>3. N = Nat
  <2> HIDE DEF N
  <2>1. N \in SUBSET Nat
    BY DEF N
  <2> QED
    BY <1>1, <1>2, <2>1, NatInduct
<1> QED
  BY <1>3

LEMMA StepsUnique ==
  ASSUME NEW m, NEW I, NEW k \in Nat, NEW f, NEW g, Steps(f, m, I, k),
         NEW j \in Nat, NEW p, NEW J, k <= j, Steps(g, p, J, j),
         \A n \in 1 .. k : p[n] = m[n], \A n \in 1 .. k : n \in I <=> n \in J
  PROVE  \A n \in 0 .. k : f[n] = g[n]
<1> DEFINE N == {n \in Nat : n <= k => f[n] = g[n]}
<1>1. 0 \in N
  BY DEF Steps
<1>2. ASSUME NEW n \in N PROVE n + 1 \in N
  <2> SUFFICES ASSUME n + 1 <= k PROVE f[n + 1] = g[n + 1]
    OBVIOUS
  <2>1. f[n] = g[n] /\ n + 1 \in 1 .. k /\ n + 1 \in 1 .. j /\ p[n + 1] = m[n + 1]
      /\ (n + 1) - 1 = n /\ (n + 1 \in I <=> n + 1 \in J)
    OBVIOUS
  <2> QED
    BY <2>1 DEF Steps
<1>3. N = Nat
  <2> HIDE DEF N
  <2>1. N \in SUBSET Nat
    BY DEF N
  <2> QED
    BY <1>1, <1>2, <2>1, NatInduct
<1> QED
  BY <1>3

LEMMA PlacesSteps ==
  ASSUME NEW m, NEW I, Len(m) \in Nat
  PROVE  \E f : Steps(f, m, I, Len(m)) /\ AtPlaces(m, I) = f[Len(m)]
<1> DEFINE D(f) == f = [n \in 0 .. Len(m) |->
              IF n = 0 THEN <<>> ELSE IF n \in I THEN Append(f[n - 1], m[n]) ELSE f[n - 1]]
           sel == CHOOSE f : D(f)
<1>1. PICK f : Steps(f, m, I, Len(m))
  BY StepsExist
<1>2. \E g : D(g)
  <2> DEFINE h == [n \in 0 .. Len(m) |-> f[n]]
  <2>1. \A n \in 0 .. Len(m) : h[n] = f[n]
    OBVIOUS
  <2>2. h = [n \in 0 .. Len(m) |-> h[n]]
    OBVIOUS
  <2> HIDE DEF h
  <2>3. \A n \in 0 .. Len(m) : h[n] =
              IF n = 0 THEN <<>> ELSE IF n \in I THEN Append(h[n - 1], m[n]) ELSE h[n - 1]
    <3> TAKE n \in 0 .. Len(m)
    <3>1. CASE n = 0
      BY <1>1, <2>1, <3>1 DEF Steps
    <3>2. CASE n # 0
      <4>1. n \in 1 .. Len(m) /\ n - 1 \in 0 .. Len(m)
        BY <3>2
      <4> QED
        BY <1>1, <2>1, <3>2, <4>1 DEF Steps
    <3> QED BY <3>1, <3>2
  <2>4. D(h)
    BY <2>2, <2>3
  <2> QED
   BY <2>4
<1>3. D(sel)
  BY <1>2
<1>4. Steps(sel, m, I, Len(m))
  <2> HIDE DEF sel
  <2>1. \A n \in 1 .. Len(m) : n \in 0 .. Len(m) /\ n # 0
    OBVIOUS
  <2>2. 0 \in 0 .. Len(m)
    OBVIOUS
  <2> QED BY <1>3, <2>1, <2>2 DEF Steps
<1>5. AtPlaces(m, I) = sel[Len(m)]
  BY DEF AtPlaces
<1> QED
  BY <1>4, <1>5

LEMMA PlacesEmpty ==
  ASSUME NEW I
  PROVE  AtPlaces(<<>>, I) = <<>>
<1>1. Len(<<>>) = 0
  OBVIOUS
<1> QED
  BY <1>1, PlacesSteps DEF Steps

LEMMA PlacesStep ==
  ASSUME NEW m, NEW p, NEW I, NEW J, NEW k \in Nat, Len(m) = k, Len(p) = k + 1,
         \A n \in 1 .. k : p[n] = m[n], \A n \in 1 .. k : n \in I <=> n \in J
  PROVE  AtPlaces(p, J) = IF k + 1 \in J THEN Append(AtPlaces(m, I), p[k + 1]) ELSE AtPlaces(m, I)
<1>1. PICK f : Steps(f, m, I, k) /\ AtPlaces(m, I) = f[k]
  BY PlacesSteps
<1>2. PICK g : Steps(g, p, J, k + 1) /\ AtPlaces(p, J) = g[k + 1]
  BY PlacesSteps
<1>3. k \in 0 .. k /\ k <= k + 1 /\ k + 1 \in 1 .. k + 1 /\ (k + 1) - 1 = k /\ k + 1 \in Nat
  OBVIOUS
<1>4. \A n \in 0 .. k : f[n] = g[n]
  <2> DEFINE j == k + 1
  <2>1. j \in Nat /\ k <= j
    BY <1>3
  <2>2. Steps(g, p, J, j)
    BY <1>2
  <2>3. Steps(f, m, I, k)
    BY <1>1
  <2>4. \A n \in 1 .. k : p[n] = m[n]
    OBVIOUS
  <2>5. \A n \in 1 .. k : n \in I <=> n \in J
    OBVIOUS
  <2> HIDE DEF j
  <2> QED
    BY ONLY k \in Nat, <2>1, <2>2, <2>3, <2>4, <2>5, StepsUnique, SMTT(30)
<1>5. g[k + 1] = IF k + 1 \in J THEN Append(g[k], p[k + 1]) ELSE g[k]
  BY <1>2, <1>3 DEF Steps
<1> QED
  BY <1>1, <1>2, <1>3, <1>4, <1>5

LEMMA PlacesAppend ==
  ASSUME NEW A, NEW m \in Seq(A), NEW x \in A, NEW I, NEW J,
         \A n \in 1 .. Len(m) : n \in I <=> n \in J
  PROVE  AtPlaces(Append(m, x), J) =
           IF Len(m) + 1 \in J THEN Append(AtPlaces(m, I), x) ELSE AtPlaces(m, I)
<1> DEFINE p == Append(m, x)
           k == Len(m)
<1>1. /\ k \in Nat /\ Len(p) = k + 1 /\ p[k + 1] = x
      /\ \A n \in 1 .. k : p[n] = m[n]
  BY AppendProperties, LenProperties
<1>2. Len(m) = k /\ \A n \in 1 .. k : n \in I <=> n \in J
  OBVIOUS
<1> HIDE DEF p, k
<1>3. AtPlaces(p, J) = IF k + 1 \in J THEN Append(AtPlaces(m, I), p[k + 1]) ELSE AtPlaces(m, I)
  BY ONLY <1>1, <1>2, PlacesStep
<1> QED
  BY <1>1, <1>3 DEF p, k

----------------------------------------------------------------------------
(* Select                                                                  *)

LEMMA SelectEmpty ==
  ASSUME NEW S
  PROVE  Select(<<>>, S) = <<>>
  BY PlacesEmpty DEF Select

LEMMA SelectAppend ==
  ASSUME NEW A, NEW m \in Seq(A), NEW x \in A, NEW S
  PROVE  Select(Append(m, x), S) = IF x \in S THEN Append(Select(m, S), x) ELSE Select(m, S)
<1> DEFINE p == Append(m, x)
           I == {i \in 1 .. Len(m) : m[i] \in S}
           J == {i \in 1 .. Len(p) : p[i] \in S}
<1>1. /\ Len(m) \in Nat /\ Len(p) = Len(m) + 1 /\ p[Len(m) + 1] = x
      /\ \A n \in 1 .. Len(m) : p[n] = m[n]
  BY AppendProperties, LenProperties
<1>2. Select(m, S) = AtPlaces(m, I) /\ Select(p, S) = AtPlaces(p, J)
  BY DEF Select
<1> HIDE DEF p
<1>3. /\ \A n \in 1 .. Len(m) : n \in I <=> n \in J
      /\ Len(m) + 1 \in J <=> x \in S
  BY <1>1
<1> HIDE DEF I, J
<1>4. AtPlaces(Append(m, x), J) =
        IF Len(m) + 1 \in J THEN Append(AtPlaces(m, I), x) ELSE AtPlaces(m, I)
  BY <1>3, PlacesAppend
<1> QED
  BY <1>2, <1>3, <1>4 DEF p

LEMMA SelectType ==
  ASSUME NEW A, NEW m \in Seq(A), NEW S
  PROVE  Select(m, S) \in Seq(A \cap S)
<1> DEFINE T == {s \in Seq(A) : Select(s, S) \in Seq(A \cap S)}
<1>1. <<>> \in T
  BY EmptySeq, SelectEmpty
<1>2. ASSUME NEW s \in T, NEW x \in A
      PROVE  Append(s, x) \in T
  <2>0. s \in Seq(A) /\ Select(s, S) \in Seq(A \cap S)
    OBVIOUS
  <2> HIDE DEF T
  <2>1. Append(s, x) \in Seq(A)
    BY <2>0, AppendProperties
  <2>2. x \in S => Append(Select(s, S), x) \in Seq(A \cap S)
    BY <2>0, AppendProperties
  <2>9. Append(s, x) \in Seq(A) /\ Select(Append(s, x), S) \in Seq(A \cap S)
    BY <2>0, <2>1, <2>2, SelectAppend
  <2> QED
    BY <2>9 DEF T
<1>3. T = Seq(A)
  <2> HIDE DEF T
  <2>1. T \in SUBSET Seq(A)
    BY DEF T
  <2> QED
    BY <1>1, <1>2, <2>1, SeqInduct
<1> QED
  BY <1>3

LEMMA SelectIn ==
  ASSUME NEW A, NEW m \in Seq(A), NEW S
  PROVE  Select(m, S) \in Seq(A)
<1>1. Select(m, S) \in Seq(A \cap S) /\ A \cap S \subseteq A
  BY SelectType
<1> QED
  BY <1>1, SeqMonotonic

LEMMA ConcatAppend ==
  ASSUME NEW A, NEW m \in Seq(A), NEW t \in Seq(A), NEW x \in A
  PROVE  m \o Append(t, x) = Append(m \o t, x)
<1>1. <<x>> \in Seq(A) /\ m \o t \in Seq(A)
  BY ConcatProperties
<1> QED
  BY <1>1, AppendIsConcat, ConcatAssociative

LEMMA SelectConcat ==
  ASSUME NEW A, NEW m \in Seq(A), NEW t \in Seq(A), NEW S
  PROVE  Select(m \o t, S) = Select(m, S) \o Select(t, S)
<1> DEFINE T == {s \in Seq(A) : Select(m \o s, S) = Select(m, S) \o Select(s, S)}
<1>1. <<>> \in T
  BY EmptySeq, SelectEmpty, SelectIn, ConcatEmptySeq
<1>2. ASSUME NEW s \in T, NEW x \in A
      PROVE  Append(s, x) \in T
  <2>0. s \in Seq(A) /\ Select(m \o s, S) = Select(m, S) \o Select(s, S)
    OBVIOUS
  <2> HIDE DEF T
  <2> DEFINE ms == m \o s
             sm == Select(m, S)
             ss == Select(s, S)
  <2>1. ms \in Seq(A) /\ sm \in Seq(A) /\ ss \in Seq(A) /\ Select(ms, S) = sm \o ss
    BY <2>0, ConcatProperties, SelectIn
  <2>2. m \o Append(s, x) = Append(ms, x)
    BY <2>0, ConcatAppend
  <2>3. Select(Append(s, x), S) = IF x \in S THEN Append(ss, x) ELSE ss
    BY <2>0, SelectAppend
  <2>4. Append(s, x) \in Seq(A)
    BY <2>0, AppendProperties
  <2> HIDE DEF ms, sm, ss
  <2>5. Select(Append(ms, x), S) = IF x \in S THEN Append(sm \o ss, x) ELSE sm \o ss
    <3>1. ms \in Seq(A) /\ x \in A
      BY <2>1
    <3>2. Select(Append(ms, x), S) = IF x \in S THEN Append(Select(ms, S), x) ELSE Select(ms, S)
      BY ONLY <3>1, SelectAppend
    <3> QED
      BY <3>2, <2>1
  <2>6. Append(sm \o ss, x) = sm \o Append(ss, x)
    <3>1. sm \in Seq(A) /\ ss \in Seq(A) /\ x \in A
      BY <2>1
    <3>2. sm \o Append(ss, x) = Append(sm \o ss, x)
      BY ONLY <3>1, ConcatAppend
    <3> QED
      BY <3>2
  <2>7. Select(Append(ms, x), S) = sm \o Select(Append(s, x), S)
    BY <2>3, <2>5, <2>6
  <2> QED
    BY <2>2, <2>4, <2>7 DEF T, sm
<1>3. T = Seq(A)
  <2> HIDE DEF T
  <2>1. T \in SUBSET Seq(A)
    BY DEF T
  <2> QED
    BY <1>1, <1>2, <2>1, SeqInduct
<1> QED
  BY <1>3

LEMMA SelectAll ==
  ASSUME NEW A, NEW S, A \subseteq S, NEW m \in Seq(A)
  PROVE  Select(m, S) = m
<1> DEFINE T == {s \in Seq(A) : Select(s, S) = s}
<1>1. <<>> \in T
  BY EmptySeq, SelectEmpty
<1>2. ASSUME NEW s \in T, NEW x \in A
      PROVE  Append(s, x) \in T
  <2>0. s \in Seq(A) /\ Select(s, S) = s
    OBVIOUS
  <2> QED
    BY <2>0, SelectAppend, AppendProperties
<1>3. T = Seq(A)
  <2> HIDE DEF T
  <2>1. T \in SUBSET Seq(A)
    BY DEF T
  <2> QED
    BY <1>1, <1>2, <2>1, SeqInduct
<1> QED
  BY <1>3

LEMMA SelectNone ==
  ASSUME NEW A, NEW S, A \cap S = {}, NEW m \in Seq(A)
  PROVE  Select(m, S) = <<>>
<1>1. Select(m, S) \in Seq({})
  BY SelectType
<1>2. \A s \in Seq({}) : s = <<>>
  BY ElementOfSeq, EmptySeq
<1> QED
  BY <1>1, <1>2

\* The members of lists.
LEMMA Ranges ==
  ASSUME NEW A
  PROVE  /\ Range(<<>>) = {}
         /\ \A m \in Seq(A), x \in A : Range(Append(m, x)) = Range(m) \cup {x}
         /\ \A m, t \in Seq(A) : Range(m \o t) = Range(m) \cup Range(t)
         /\ \A m \in Seq(A) : Range(m) \subseteq A /\ (Range(m) = {} <=> m = <<>>)
<1>1. Range(<<>>) = {}
  BY DEF Range
<1>2. ASSUME NEW m \in Seq(A), NEW x \in A
      PROVE  Range(Append(m, x)) = Range(m) \cup {x}
  <2>1. /\ DOMAIN m = 1 .. Len(m) /\ DOMAIN Append(m, x) = 1 .. Len(m) + 1 /\ Len(m) \in Nat
        /\ \A i \in 1 .. Len(m) : Append(m, x)[i] = m[i]
        /\ Append(m, x)[Len(m) + 1] = x
    BY AppendProperties, LenProperties
  <2>2. 1 .. Len(m) + 1 = (1 .. Len(m)) \cup {Len(m) + 1}
    BY <2>1
  <2> QED
    BY <2>1, <2>2 DEF Range
<1>3. ASSUME NEW m \in Seq(A), NEW t \in Seq(A)
      PROVE  Range(m \o t) = Range(m) \cup Range(t)
  <2> DEFINE T == {s \in Seq(A) : Range(m \o s) = Range(m) \cup Range(s)}
  <2>1. <<>> \in T
    BY <1>1, EmptySeq, ConcatEmptySeq
  <2>2. ASSUME NEW s \in T, NEW x \in A
        PROVE  Append(s, x) \in T
    <3>1. s \in Seq(A) /\ Range(m \o s) = Range(m) \cup Range(s)
      OBVIOUS
    <3>2. m \o Append(s, x) = Append(m \o s, x) /\ m \o s \in Seq(A) /\ Append(s, x) \in Seq(A)
      BY <3>1, ConcatAppend, ConcatProperties, AppendProperties
    <3> HIDE DEF T
    <3>3. Range(Append(m \o s, x)) = Range(m \o s) \cup {x}
      BY <3>2, <1>2
    <3>4. Range(Append(s, x)) = Range(s) \cup {x}
      BY <3>1, <1>2
    <3>5. Range(m \o Append(s, x)) = Range(m) \cup Range(Append(s, x))
      BY <3>1, <3>2, <3>3, <3>4
    <3> QED
      BY <3>2, <3>5 DEF T
  <2>3. T = Seq(A)
    <3> HIDE DEF T
    <3>1. T \in SUBSET Seq(A)
      BY DEF T
    <3> QED
      BY <2>1, <2>2, <3>1, SeqInduct
  <2> QED
    BY <2>3
<1>4. ASSUME NEW m \in Seq(A)
      PROVE  Range(m) \subseteq A /\ (Range(m) = {} <=> m = <<>>)
  <2>1. /\ DOMAIN m = 1 .. Len(m) /\ Len(m) \in Nat /\ \A i \in 1 .. Len(m) : m[i] \in A
        /\ m = <<>> <=> Len(m) = 0
    BY LenProperties, ElementOfSeq, EmptySeq
  <2>2. Len(m) # 0 => m[1] \in Range(m)
    BY <2>1 DEF Range
  <2> QED
    BY <1>1, <2>1, <2>2 DEF Range
<1> QED
  BY <1>1, <1>2, <1>3, <1>4

LEMMA SelectRange ==
  ASSUME NEW A, NEW m \in Seq(A), NEW S
  PROVE  Range(Select(m, S)) = Range(m) \cap S
<1> DEFINE T == {s \in Seq(A) : Range(Select(s, S)) = Range(s) \cap S}
<1>1. <<>> \in T
  BY EmptySeq, SelectEmpty, Ranges
<1>2. ASSUME NEW s \in T, NEW x \in A
      PROVE  Append(s, x) \in T
  <2>0. s \in Seq(A) /\ Range(Select(s, S)) = Range(s) \cap S
    OBVIOUS
  <2> HIDE DEF T
  <2> DEFINE ss == Select(s, S)
  <2>1. Append(s, x) \in Seq(A) /\ ss \in Seq(A)
    BY <2>0, AppendProperties, SelectIn
  <2>2. Select(Append(s, x), S) = IF x \in S THEN Append(ss, x) ELSE ss
    BY <2>0, SelectAppend
  <2>3. Range(ss) = Range(s) \cap S
    BY <2>0
  <2> HIDE DEF ss
  <2>4. Range(Append(ss, x)) = Range(ss) \cup {x} /\ Range(Append(s, x)) = Range(s) \cup {x}
    BY <2>0, <2>1, Ranges
  <2>5. Range(Select(Append(s, x), S)) = Range(Append(s, x)) \cap S
    BY <2>2, <2>3, <2>4
  <2> QED
    BY <2>1, <2>5 DEF T
<1>3. T = Seq(A)
  <2> HIDE DEF T
  <2>1. T \in SUBSET Seq(A)
    BY DEF T
  <2> QED
    BY <1>1, <1>2, <2>1, SeqInduct
<1> QED
  BY <1>3

----------------------------------------------------------------------------
(* Distinct                                                                *)

LEMMA DistinctAppend ==
  ASSUME NEW A, NEW m \in Seq(A), NEW x \in A
  PROVE  Distinct(Append(m, x)) = IF x \in Range(m) THEN Distinct(m) ELSE Append(Distinct(m), x)
<1> DEFINE p == Append(m, x)
           I == {i \in 1 .. Len(m) : \A j \in 1 .. i - 1 : m[j] # m[i]}
           J == {i \in 1 .. Len(p) : \A j \in 1 .. i - 1 : p[j] # p[i]}
<1>1. /\ Len(m) \in Nat /\ Len(p) = Len(m) + 1 /\ p[Len(m) + 1] = x
      /\ \A n \in 1 .. Len(m) : p[n] = m[n]
      /\ DOMAIN m = 1 .. Len(m)
  BY AppendProperties, LenProperties
<1>2. Distinct(m) = AtPlaces(m, I) /\ Distinct(p) = AtPlaces(p, J)
  BY DEF Distinct
<1> HIDE DEF p
<1>3. \A n \in 1 .. Len(m) : n \in I <=> n \in J
  <2> TAKE n \in 1 .. Len(m)
  <2>1. /\ n \in 1 .. Len(p) /\ p[n] = m[n]
        /\ \A j \in 1 .. n - 1 : p[j] = m[j]
    BY <1>1
  <2> QED
    BY <2>1
<1>4. Len(m) + 1 \in J <=> x \notin Range(m)
  <2>1. Len(m) + 1 \in 1 .. Len(p) /\ (Len(m) + 1) - 1 = Len(m)
    BY <1>1
  <2>2. Len(m) + 1 \in J <=> \A j \in 1 .. Len(m) : p[j] # x
    BY <1>1, <2>1
  <2> QED
    BY <1>1, <2>2 DEF Range
<1> HIDE DEF I, J
<1>5. AtPlaces(Append(m, x), J) =
        IF Len(m) + 1 \in J THEN Append(AtPlaces(m, I), x) ELSE AtPlaces(m, I)
  BY <1>3, PlacesAppend
<1> QED
  BY <1>2, <1>4, <1>5 DEF p

\* Nothing is lost but repetitions, and the first member stays the first.
LEMMA DistinctFacts ==
  ASSUME NEW A, NEW m \in Seq(A)
  PROVE  /\ Distinct(m) \in Seq(A) /\ Range(Distinct(m)) = Range(m)
         /\ m # <<>> => Distinct(m) # <<>> /\ Head(Distinct(m)) = Head(m)
<1> DEFINE Fine(s) == /\ Distinct(s) \in Seq(A) /\ Range(Distinct(s)) = Range(s)
                      /\ s # <<>> => Distinct(s) # <<>> /\ Head(Distinct(s)) = Head(s)
           T == {s \in Seq(A) : Fine(s)}
<1>1. <<>> \in T
  BY EmptySeq, PlacesEmpty DEF Distinct
<1>2. ASSUME NEW s \in T, NEW x \in A
      PROVE  Append(s, x) \in T
  <2> DEFINE d == Distinct(s)
  <2>1. s \in Seq(A) /\ d \in Seq(A) /\ Range(d) = Range(s)
        /\ (s # <<>> => d # <<>> /\ Head(d) = Head(s))
    OBVIOUS
  <2>2. Distinct(Append(s, x)) = IF x \in Range(s) THEN d ELSE Append(d, x)
    BY <2>1, DistinctAppend
  <2> HIDE DEF T, d
  <2>3. \A t \in Seq(A) : /\ Append(t, x) \in Seq(A) /\ Append(t, x) # <<>>
                          /\ Range(Append(t, x)) = Range(t) \cup {x}
                          /\ Head(Append(t, x)) = IF t = <<>> THEN x ELSE Head(t)
    <3> TAKE t \in Seq(A)
    <3>1. /\ Append(t, x) \in Seq(A) /\ Append(t, x) # <<>> /\ Len(t) \in Nat
          /\ \A i \in 1 .. Len(t) : Append(t, x)[i] = t[i] /\ Append(t, x)[Len(t) + 1] = x
      BY AppendProperties, LenProperties
    <3>2. Append(t, x)[1] = IF t = <<>> THEN x ELSE t[1]
      <4>1. CASE t = <<>>
        <5>1. Len(t) + 1 = 1
          BY <4>1
        <5> QED
          BY <4>1, <5>1, AppendProperties
      <4>2. CASE t # <<>>
        <5>1. 1 \in 1 .. Len(t)
          BY <3>1, <4>2, EmptySeq
        <5> QED
          BY <3>1, <4>2, <5>1
      <4> QED
        BY <4>1, <4>2
    <3>3. Head(Append(t, x)) = Append(t, x)[1] /\ (t # <<>> => Head(t) = t[1])
      BY <3>1
    <3>4. Range(Append(t, x)) = Range(t) \cup {x}
      BY Ranges
    <3> QED
      BY <3>1, <3>2, <3>3, <3>4
  <2>4. CASE x \in Range(s)
    <3>1. s # <<>> /\ Distinct(Append(s, x)) = d
      BY <2>1, <2>2, <2>4, Ranges
    <3>2. Range(Append(s, x)) = Range(s)
      <4>1. Range(Append(s, x)) = Range(s) \cup {x}
        BY <2>1, Ranges
      <4> QED
        BY <2>4, <4>1
    <3>3. Fine(Append(s, x))
      BY <2>1, <2>3, <3>1, <3>2
    <3> QED
      BY <2>1, <2>3, <3>3 DEF T
  <2>5. CASE x \notin Range(s)
    <3>1. Distinct(Append(s, x)) = Append(d, x)
      BY <2>2, <2>5
    <3>2. s = <<>> <=> d = <<>>
      BY <2>1, Ranges
    <3>3. Fine(Append(s, x))
      BY <2>1, <2>3, <3>1, <3>2
    <3> QED
      BY <2>1, <2>3, <3>3 DEF T
  <2> QED
    BY <2>4, <2>5
<1>3. T = Seq(A)
  <2> HIDE DEF T
  <2>1. T \in SUBSET Seq(A)
    BY DEF T
  <2> QED
    BY <1>1, <1>2, <2>1, SeqInduct
<1> QED
  BY <1>3
=============================================================================
