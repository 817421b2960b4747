---------------------------- MODULE SelectionProofs ----------------------------
(***************************************************************************)
(* Induction over data without an operator for a parameter, and what it    *)
(* says of the operators of Selections.                                    *)
(***************************************************************************)
EXTENDS Selections, Integers, TLAPS, WellFoundedInduction

-----------------------------------------------------------------------------
(* Sequences, index by index *)

\* A sequence with one more element at its end.
LEMMA AppendedAt ==
  ASSUME NEW S, NEW s \in Seq(S), NEW x \in S
  PROVE  /\ Append(s, x) \in Seq(S) /\ Len(s) \in Nat
         /\ DOMAIN Append(s, x) = 1 .. Len(s) + 1 /\ DOMAIN s = 1 .. Len(s)
         /\ \A i \in DOMAIN s : Append(s, x)[i] = s[i]
         /\ Append(s, x)[Len(s) + 1] = x
  OBVIOUS

\* A sequence without its first element.
LEMMA TailAt ==
  ASSUME NEW S, NEW s \in Seq(S), s # <<>>
  PROVE  /\ Tail(s) \in Seq(S) /\ Head(s) \in S /\ Head(s) = s[1] /\ 1 \in DOMAIN s
         /\ Len(s) \in Nat \ {0} /\ DOMAIN Tail(s) = 1 .. Len(s) - 1 /\ DOMAIN s = 1 .. Len(s)
         /\ \A i \in DOMAIN Tail(s) : i + 1 \in DOMAIN s /\ Tail(s)[i] = s[i + 1]
         /\ \A i \in DOMAIN s : i # 1 => i - 1 \in DOMAIN Tail(s) /\ Tail(s)[i - 1] = s[i]
  OBVIOUS

\* Two sequences, one after the other.
LEMMA JoinedAt ==
  ASSUME NEW S, NEW s \in Seq(S), NEW t \in Seq(S)
  PROVE  /\ s \o t \in Seq(S) /\ Len(s) \in Nat /\ Len(t) \in Nat
         /\ DOMAIN (s \o t) = 1 .. Len(s) + Len(t) /\ DOMAIN s = 1 .. Len(s) /\ DOMAIN t = 1 .. Len(t)
         /\ \A i \in DOMAIN s : (s \o t)[i] = s[i]
         /\ \A i \in DOMAIN t : (s \o t)[Len(s) + i] = t[i]
  OBVIOUS

\* A set of naturals that is not empty has a least element.
LEMMA LeastNatural ==
  ASSUME NEW T \in SUBSET Nat, T # {}
  PROVE  \E x \in T : \A y \in T : x <= y
<1> DEFINE R == OpToRel(<, Nat)
<1>0. \A x, y \in Nat : y < x => <<y, x>> \in R
  BY DEF OpToRel
<1>1. IsWellFoundedOn(R, Nat)
  BY NatLessThanWellFounded, Zenon
<1> HIDE DEF R
<1>2. PICK x \in T : \A y \in T : ~(<<y, x>> \in R)
  BY <1>1, WFMin, Zenon
<1>3. ASSUME NEW y \in T
      PROVE  x <= y
  <2>1. x \in Nat /\ y \in Nat
    OBVIOUS
  <2>2. ~(y < x)
    BY <1>0, <1>2, <2>1, Zenon
  <2> QED
    BY <2>1, <2>2
<1> QED
  BY <1>3

\* Induction over the naturals, for a set instead of a predicate.
LEMMA SetInduction ==
  ASSUME NEW T, 0 \in T, \A n \in Nat : n \in T => n + 1 \in T
  PROVE  Nat \subseteq T
<1>1. SUFFICES ASSUME Nat \ T # {} PROVE FALSE
  OBVIOUS
<1>2. PICK x \in Nat \ T : \A y \in Nat \ T : x <= y
  BY <1>1, LeastNatural
<1>3. x # 0 /\ x - 1 \in Nat /\ x - 1 \notin Nat \ T
  BY <1>2
<1> QED
  BY <1>2, <1>3

\* f is defined by recursion over 0 .. n; there is one, whatever the recursion's step.
Recursion(S, f, first, step, n) ==
  /\ f \in [0 .. n -> S]
  /\ \A k \in 0 .. n : f[k] = IF k = 0 THEN first ELSE step[k][f[k - 1]]

\* A function defined by recursion over the naturals exists, up to any number.
LEMMA RecursionExists ==
  ASSUME NEW S, NEW first \in S, NEW step \in [Nat -> [S -> S]], NEW n \in Nat
  PROVE  \E f : Recursion(S, f, first, step, n)
<1> DEFINE T == {m \in Nat : \E f : Recursion(S, f, first, step, m)}
<1>1. 0 \in T
  <2>1. Recursion(S, [k \in 0 .. 0 |-> first], first, step, 0)
    BY DEF Recursion
  <2> QED
    BY <2>1, Zenon
<1>2. ASSUME NEW m \in Nat, m \in T
      PROVE  m + 1 \in T
  <2>1. PICK f : Recursion(S, f, first, step, m)
    BY <1>2
  <2> DEFINE g == [k \in 0 .. m + 1 |-> IF k = m + 1 THEN step[m + 1][f[m]] ELSE f[k]]
  <2>2. step[m + 1] \in [S -> S] /\ f[m] \in S /\ f \in [0 .. m -> S]
    BY <2>1 DEF Recursion
  <2>3. g \in [0 .. m + 1 -> S]
    <3>1. step[m + 1][f[m]] \in S
      BY <2>2
    <3>2. \A k \in 0 .. m + 1 : k # m + 1 => k \in 0 .. m
      OBVIOUS
    <3> QED
      BY <2>2, <3>1, <3>2
  <2>4. ASSUME NEW k \in 0 .. m + 1
        PROVE  g[k] = IF k = 0 THEN first ELSE step[k][g[k - 1]]
    <3>1. CASE k = m + 1
      <4>1. k # 0 /\ k - 1 = m /\ m \in 0 .. m + 1 /\ m # m + 1
        BY <3>1
      <4>2. g[k] = step[m + 1][f[m]] /\ g[m] = f[m]
        BY <3>1, <4>1
      <4> QED
        BY <3>1, <4>1, <4>2
    <3>2. CASE k # m + 1
      <4>1. k \in 0 .. m /\ g[k] = f[k]
        BY <3>2
      <4>2. k # 0 => k - 1 \in 0 .. m + 1 /\ k - 1 # m + 1 /\ g[k - 1] = f[k - 1]
        BY <4>1
      <4> QED
        BY <2>1, <4>1, <4>2 DEF Recursion
    <3> QED
      BY <3>1, <3>2
  <2> HIDE DEF g
  <2>5. Recursion(S, g, first, step, m + 1)
    BY <2>3, <2>4 DEF Recursion
  <2> QED
    BY <2>5
<1>3. n \in T
  <2> HIDE DEF T
  <2> QED
    BY <1>1, <1>2, SetInduction
<1> QED
  BY <1>3

-----------------------------------------------------------------------------
(* Filters *)

\* FilteredTo is what its recursion says.
LEMMA FilterUnfolds ==
  ASSUME NEW S, NEW seq \in Seq(S), NEW places
  PROVE  /\ \A k \in 0 .. Len(seq) : FilteredTo(seq, places)[k] \in Seq(S)
         /\ FilteredTo(seq, places)[0] = <<>>
         /\ \A k \in 1 .. Len(seq) :
              FilteredTo(seq, places)[k] =
                IF k \in places THEN Append(FilteredTo(seq, places)[k - 1], seq[k])
                ELSE FilteredTo(seq, places)[k - 1]
<1> DEFINE N == Len(seq)
           Rec(f) == [n \in 0 .. N |-> IF n = 0 THEN <<>>
                                       ELSE IF n \in places THEN Append(f[n - 1], seq[n]) ELSE f[n - 1]]
           kept == CHOOSE f : f = Rec(f)
           step == [k \in Nat |-> [s \in Seq(S) |->
                      IF k \in 1 .. N /\ k \in places THEN Append(s, seq[k]) ELSE s]]
<1>0. N \in Nat /\ \A k \in 1 .. N : seq[k] \in S
  OBVIOUS
<1>1. FilteredTo(seq, places) = kept
  BY Zenon DEF FilteredTo
<1>2. step \in [Nat -> [Seq(S) -> Seq(S)]]
  <2>1. ASSUME NEW k \in Nat, NEW s \in Seq(S), k \in 1 .. N
        PROVE  Append(s, seq[k]) \in Seq(S)
    BY <1>0, <2>1
  <2> QED
    BY <2>1
<1>3. PICK f : Recursion(Seq(S), f, <<>>, step, N)
  <2>1. <<>> \in Seq(S)
    OBVIOUS
  <2> HIDE DEF step, N
  <2> QED
    BY <1>0, <1>2, <2>1, RecursionExists
<1>4. f = Rec(f)
  <2>1. ASSUME NEW k \in 0 .. N
        PROVE  f[k] = Rec(f)[k]
    <3>1. CASE k = 0
      BY <1>3, <3>1 DEF Recursion
    <3>2. CASE k # 0
      <4>0. f \in [0 .. N -> Seq(S)]
        BY <1>3 DEF Recursion
      <4> HIDE DEF N
      <4>1. k \in Nat /\ k \in 1 .. N /\ k - 1 \in 0 .. N
        BY <1>0, <3>2
      <4>2. f[k - 1] \in Seq(S)
        BY <4>0, <4>1
      <4>3. step[k][f[k - 1]] = IF k \in places THEN Append(f[k - 1], seq[k]) ELSE f[k - 1]
        BY <4>1, <4>2
      <4>4. f[k] = step[k][f[k - 1]]
        BY <1>3, <3>2 DEF Recursion
      <4> HIDE DEF step
      <4> QED
        BY <3>2, <4>1, <4>2, <4>3, <4>4
    <3> QED
      BY <3>1, <3>2
  <2>2. f \in [0 .. N -> Seq(S)]
    BY <1>3 DEF Recursion
  <2> QED
    BY <2>1, <2>2
<1>5. kept = Rec(kept)
  <2> HIDE DEF Rec
  <2> QED
    BY <1>4, Zenon
<1> DEFINE T == {n \in Nat : n \in 0 .. N => kept[n] \in Seq(S)}
<1> HIDE DEF kept, step
<1>6. \A n \in 0 .. N : kept[n] = IF n = 0 THEN <<>>
                                  ELSE IF n \in places THEN Append(kept[n - 1], seq[n]) ELSE kept[n - 1]
  BY <1>5
<1>7. 0 \in T
  <2>1. 0 \in 0 .. N /\ <<>> \in Seq(S)
    BY <1>0
  <2>2. kept[0] = <<>>
    BY <1>6, <2>1, Zenon
  <2> QED
    BY <2>1, <2>2
<1>8. ASSUME NEW n \in Nat, n \in T
      PROVE  n + 1 \in T
  <2> SUFFICES ASSUME n + 1 \in 0 .. N PROVE kept[n + 1] \in Seq(S)
    OBVIOUS
  <2>1. n \in 0 .. N /\ kept[n] \in Seq(S) /\ n + 1 # 0 /\ (n + 1) - 1 = n /\ seq[n + 1] \in S
    BY <1>0, <1>8
  <2>2. kept[n + 1] = IF n + 1 \in places THEN Append(kept[n], seq[n + 1]) ELSE kept[n]
    BY <1>6, <2>1
  <2> QED
    BY <2>1, <2>2
<1> HIDE DEF T
<1>9. Nat \subseteq T
  BY <1>7, <1>8, SetInduction
<1>10. \A n \in 0 .. N : kept[n] \in Seq(S)
  BY <1>0, <1>9 DEF T
<1>12. kept[0] = <<>>
  <2>1. 0 \in 0 .. N
    BY <1>0
  <2> QED
    BY <1>6, <2>1, Zenon
<1>13. ASSUME NEW k \in 1 .. N
       PROVE  kept[k] = IF k \in places THEN Append(kept[k - 1], seq[k]) ELSE kept[k - 1]
  <2>1. k \in 0 .. N /\ k # 0
    BY <1>0
  <2> QED
    BY <1>6, <2>1, Zenon
<1> QED
  BY <1>1, <1>10, <1>12, <1>13

\* More of the sequence means no less kept, and what was kept at the same place.
LEMMA FilterGrows ==
  ASSUME NEW S, NEW seq \in Seq(S), NEW places, NEW n \in 0 .. Len(seq), NEW m \in 0 .. n
  PROVE  /\ Len(FilteredTo(seq, places)[m]) <= Len(FilteredTo(seq, places)[n])
         /\ \A i \in DOMAIN FilteredTo(seq, places)[m] :
              i \in DOMAIN FilteredTo(seq, places)[n] /\ FilteredTo(seq, places)[n][i] = FilteredTo(seq, places)[m][i]
<1> DEFINE kept == FilteredTo(seq, places)
           Begins(k) == /\ Len(kept[m]) <= Len(kept[k])
                        /\ \A i \in DOMAIN kept[m] : i \in DOMAIN kept[k] /\ kept[k][i] = kept[m][i]
           T == {k \in Nat : m + k \in m .. n => Begins(m + k)}
<1>0. /\ m \in Nat /\ n \in Nat /\ m <= n /\ n <= Len(seq) /\ Len(seq) \in Nat
      /\ \A k \in 1 .. Len(seq) : seq[k] \in S
  OBVIOUS
<1>1. /\ \A k \in 0 .. Len(seq) : kept[k] \in Seq(S)
      /\ kept[0] = <<>>
      /\ \A k \in 1 .. Len(seq) :
           kept[k] = IF k \in places THEN Append(kept[k - 1], seq[k]) ELSE kept[k - 1]
  <2>1. \A k \in 0 .. Len(seq) : kept[k] \in Seq(S)
    BY FilterUnfolds
  <2>2. kept[0] = <<>>
    BY FilterUnfolds
  <2>3. \A k \in 1 .. Len(seq) :
          kept[k] = IF k \in places THEN Append(kept[k - 1], seq[k]) ELSE kept[k - 1]
    BY FilterUnfolds
  <2> QED
    BY <2>1, <2>2, <2>3
<1> HIDE DEF kept
<1>2. 0 \in T
  BY <1>0, <1>1
<1>3. ASSUME NEW k \in Nat, k \in T
      PROVE  k + 1 \in T
  <2> SUFFICES ASSUME m + (k + 1) \in m .. n PROVE Begins(m + (k + 1))
    OBVIOUS
  <2>1. /\ m + k \in 0 .. Len(seq) /\ m + (k + 1) \in 1 .. Len(seq) /\ (m + (k + 1)) - 1 = m + k
        /\ m + k \in m .. n /\ seq[m + (k + 1)] \in S
    BY <1>0
  <2>2. Begins(m + k) /\ kept[m + k] \in Seq(S) /\ kept[m] \in Seq(S)
    BY <1>0, <1>1, <1>3, <2>1
  <2>3. kept[m + (k + 1)] = IF m + (k + 1) \in places THEN Append(kept[m + k], seq[m + (k + 1)]) ELSE kept[m + k]
    BY <1>1, <2>1
  <2>4. CASE m + (k + 1) \in places
    <3>1. /\ Len(Append(kept[m + k], seq[m + (k + 1)])) = Len(kept[m + k]) + 1
          /\ \A i \in DOMAIN kept[m + k] :
               /\ i \in DOMAIN Append(kept[m + k], seq[m + (k + 1)])
               /\ Append(kept[m + k], seq[m + (k + 1)])[i] = kept[m + k][i]
      BY <2>1, <2>2, AppendedAt
    <3> QED
      BY SMTT(30), <2>2, <2>3, <2>4, <3>1
  <2>5. CASE m + (k + 1) \notin places
    BY <2>2, <2>3, <2>5
  <2> QED
    BY <2>4, <2>5
<1> HIDE DEF T
<1>4. n - m \in T
  BY <1>0, <1>2, <1>3, SetInduction
<1>5. Begins(n)
  BY <1>0, <1>4 DEF T
<1> QED
  BY <1>5 DEF kept

\* No more is kept than there is; all of it only if every place stays.
LEMMA FilterCounts ==
  ASSUME NEW S, NEW seq \in Seq(S), NEW places, NEW n \in 0 .. Len(seq)
  PROVE  /\ Len(FilteredTo(seq, places)[n]) <= n
         /\ Len(FilteredTo(seq, places)[n]) = n <=> \A k \in 1 .. n : k \in places
<1> DEFINE kept == FilteredTo(seq, places)
           Right(k) == /\ Len(kept[k]) <= k
                       /\ Len(kept[k]) = k <=> \A h \in 1 .. k : h \in places
           T == {k \in Nat : k \in 0 .. Len(seq) => Right(k)}
<1>0. Len(seq) \in Nat /\ \A k \in 1 .. Len(seq) : seq[k] \in S
  OBVIOUS
<1>1. /\ \A k \in 0 .. Len(seq) : kept[k] \in Seq(S)
      /\ kept[0] = <<>>
      /\ \A k \in 1 .. Len(seq) :
           kept[k] = IF k \in places THEN Append(kept[k - 1], seq[k]) ELSE kept[k - 1]
  <2>1. \A k \in 0 .. Len(seq) : kept[k] \in Seq(S)
    BY FilterUnfolds
  <2>2. kept[0] = <<>>
    BY FilterUnfolds
  <2>3. \A k \in 1 .. Len(seq) :
          kept[k] = IF k \in places THEN Append(kept[k - 1], seq[k]) ELSE kept[k - 1]
    BY FilterUnfolds
  <2> QED
    BY <2>1, <2>2, <2>3
<1> HIDE DEF kept
<1>2. 0 \in T
  BY <1>1
<1>3. ASSUME NEW k \in Nat, k \in T
      PROVE  k + 1 \in T
  <2> SUFFICES ASSUME k + 1 \in 0 .. Len(seq) PROVE Right(k + 1)
    OBVIOUS
  <2>1. k \in 0 .. Len(seq) /\ k + 1 \in 1 .. Len(seq) /\ (k + 1) - 1 = k /\ seq[k + 1] \in S
    BY <1>0
  <2>2. Right(k) /\ kept[k] \in Seq(S) /\ Len(kept[k]) \in Nat
    BY <1>1, <1>3, <2>1
  <2>3. kept[k + 1] = IF k + 1 \in places THEN Append(kept[k], seq[k + 1]) ELSE kept[k]
    BY <1>1, <2>1
  <2>4. (\A h \in 1 .. k + 1 : h \in places) <=> k + 1 \in places /\ \A h \in 1 .. k : h \in places
    OBVIOUS
  <2>5. CASE k + 1 \in places
    <3>1. Len(kept[k + 1]) = Len(kept[k]) + 1
      BY <2>1, <2>2, <2>3, <2>5
    <3> QED
      BY <2>2, <2>4, <2>5, <3>1
  <2>6. CASE k + 1 \notin places
    <3>1. Len(kept[k + 1]) = Len(kept[k])
      BY <2>3, <2>6
    <3> QED
      BY <2>2, <2>4, <2>6, <3>1
  <2> QED
    BY <2>5, <2>6
<1> HIDE DEF T
<1>4. n \in T
  BY <1>2, <1>3, SetInduction
<1>5. Right(n)
  BY <1>4 DEF T
<1> QED
  BY <1>5 DEF kept

\* A filter keeps what is at the places that stay, all of it and in order: e tells where
\* in the sequence each element was.
Picks(s, e, seq, places, n) ==
  /\ e \in [1 .. Len(s) -> 1 .. n]
  /\ \A i \in 1 .. Len(s) : e[i] \in places /\ s[i] = seq[e[i]]
  /\ \A i, j \in 1 .. Len(s) : i < j => e[i] < e[j]
  /\ \A k \in 1 .. n : k \in places => \E i \in 1 .. Len(s) : e[i] = k

LEMMA FilterToPicks ==
  ASSUME NEW S, NEW seq \in Seq(S), NEW places, NEW n \in 0 .. Len(seq)
  PROVE  \E e : Picks(FilteredTo(seq, places)[n], e, seq, places, n)
<1> DEFINE kept == FilteredTo(seq, places)
           Right(k) == \E e : Picks(kept[k], e, seq, places, k)
           T == {k \in Nat : k \in 0 .. Len(seq) => Right(k)}
<1>0. Len(seq) \in Nat /\ \A k \in 1 .. Len(seq) : seq[k] \in S
  OBVIOUS
<1>1. /\ \A k \in 0 .. Len(seq) : kept[k] \in Seq(S)
      /\ kept[0] = <<>>
      /\ \A k \in 1 .. Len(seq) :
           kept[k] = IF k \in places THEN Append(kept[k - 1], seq[k]) ELSE kept[k - 1]
  <2>1. \A k \in 0 .. Len(seq) : kept[k] \in Seq(S)
    BY FilterUnfolds
  <2>2. kept[0] = <<>>
    BY FilterUnfolds
  <2>3. \A k \in 1 .. Len(seq) :
          kept[k] = IF k \in places THEN Append(kept[k - 1], seq[k]) ELSE kept[k - 1]
    BY FilterUnfolds
  <2> QED
    BY <2>1, <2>2, <2>3
<1> HIDE DEF kept
<1>2. 0 \in T
  <2>1. Picks(<<>>, [i \in 1 .. 0 |-> i], seq, places, 0)
    BY DEF Picks
  <2>2. Right(0)
    BY <1>1, <2>1
  <2> HIDE DEF Right
  <2> QED
    BY <2>2
<1>3. ASSUME NEW k \in Nat, k \in T
      PROVE  k + 1 \in T
  <2> SUFFICES ASSUME k + 1 \in 0 .. Len(seq) PROVE Right(k + 1)
    OBVIOUS
  <2>1. k \in 0 .. Len(seq) /\ k + 1 \in 1 .. Len(seq) /\ (k + 1) - 1 = k /\ seq[k + 1] \in S
    BY <1>0
  <2>2. kept[k] \in Seq(S) /\ Len(kept[k]) \in Nat
    BY <1>1, <2>1
  <2>3. kept[k + 1] = IF k + 1 \in places THEN Append(kept[k], seq[k + 1]) ELSE kept[k]
    BY <1>1, <2>1
  <2>4. PICK e : Picks(kept[k], e, seq, places, k)
    BY <1>3, <2>1
  <2>5. CASE k + 1 \in places
    <3> DEFINE n1 == Len(kept[k]) + 1
               d == [i \in 1 .. n1 |-> IF i = n1 THEN k + 1 ELSE e[i]]
    <3>1. /\ kept[k + 1] = Append(kept[k], seq[k + 1]) /\ Len(kept[k + 1]) = n1
          /\ \A i \in 1 .. Len(kept[k]) : kept[k + 1][i] = kept[k][i]
          /\ kept[k + 1][n1] = seq[k + 1]
      BY <2>1, <2>2, <2>3, <2>5, AppendedAt
    <3>2. \A i \in 1 .. n1 : i # n1 => i \in 1 .. Len(kept[k]) /\ d[i] = e[i]
      BY <2>2
    <3>3. d[n1] = k + 1 /\ n1 \in 1 .. n1 /\ \A i \in 1 .. Len(kept[k]) : i \in 1 .. n1 /\ i # n1
      BY <2>2
    <3>4. \A i \in 1 .. Len(kept[k]) : e[i] \in 1 .. k
      BY <2>4 DEF Picks
    <3>5. d \in [1 .. n1 -> 1 .. k + 1]
      <4>1. \A i \in 1 .. Len(kept[k]) : e[i] \in 1 .. k + 1
        BY <3>4
      <4> HIDE DEF n1
      <4>2. k + 1 \in 1 .. k + 1
        OBVIOUS
      <4> QED
        BY <3>2, <4>1, <4>2
    <3> HIDE DEF d
    <3>6. \A i \in 1 .. n1 : d[i] \in places /\ kept[k + 1][i] = seq[d[i]]
      BY <2>4, <2>5, <3>1, <3>2, <3>3 DEF Picks
    <3>7. \A i, j \in 1 .. n1 : i < j => d[i] < d[j]
      <4> SUFFICES ASSUME NEW i \in 1 .. n1, NEW j \in 1 .. n1, i < j
                   PROVE  d[i] < d[j]
        OBVIOUS
      <4>1. i # n1
        BY <2>2
      <4>2. CASE j = n1
        BY <3>2, <3>3, <3>4, <4>1, <4>2
      <4>3. CASE j # n1
        BY <2>4, <3>2, <4>1, <4>3 DEF Picks
      <4> QED
        BY <4>2, <4>3
    <3>8. ASSUME NEW h \in 1 .. k + 1, h \in places
          PROVE  \E i \in 1 .. n1 : d[i] = h
      <4>1. CASE h = k + 1
        BY <3>3, <4>1
      <4>2. CASE h # k + 1
        <5>1. PICK i \in 1 .. Len(kept[k]) : e[i] = h
          BY <2>4, <3>8, <4>2 DEF Picks
        <5> QED
          BY <3>2, <3>3, <5>1
      <4> QED
        BY <4>1, <4>2
    <3>9. Picks(kept[k + 1], d, seq, places, k + 1)
      BY <3>1, <3>5, <3>6, <3>7, <3>8 DEF Picks
    <3> QED
      BY <3>9
  <2>6. CASE k + 1 \notin places
    <3>1. Picks(kept[k], e, seq, places, k + 1)
      <4>1. e \in [1 .. Len(kept[k]) -> 1 .. k + 1]
        BY <2>4 DEF Picks
      <4>2. \A h \in 1 .. k + 1 : h \in places => h \in 1 .. k
        BY <2>6
      <4> QED
        BY <2>4, <4>1, <4>2 DEF Picks
    <3> QED
      BY <2>3, <2>6, <3>1
  <2> QED
    BY <2>5, <2>6
<1> HIDE DEF T
<1>4. n \in T
  BY <1>2, <1>3, SetInduction
<1>5. Right(n)
  BY <1>4 DEF T
<1> QED
  BY <1>5 DEF kept

LEMMA FilterPicks ==
  ASSUME NEW S, NEW seq \in Seq(S), NEW places
  PROVE  /\ Filtered(seq, places) \in Seq(S)
         /\ \E e : Picks(Filtered(seq, places), e, seq, places, Len(seq))
<1>1. Len(seq) \in 0 .. Len(seq)
  OBVIOUS
<1>2. FilteredTo(seq, places)[Len(seq)] \in Seq(S)
  BY <1>1, FilterUnfolds
<1>3. \E e : Picks(FilteredTo(seq, places)[Len(seq)], e, seq, places, Len(seq))
  BY <1>1, FilterToPicks
<1> QED
  BY <1>2, <1>3 DEF Filtered

\* Of the numbers up to N, a filter keeps those it is to keep, in order.
LEMMA FilteredNumbers ==
  ASSUME NEW N \in Nat, NEW places \in SUBSET (1 .. N), NEW s, s = Filtered([i \in 1 .. N |-> i], places)
  PROVE  /\ s \in Seq(1 .. N)
         /\ \A i \in 1 .. Len(s) : s[i] \in places
         /\ \A i, j \in 1 .. Len(s) : i < j => s[i] < s[j]
         /\ \A k \in places : \E i \in 1 .. Len(s) : s[i] = k
<1> DEFINE ids == [i \in 1 .. N |-> i]
<1>1. ids \in Seq(1 .. N) /\ Len(ids) = N /\ \A i \in 1 .. N : ids[i] = i
  OBVIOUS
<1> HIDE DEF ids
<1>2. s \in Seq(1 .. N) /\ \E e : Picks(s, e, ids, places, N)
  BY <1>1, FilterPicks DEF ids
<1>3. PICK e : Picks(s, e, ids, places, N)
  BY <1>2
<1>4. \A i \in 1 .. Len(s) : e[i] \in 1 .. N /\ s[i] = e[i]
  BY <1>1, <1>3 DEF Picks
<1>5. \A i \in 1 .. Len(s) : s[i] \in places
  BY <1>3, <1>4 DEF Picks
<1>6. \A i, j \in 1 .. Len(s) : i < j => s[i] < s[j]
  BY <1>3, <1>4 DEF Picks
<1>7. ASSUME NEW k \in places
      PROVE  \E i \in 1 .. Len(s) : s[i] = k
  BY <1>3, <1>4 DEF Picks
<1> QED
  BY <1>2, <1>5, <1>6, <1>7

\* What has been kept of the numbers up to k, and what the next one adds to it.
NextNumber(kept, all, N, places, k) ==
  /\ Len(kept[k]) \in Nat /\ Len(kept[k]) <= k /\ Len(kept[k]) <= Len(all)
  /\ k = 0 => Len(kept[k]) = 0
  /\ k = N => Len(kept[k]) = Len(all)
  /\ Len(kept[k]) = k <=> \A i \in 1 .. k : i \in places
  /\ k < N /\ k + 1 \notin places => Len(kept[k + 1]) = Len(kept[k])
  /\ k < N /\ k + 1 \in places =>
       /\ Len(kept[k + 1]) = Len(kept[k]) + 1 /\ Len(kept[k + 1]) <= Len(all)
       /\ all[Len(kept[k]) + 1] = k + 1

LEMMA NumbersOneByOne ==
  ASSUME NEW N \in Nat, NEW places \in SUBSET (1 .. N), NEW k \in 0 .. N
  PROVE  NextNumber(FilteredTo([i \in 1 .. N |-> i], places), Filtered([i \in 1 .. N |-> i], places), N, places, k)
<1> DEFINE ids == [i \in 1 .. N |-> i]
           kept == FilteredTo(ids, places)
<1>1. ids \in Seq(1 .. N) /\ Len(ids) = N /\ \A b \in 1 .. N : ids[b] = b
  OBVIOUS
<1>5. Filtered(ids, places) = kept[N]
  BY <1>1 DEF Filtered
<1> HIDE DEF ids
<1>2. \A n \in 0 .. N : kept[n] \in Seq(1 .. N)
  BY <1>1, FilterUnfolds
<1>3. kept[0] = <<>>
  BY <1>1, FilterUnfolds
<1>4. ASSUME NEW n \in 1 .. N
      PROVE  kept[n] = IF n \in places THEN Append(kept[n - 1], n) ELSE kept[n - 1]
  <2>1. \A m \in 1 .. Len(ids) :
          FilteredTo(ids, places)[m] = IF m \in places THEN Append(FilteredTo(ids, places)[m - 1], ids[m])
                                       ELSE FilteredTo(ids, places)[m - 1]
    BY <1>1, FilterUnfolds
  <2> QED
    BY <1>1, <2>1
<1>6. ASSUME NEW n \in 0 .. N
      PROVE  /\ Len(kept[n]) <= Len(kept[N])
             /\ \A i \in DOMAIN kept[n] : i \in DOMAIN kept[N] /\ kept[N][i] = kept[n][i]
  <2>1. N \in 0 .. Len(ids) /\ n \in 0 .. N
    BY <1>1
  <2>2. Len(kept[n]) <= Len(kept[N])
    BY <1>1, <2>1, FilterGrows
  <2>3. \A i \in DOMAIN kept[n] : i \in DOMAIN kept[N] /\ kept[N][i] = kept[n][i]
    BY <1>1, <2>1, FilterGrows
  <2> QED
    BY <2>2, <2>3
<1>10. /\ Len(kept[k]) <= k
       /\ Len(kept[k]) = k <=> \A i \in 1 .. k : i \in places
  <2>1. k \in 0 .. Len(ids)
    BY <1>1
  <2> QED
    BY <1>1, <2>1, FilterCounts
<1> HIDE DEF kept
<1>7. Len(kept[k]) \in Nat /\ Len(kept[k]) <= Len(kept[N]) /\ (k = 0 => Len(kept[k]) = 0)
  BY <1>2, <1>3, <1>6
<1>8. ASSUME k < N, k + 1 \notin places
      PROVE  Len(kept[k + 1]) = Len(kept[k])
  <2>1. k + 1 \in 1 .. N /\ (k + 1) - 1 = k
    BY <1>8
  <2>2. kept[k + 1] = kept[k]
    BY <1>4, <1>8, <2>1
  <2> QED
    BY <2>2
<1>9. ASSUME k < N, k + 1 \in places
      PROVE  /\ Len(kept[k + 1]) = Len(kept[k]) + 1 /\ Len(kept[k + 1]) <= Len(kept[N])
             /\ kept[N][Len(kept[k]) + 1] = k + 1
  <2>1. k + 1 \in 1 .. N /\ (k + 1) - 1 = k /\ k + 1 \in 0 .. N
    BY <1>9
  <2>2. kept[k + 1] = Append(kept[k], k + 1) /\ kept[k] \in Seq(1 .. N)
    BY <1>2, <1>4, <1>9, <2>1
  <2>3. /\ Len(kept[k + 1]) = Len(kept[k]) + 1 /\ kept[k + 1][Len(kept[k]) + 1] = k + 1
        /\ Len(kept[k]) + 1 \in DOMAIN kept[k + 1]
    BY <2>1, <2>2, AppendedAt
  <2> QED
    BY <1>6, <2>1, <2>3
<1> QED
  BY <1>5, <1>7, <1>8, <1>9, <1>10 DEF kept, ids, NextNumber

-----------------------------------------------------------------------------
(* Sequences of sequences *)

\* JoinedTo is what its recursion says.
LEMMA JoinUnfolds ==
  ASSUME NEW S, NEW parts \in Seq(Seq(S))
  PROVE  /\ \A k \in 0 .. Len(parts) : JoinedTo(parts)[k] \in Seq(S)
         /\ JoinedTo(parts)[0] = <<>>
         /\ \A k \in 1 .. Len(parts) : JoinedTo(parts)[k] = JoinedTo(parts)[k - 1] \o parts[k]
<1> DEFINE N == Len(parts)
           Rec(f) == [n \in 0 .. N |-> IF n = 0 THEN <<>> ELSE f[n - 1] \o parts[n]]
           strung == CHOOSE f : f = Rec(f)
           step == [k \in Nat |-> [s \in Seq(S) |-> IF k \in 1 .. N THEN s \o parts[k] ELSE s]]
<1>0. N \in Nat /\ \A k \in 1 .. N : parts[k] \in Seq(S)
  <2> DEFINE Q == Seq(S)
  <2> HIDE DEF Q
  <2>1. parts \in Seq(Q)
    BY DEF Q
  <2>2. N \in Nat /\ \A k \in 1 .. N : parts[k] \in Q
    BY <2>1
  <2> QED
    BY <2>2 DEF Q
<1>1. JoinedTo(parts) = strung
  BY Zenon DEF JoinedTo
<1>2. step \in [Nat -> [Seq(S) -> Seq(S)]]
  <2>1. ASSUME NEW k \in Nat, NEW s \in Seq(S), k \in 1 .. N
        PROVE  s \o parts[k] \in Seq(S)
    <3>1. parts[k] \in Seq(S)
      BY <1>0, <2>1
    <3> QED
      BY <3>1
  <2> QED
    BY <2>1
<1>3. PICK f : Recursion(Seq(S), f, <<>>, step, N)
  <2>1. <<>> \in Seq(S)
    OBVIOUS
  <2> HIDE DEF step, N
  <2> QED
    BY <1>0, <1>2, <2>1, RecursionExists
<1>4. f = Rec(f)
  <2>1. ASSUME NEW k \in 0 .. N
        PROVE  f[k] = Rec(f)[k]
    <3>1. CASE k = 0
      BY <1>3, <3>1 DEF Recursion
    <3>2. CASE k # 0
      <4>0. f \in [0 .. N -> Seq(S)]
        BY <1>3 DEF Recursion
      <4> HIDE DEF N
      <4>1. k \in Nat /\ k \in 1 .. N /\ k - 1 \in 0 .. N
        BY <1>0, <3>2
      <4>2. f[k - 1] \in Seq(S)
        BY <4>0, <4>1
      <4>3. step[k][f[k - 1]] = f[k - 1] \o parts[k]
        BY <4>1, <4>2
      <4>4. f[k] = step[k][f[k - 1]]
        BY <1>3, <3>2 DEF Recursion
      <4> HIDE DEF step
      <4> QED
        BY <3>2, <4>1, <4>2, <4>3, <4>4
    <3> QED
      BY <3>1, <3>2
  <2>2. f \in [0 .. N -> Seq(S)]
    BY <1>3 DEF Recursion
  <2> QED
    BY <2>1, <2>2
<1>5. strung = Rec(strung)
  <2> HIDE DEF Rec
  <2> QED
    BY <1>4, Zenon
<1> DEFINE T == {n \in Nat : n \in 0 .. N => strung[n] \in Seq(S)}
<1> HIDE DEF strung, step
<1>6. \A n \in 0 .. N : strung[n] = IF n = 0 THEN <<>> ELSE strung[n - 1] \o parts[n]
  BY <1>5
<1>7. strung[0] = <<>>
  <2>1. 0 \in 0 .. N
    BY <1>0
  <2> QED
    BY <1>6, <2>1, Zenon
<1>8. 0 \in T
  <2>1. strung[0] \in Seq(S) /\ 0 \in Nat
    BY <1>7
  <2> QED
    BY <2>1
<1>9. ASSUME NEW n \in Nat, n \in T
      PROVE  n + 1 \in T
  <2> SUFFICES ASSUME n + 1 \in 0 .. N PROVE strung[n + 1] \in Seq(S)
    OBVIOUS
  <2>1. n \in 0 .. N /\ strung[n] \in Seq(S) /\ n + 1 # 0 /\ (n + 1) - 1 = n /\ parts[n + 1] \in Seq(S)
    BY <1>0, <1>9
  <2>2. strung[n + 1] = strung[n] \o parts[n + 1]
    BY <1>6, <2>1
  <2> QED
    BY <2>1, <2>2
<1> HIDE DEF T
<1>10. Nat \subseteq T
  BY <1>8, <1>9, SetInduction
<1>11. \A n \in 0 .. N : strung[n] \in Seq(S)
  BY <1>0, <1>10 DEF T
<1>12. ASSUME NEW k \in 1 .. N
       PROVE  strung[k] = strung[k - 1] \o parts[k]
  <2>1. k \in 0 .. N /\ k # 0
    BY <1>0
  <2> QED
    BY <1>6, <2>1, Zenon
<1> QED
  BY <1>1, <1>7, <1>11, <1>12

\* Two sequences one after the other, by the length of the first.
LEMMA JoinedOfLength ==
  ASSUME NEW S, NEW a \in Seq(S), NEW b \in Seq(S), NEW M \in Nat, Len(a) = M
  PROVE  /\ Len(a \o b) = M + Len(b)
         /\ \A k \in 1 .. M : (a \o b)[k] = a[k]
         /\ \A k \in 1 .. Len(b) : (a \o b)[M + k] = b[k]
<1>1. Len(a \o b) = M + Len(b)
  OBVIOUS
<1>2. \A k \in 1 .. M : (a \o b)[k] = a[k]
  BY JoinedAt
<1>3. \A k \in 1 .. Len(b) : (a \o b)[M + k] = b[k]
  BY JoinedAt
<1> QED
  BY <1>1, <1>2, <1>3, Zenon

\* Sequences strung together, of which all but the last have one element.
Strings(S, parts, strung, N) ==
  /\ \A k \in 1 .. N : parts[k] \in Seq(S) /\ strung[k] = strung[k - 1] \o parts[k]
  /\ \A k \in 0 .. N : strung[k] \in Seq(S)
  /\ \A k \in 1 .. N - 1 : Len(parts[k]) = 1
  /\ strung[0] = <<>>

\* The first n parts have given the elements of s, one each.
OneEach(parts, s, n) == Len(s) = n /\ \A i \in 1 .. n : s[i] = parts[i][1]

\* The first N - 1 parts have given one element each, the last one all of its own.
SinglesThenLast(parts, s, N) ==
  /\ Len(s) = N - 1 + Len(parts[N])
  /\ \A k \in 1 .. N - 1 : s[k] = parts[k][1]
  /\ \A k \in 1 .. Len(parts[N]) : s[N - 1 + k] = parts[N][k]

\* By induction over the parts strung together.
LEMMA StrungSingles ==
  ASSUME NEW S, NEW N \in Nat, N # 0, NEW parts, NEW strung, Strings(S, parts, strung, N)
  PROVE  SinglesThenLast(parts, strung[N], N)
<1> DEFINE T == {k \in Nat : k \in 0 .. N - 1 => OneEach(parts, strung[k], k)}
<1>1. 0 \in T
  <2>1. strung[0] = <<>>
    BY DEF Strings
  <2>2. OneEach(parts, strung[0], 0)
    BY <2>1 DEF OneEach
  <2> QED
    BY <2>2
<1>2. ASSUME NEW k \in Nat, NEW M \in Nat, M = k + 1, M \in 1 .. N
      PROVE  /\ \E a \in Seq(S) : a = strung[k]
             /\ \E b \in Seq(S) : b = parts[M]
             /\ strung[M] = strung[k] \o parts[M]
  <2>1. k \in 0 .. N /\ M - 1 = k
    BY <1>2
  <2>2. strung[k] \in Seq(S)
    BY <2>1, Zenon DEF Strings
  <2>3. parts[M] \in Seq(S) /\ strung[M] = strung[M - 1] \o parts[M]
    BY <1>2, Zenon DEF Strings
  <2> QED
    BY <2>1, <2>2, <2>3, Zenon
<1>3. ASSUME NEW k \in Nat, NEW M \in Nat, M = k + 1, M \in 1 .. N, OneEach(parts, strung[k], k)
      PROVE  /\ Len(strung[M]) = k + Len(parts[M])
             /\ \A i \in 1 .. k : strung[M][i] = parts[i][1]
             /\ \A i \in 1 .. Len(parts[M]) : strung[M][k + i] = parts[M][i]
  <2>1. strung[M] = strung[k] \o parts[M]
    BY <1>2, <1>3, Zenon
  <2>2. PICK a \in Seq(S) : a = strung[k]
    BY <1>2, <1>3, Zenon
  <2>3. PICK b \in Seq(S) : b = parts[M]
    BY <1>2, <1>3, Zenon
  <2>4. Len(a) = k
    BY <1>3, <2>2, Zenon DEF OneEach
  <2>5. Len(a \o b) = k + Len(b)
    BY <2>4, JoinedOfLength
  <2>6. \A i \in 1 .. k : (a \o b)[i] = a[i]
    BY <2>4, JoinedOfLength
  <2>7. \A i \in 1 .. Len(b) : (a \o b)[k + i] = b[i]
    BY <2>4, JoinedOfLength
  <2>8. \A i \in 1 .. k : a[i] = parts[i][1]
    BY <1>3, <2>2, Zenon DEF OneEach
  <2>9. strung[M] = a \o b
    BY <2>1, <2>2, <2>3, Zenon
  <2> QED
    BY <2>3, <2>5, <2>6, <2>7, <2>8, <2>9, Zenon
<1>4. ASSUME NEW k \in Nat, k \in T
      PROVE  k + 1 \in T
  <2>0. CASE k + 1 \notin 0 .. N - 1
    BY <2>0
  <2>1. CASE k + 1 \in 0 .. N - 1
    <3>1. k + 1 \in Nat /\ k + 1 \in 1 .. N /\ k + 1 \in 1 .. N - 1 /\ OneEach(parts, strung[k], k)
      BY <1>4, <2>1
    <3>2. Len(parts[k + 1]) = 1
      BY <3>1, Zenon DEF Strings
    <3>3. Len(strung[k + 1]) = k + Len(parts[k + 1])
      BY <1>3, <3>1, Zenon
    <3>4. \A i \in 1 .. k : strung[k + 1][i] = parts[i][1]
      BY <1>3, <3>1, Zenon
    <3>5. \A i \in 1 .. Len(parts[k + 1]) : strung[k + 1][k + i] = parts[k + 1][i]
      BY <1>3, <3>1, Zenon
    <3>6. strung[k + 1][k + 1] = parts[k + 1][1]
      BY <3>2, <3>5
    <3>7. \A i \in 1 .. k + 1 : i \in 1 .. k \/ i = k + 1
      OBVIOUS
    <3>8. Len(strung[k + 1]) = k + 1
      BY <3>2, <3>3
    <3>9. \A i \in 1 .. k + 1 : strung[k + 1][i] = parts[i][1]
      BY <3>4, <3>6, <3>7, Zenon
    <3>10. OneEach(parts, strung[k + 1], k + 1)
      BY <3>8, <3>9, Zenon DEF OneEach
    <3> QED
      BY <3>10
  <2> QED
    BY <2>0, <2>1
<1> HIDE DEF T
<1>5. N - 1 \in T
  <2>1. Nat \subseteq T
    BY <1>1, <1>4, SetInduction
  <2> QED
    BY <2>1
<1>6. OneEach(parts, strung[N - 1], N - 1)
  BY <1>5 DEF T
<1>7. N - 1 \in Nat /\ N \in 1 .. N /\ N = (N - 1) + 1
  OBVIOUS
<1>8. Len(strung[N]) = N - 1 + Len(parts[N])
  BY <1>3, <1>6, <1>7, Zenon
<1>9. \A k \in 1 .. N - 1 : strung[N][k] = parts[k][1]
  BY <1>3, <1>6, <1>7, Zenon
<1>10. \A k \in 1 .. Len(parts[N]) : strung[N][N - 1 + k] = parts[N][k]
  BY <1>3, <1>6, <1>7, Zenon
<1> QED
  BY <1>8, <1>9, <1>10, Zenon DEF SinglesThenLast

\* Where all parts but the last have one element, each part begins at its own place.
LEMMA JoinedSingles ==
  ASSUME NEW S, NEW parts \in Seq(Seq(S)), NEW N \in {Len(parts)}, N # 0,
         \A k \in 1 .. N - 1 : Len(parts[k]) = 1
  PROVE  Joined(parts) \in Seq(S) /\ SinglesThenLast(parts, Joined(parts), N)
<1>0. N \in Nat /\ \A k \in 1 .. N : parts[k] \in Seq(S)
  <2> DEFINE Q == Seq(S)
  <2> HIDE DEF Q
  <2>1. parts \in Seq(Q)
    BY DEF Q
  <2>2. N \in Nat /\ \A k \in 1 .. N : parts[k] \in Q
    BY <2>1
  <2> QED
    BY <2>2 DEF Q
<1>1. \A k \in 0 .. N : JoinedTo(parts)[k] \in Seq(S)
  BY JoinUnfolds
<1>2. JoinedTo(parts)[0] = <<>>
  BY JoinUnfolds
<1>3. \A k \in 1 .. N : JoinedTo(parts)[k] = JoinedTo(parts)[k - 1] \o parts[k]
  BY JoinUnfolds
<1>4. Joined(parts) = JoinedTo(parts)[N] /\ N \in 0 .. N
  BY <1>0 DEF Joined
<1>5. Strings(S, parts, JoinedTo(parts), N)
  BY <1>0, <1>1, <1>2, <1>3, Zenon DEF Strings
<1>6. N \in Nat /\ N # 0
  BY <1>0
<1>7. SinglesThenLast(parts, JoinedTo(parts)[N], N)
  BY <1>5, <1>6, StrungSingles
<1> QED
  BY <1>1, <1>4, <1>7, Zenon
=============================================================================
