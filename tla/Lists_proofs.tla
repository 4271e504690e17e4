---------------------------- MODULE Lists_proofs ----------------------------
(***************************************************************************)
(* What Keep and Value return, for lists of any length.  The library's     *)
(* induction theorems take a predicate as a parameter; here induction is   *)
(* over a set of numbers, from the least-element principle, and recursion  *)
(* takes its step as a function.                                           *)
(***************************************************************************)
EXTENDS Lists, SequencesExt, FiniteSetTheorems, SequenceTheorems, TLAPS

\* Every set of natural numbers has a least one: of the intervals that end in
\* it, one has no other inside.
LEMMA LeastNat ==
  ASSUME NEW T, T \subseteq Nat, T # {}
  PROVE  \E x \in T : \A y \in T : x <= y
  <1> DEFINE R == StrictSubsetOrdering(Nat)
             I == { 1 .. n : n \in T }
  <1>1. IsWellFoundedOn(R, FiniteSubsetsOf(Nat))
    BY FS_StrictSubsetOrderingWellFounded
  <1>2. I \subseteq FiniteSubsetsOf(Nat)
    BY FS_Interval DEF FiniteSubsetsOf
  <1>3. I # {}
    OBVIOUS
  <1>4. \E x \in I : \A y \in I : ~ (<<y, x>> \in R)
    <2> HIDE DEF R, I
    <2> QED
      BY <1>1, <1>2, <1>3, WFMin
  <1>5. PICK x \in T : \A y \in T : ~ (<<1 .. y, 1 .. x>> \in R)
    BY <1>4
  <1>6. ASSUME NEW y \in T, y < x
        PROVE  FALSE
    <2>1. 1 .. y \subseteq 1 .. x /\ 1 .. x \subseteq Nat
      BY <1>6
    <2>2. x \in 1 .. x /\ x \notin 1 .. y
      BY <1>6
    <2>3. <<1 .. y, 1 .. x>> \in StrictSubsetOrdering(Nat)
      BY <2>1, <2>2 DEF StrictSubsetOrdering
    <2> QED
      BY <1>5, <2>3
  <1> QED
    BY <1>6

\* Induction up to m, over the set of numbers a fact holds for.
LEMMA UpTo ==
  ASSUME NEW m \in Nat, NEW S, 0 \in S,
         \A n \in 1 .. m : n - 1 \in S => n \in S
  PROVE  0 .. m \subseteq S
  <1> DEFINE B == (0 .. m) \ S
  <1>1. SUFFICES ASSUME B # {}
                 PROVE  FALSE
    OBVIOUS
  <1>2. PICK n \in B : \A y \in B : n <= y
    <2>1. B \subseteq Nat
      OBVIOUS
    <2> HIDE DEF B
    <2> QED
      BY <1>1, <2>1, LeastNat
  <1>3. n \in 1 .. m /\ n - 1 \in 0 .. m /\ n - 1 \notin B
    BY <1>2
  <1> QED
    BY <1>2, <1>3

-----------------------------------------------------------------------------
\* The equation of the recursion in Keep.
Keeps(kept, s, T) ==
  kept = [ n \in 0 .. Len(s) |->
             IF n = 0 THEN << >>
             ELSE IF s[n] \in T THEN Append(kept[n - 1], s[n]) ELSE kept[n - 1] ]

\* It has a solution, built up to any m by adding one more place.
LEMMA KeepRecursion ==
  ASSUME NEW s, Len(s) \in Nat, NEW T
  PROVE  \E kept : Keeps(kept, s, T) /\ Keep(s, T) = kept[Len(s)]
  <1> DEFINE Solves(f, m) ==
        f = [ n \in 0 .. m |->
                IF n = 0 THEN << >>
                ELSE IF s[n] \in T THEN Append(f[n - 1], s[n]) ELSE f[n - 1] ]
             S == { m \in Nat : \E f : Solves(f, m) }
  <1>1. 0 \in S
    <2>1. Solves([n \in 0 .. 0 |-> << >>], 0)
      OBVIOUS
    <2> QED
      BY <2>1
  <1>2. ASSUME NEW m \in 1 .. Len(s), m - 1 \in S
        PROVE  m \in S
    <2>1. PICK f : Solves(f, m - 1)
      BY <1>2
    <2> DEFINE last == IF s[m] \in T THEN Append(f[m - 1], s[m]) ELSE f[m - 1]
               g    == [ n \in 0 .. m |-> IF n = m THEN last ELSE f[n] ]
    <2>2. ASSUME NEW n \in 0 .. m
          PROVE  g[n] = IF n = 0 THEN << >>
                        ELSE IF s[n] \in T THEN Append(g[n - 1], s[n]) ELSE g[n - 1]
      <3>1. CASE n = 0
        BY <3>1, <2>1
      <3>2. CASE n = m
        BY <3>2
      <3>3. CASE n # 0 /\ n # m
        <4>1. n \in 0 .. (m - 1) /\ g[n] = f[n] /\ g[n - 1] = f[n - 1]
          BY <3>3
        <4> QED
          BY <4>1, <3>3, <2>1
      <3> QED
        BY <3>1, <3>2, <3>3
    <2>3. Solves(g, m)
      <3>1. g = [n \in 0 .. m |-> g[n]]
        OBVIOUS
      <3> HIDE DEF g
      <3> QED
        BY <2>2, <3>1
    <2> HIDE DEF g, Solves
    <2> QED
      BY <2>3
  <1>3. Len(s) \in S
    <2> HIDE DEF S
    <2>1. 0 .. Len(s) \subseteq S
      BY <1>1, <1>2, UpTo
    <2> QED
      BY <2>1
  <1>4. \E f : Keeps(f, s, T)
    BY <1>3 DEF Keeps
  <1> QED
    BY <1>4 DEF Keep, Keeps

\* The recursive function inside Keep takes or skips one element at a time.
LEMMA KeepsOne ==
  ASSUME NEW s, Len(s) \in Nat, NEW T, NEW kept, Keeps(kept, s, T)
  PROVE  /\ kept[0] = << >>
         /\ \A n \in 1 .. Len(s) :
              kept[n] = IF s[n] \in T THEN Append(kept[n - 1], s[n]) ELSE kept[n - 1]
  <1>1. kept[0] = << >>
    <2>1. 0 \in 0 .. Len(s)
      OBVIOUS
    <2> QED
      BY <2>1 DEF Keeps
  <1>2. ASSUME NEW n \in 1 .. Len(s)
        PROVE  kept[n] = IF s[n] \in T THEN Append(kept[n - 1], s[n]) ELSE kept[n - 1]
    <2>1. n \in 0 .. Len(s) /\ n # 0
      OBVIOUS
    <2> QED
      BY <2>1 DEF Keeps
  <1> QED
    BY <1>1, <1>2

\* Nothing is kept of the empty list.
LEMMA KeepEmpty ==
  ASSUME NEW T
  PROVE  Keep(<< >>, T) = << >>
  <1>1. Len(<< >>) = 0
    OBVIOUS
  <1>2. PICK kept : Keeps(kept, << >>, T) /\ Keep(<< >>, T) = kept[0]
    BY <1>1, KeepRecursion
  <1> QED
    BY <1>1, <1>2 DEF Keeps

\* Keep looks at each element alone, from the left: two sequences that agree
\* up to some place, for tests that agree there, are narrowed alike up to it.
LEMMA KeepsAgree ==
  ASSUME NEW s, NEW t, NEW T, NEW U, NEW f, NEW g,
         Keeps(f, s, T), Keeps(g, t, U),
         Len(s) \in Nat, Len(t) \in Nat, NEW m \in Nat,
         m <= Len(s), m <= Len(t),
         \A i \in 1 .. m : s[i] = t[i] /\ (s[i] \in T <=> t[i] \in U)
  PROVE  f[m] = g[m]
  <1> DEFINE S == { n \in 0 .. m : f[n] = g[n] }
  <1>1. 0 \in S
    BY DEF Keeps
  <1>2. ASSUME NEW n \in 1 .. m, n - 1 \in S
        PROVE  n \in S
    <2>1. n \in 1 .. Len(s) /\ n \in 1 .. Len(t)
      OBVIOUS
    <2>2. f[n] = IF s[n] \in T THEN Append(f[n - 1], s[n]) ELSE f[n - 1]
      BY <2>1, KeepsOne
    <2>3. g[n] = IF t[n] \in U THEN Append(g[n - 1], t[n]) ELSE g[n - 1]
      BY <2>1, KeepsOne
    <2> QED
      BY <1>2, <2>2, <2>3
  <1>3. m \in S
    <2> HIDE DEF S
    <2>1. 0 .. m \subseteq S
      BY <1>1, <1>2, UpTo
    <2> QED
      BY <2>1
  <1> QED
    BY <1>3

\* Only what the filter says of the elements of the list matters.
LEMMA KeepSame ==
  ASSUME NEW s, Len(s) \in Nat, NEW T, NEW U,
         \A i \in 1 .. Len(s) : s[i] \in T <=> s[i] \in U
  PROVE  Keep(s, T) = Keep(s, U)
  <1>1. PICK f : Keeps(f, s, T) /\ Keep(s, T) = f[Len(s)]
    BY KeepRecursion
  <1>2. PICK g : Keeps(g, s, U) /\ Keep(s, U) = g[Len(s)]
    BY KeepRecursion
  <1> QED
    BY <1>1, <1>2, KeepsAgree

\* One more element is kept, or not; the rest stays as it was.
LEMMA KeepAppend ==
  ASSUME NEW S, NEW s \in Seq(S), NEW x \in S, NEW T
  PROVE  Keep(Append(s, x), T) = IF x \in T THEN Append(Keep(s, T), x)
                                            ELSE Keep(s, T)
  <1> DEFINE t == Append(s, x)
  <1>1. /\ Len(s) \in Nat /\ Len(t) = Len(s) + 1
        /\ t[Len(s) + 1] = x
        /\ \A i \in 1 .. Len(s) : t[i] = s[i]
    OBVIOUS
  <1> HIDE DEF t
  <1>2. PICK f : Keeps(f, s, T) /\ Keep(s, T) = f[Len(s)]
    BY <1>1, KeepRecursion
  <1>3. PICK g : Keeps(g, t, T) /\ Keep(t, T) = g[Len(s) + 1]
    BY <1>1, KeepRecursion
  <1>4. f[Len(s)] = g[Len(s)]
    BY <1>1, <1>2, <1>3, KeepsAgree
  <1>5. g[Len(s) + 1] = IF x \in T THEN Append(g[Len(s)], x) ELSE g[Len(s)]
    <2>1. Len(t) \in Nat /\ Len(s) + 1 \in 1 .. Len(t) /\ Len(s) + 1 - 1 = Len(s)
      BY <1>1
    <2> QED
      BY <1>1, <1>3, <2>1, KeepsOne
  <1> QED
    BY <1>2, <1>3, <1>4, <1>5 DEF t
-----------------------------------------------------------------------------
(***************************************************************************)
(* The elements kept are those of s at some places, in the order of s, and *)
(* no element of T among the first n is left out.                          *)
(***************************************************************************)
KeptAt(k, at, s, T, n) ==
  /\ at \in [DOMAIN k -> 1 .. n]
  /\ \A i \in DOMAIN k : k[i] = s[at[i]] /\ k[i] \in T
  /\ \A i, j \in DOMAIN k : i < j => at[i] < at[j]
  /\ \A m \in 1 .. n : s[m] \in T => \E i \in DOMAIN k : at[i] = m

\* What a filtered list holds: each kept element comes from a place of its own,
\* in the order of the places, and none is forgotten.  (filter_tools, replay)
LEMMA KeepPlaces ==
  ASSUME NEW S, NEW s \in Seq(S), NEW T
  PROVE  /\ Keep(s, T) \in Seq(S)
         /\ \E at : KeptAt(Keep(s, T), at, s, T, Len(s))
  <1>1. Len(s) \in Nat /\ \A n \in 1 .. Len(s) : s[n] \in S
    OBVIOUS
  <1>2. PICK f : Keeps(f, s, T) /\ Keep(s, T) = f[Len(s)]
    BY <1>1, KeepRecursion
  <1> DEFINE G == { n \in 0 .. Len(s) :
                      f[n] \in Seq(S) /\ \E at : KeptAt(f[n], at, s, T, n) }
  <1>3. 0 \in G
    <2>1. f[0] = << >>
      BY <1>1, <1>2, KeepsOne
    <2>2. KeptAt(<< >>, << >>, s, T, 0)
      BY DEF KeptAt
    <2>3. f[0] \in Seq(S) /\ KeptAt(f[0], << >>, s, T, 0)
      BY <2>1, <2>2
    <2> QED
      BY <1>1, <2>3
  <1>4. ASSUME NEW n \in 1 .. Len(s), n - 1 \in G
        PROVE  n \in G
    <2>1. f[n] = IF s[n] \in T THEN Append(f[n - 1], s[n]) ELSE f[n - 1]
      BY <1>1, <1>2, KeepsOne
    <2>2. f[n - 1] \in Seq(S) /\ s[n] \in S
      BY <1>1, <1>4
    <2>3. PICK at : KeptAt(f[n - 1], at, s, T, n - 1)
      BY <1>4
    <2>4. CASE s[n] \notin T
      <3>1. KeptAt(f[n - 1], at, s, T, n)
        BY <2>3, <2>4 DEF KeptAt
      <3> QED
        BY <2>1, <2>2, <2>4, <3>1
    <2>5. CASE s[n] \in T
      <3> DEFINE old == f[n - 1]
                 k   == Append(old, s[n])
                 new == [ i \in DOMAIN k |-> IF i = Len(old) + 1 THEN n ELSE at[i] ]
      <3>1. /\ k \in Seq(S) /\ Len(old) \in Nat
            /\ DOMAIN old = 1 .. Len(old) /\ DOMAIN k = 1 .. Len(old) + 1
            /\ k[Len(old) + 1] = s[n]
            /\ \A i \in 1 .. Len(old) : k[i] = old[i]
        BY <2>2
      <3> HIDE DEF k
      <3>2. new \in [DOMAIN k -> 1 .. n]
        BY <2>3, <3>1 DEF KeptAt
      <3>3. \A i \in DOMAIN k : k[i] = s[new[i]] /\ k[i] \in T
        <4>1. ASSUME NEW i \in DOMAIN k, i # Len(old) + 1
              PROVE  i \in DOMAIN old /\ k[i] = old[i] /\ new[i] = at[i]
          BY <3>1, <4>1
        <4>2. \A i \in DOMAIN old : old[i] = s[at[i]] /\ old[i] \in T
          BY <2>3 DEF KeptAt
        <4>3. k[Len(old) + 1] = s[n] /\ new[Len(old) + 1] = n
          BY <3>1
        <4> HIDE DEF new, old
        <4> QED
          BY <2>5, <4>1, <4>2, <4>3
      <3>4. \A i, j \in DOMAIN k : i < j => new[i] < new[j]
        BY <2>3, <3>1 DEF KeptAt
      <3>5. \A m \in 1 .. n : s[m] \in T => \E i \in DOMAIN k : new[i] = m
        <4>1. new[Len(old) + 1] = n
          BY <3>1
        <4>2. \A m \in 1 .. (n - 1) : s[m] \in T => \E i \in DOMAIN old : new[i] = m
          BY <2>3, <3>1 DEF KeptAt
        <4>3. DOMAIN old \subseteq DOMAIN k /\ Len(old) + 1 \in DOMAIN k
          BY <3>1
        <4> HIDE DEF new, old
        <4> QED
          BY <4>1, <4>2, <4>3
      <3>6. KeptAt(k, new, s, T, n)
        BY <3>2, <3>3, <3>4, <3>5 DEF KeptAt
      <3>7. f[n] = k
        BY <2>1, <2>5 DEF k
      <3>8. f[n] \in Seq(S) /\ KeptAt(f[n], new, s, T, n)
        BY <3>1, <3>6, <3>7
      <3> HIDE DEF new
      <3> QED
        BY <3>8
    <2> QED
      BY <2>4, <2>5
  <1>5. Len(s) \in G
    <2> HIDE DEF G
    <2>1. 0 .. Len(s) \subseteq G
      BY <1>1, <1>3, <1>4, UpTo
    <2> QED
      BY <1>1, <2>1
  <1> QED
    BY <1>2, <1>5

\* As sets: what is kept is what is there and in T.
LEMMA KeepElements ==
  ASSUME NEW S, NEW s \in Seq(S), NEW T
  PROVE  Elements(Keep(s, T)) = Elements(s) \cap T
  <1>1. DOMAIN s = 1 .. Len(s)
    OBVIOUS
  <1>2. PICK at : KeptAt(Keep(s, T), at, s, T, Len(s))
    BY KeepPlaces
  <1> QED
    BY <1>1, <1>2 DEF Elements, KeptAt

\* Nothing is kept of a list that has nothing in T.
LEMMA KeepNone ==
  ASSUME NEW S, NEW s \in Seq(S), NEW T, \A i \in DOMAIN s : s[i] \notin T
  PROVE  Keep(s, T) = << >>
  <1>1. PICK at : KeptAt(Keep(s, T), at, s, T, Len(s))
    BY KeepPlaces
  <1>2. Keep(s, T) \in Seq(S) /\ DOMAIN s = 1 .. Len(s)
    BY KeepPlaces
  <1>3. DOMAIN Keep(s, T) = {}
    BY <1>1, <1>2 DEF KeptAt
  <1> QED
    BY <1>2, <1>3

\* A narrowed list is not longer than the list.
LEMMA KeepLength ==
  ASSUME NEW S, NEW s \in Seq(S), NEW T
  PROVE  Len(Keep(s, T)) <= Len(s)
  <1>1. Len(s) \in Nat /\ \A n \in 1 .. Len(s) : s[n] \in S
    OBVIOUS
  <1>2. PICK f : Keeps(f, s, T) /\ Keep(s, T) = f[Len(s)]
    BY <1>1, KeepRecursion
  <1> DEFINE G == { n \in 0 .. Len(s) : f[n] \in Seq(S) /\ Len(f[n]) <= n }
  <1>3. 0 \in G
    <2>1. f[0] = << >>
      BY <1>1, <1>2, KeepsOne
    <2>2. << >> \in Seq(S) /\ Len(<< >>) = 0 /\ 0 \in 0 .. Len(s)
      BY <1>1
    <2>3. f[0] \in Seq(S) /\ Len(f[0]) <= 0
      BY <2>1, <2>2
    <2> QED
      BY <2>2, <2>3
  <1>4. ASSUME NEW n \in 1 .. Len(s), n - 1 \in G
        PROVE  n \in G
    <2>1. f[n] = IF s[n] \in T THEN Append(f[n - 1], s[n]) ELSE f[n - 1]
      BY <1>1, <1>2, KeepsOne
    <2>2. f[n - 1] \in Seq(S) /\ Len(f[n - 1]) <= n - 1 /\ s[n] \in S
      BY <1>1, <1>4
    <2>3. /\ Append(f[n - 1], s[n]) \in Seq(S)
          /\ Len(Append(f[n - 1], s[n])) = Len(f[n - 1]) + 1
          /\ Len(f[n - 1]) \in Nat
      BY <2>2
    <2>4. f[n] \in Seq(S) /\ Len(f[n]) <= n
      BY <1>1, <2>1, <2>2, <2>3
    <2> QED
      BY <1>1, <2>4
  <1>5. 0 .. Len(s) \subseteq G
    <2> HIDE DEF G
    <2> QED
      BY <1>1, <1>3, <1>4, UpTo
  <1> QED
    BY <1>1, <1>2, <1>5
-----------------------------------------------------------------------------
(***************************************************************************)
(* Recursion up to m, for a step that is a function: there is a list of    *)
(* values each of which the step makes of the one before.                  *)
(***************************************************************************)
Iterates(f, m, V, first, step) ==
  /\ f \in [0 .. m -> V] /\ f[0] = first
  /\ \A n \in 1 .. m : f[n] = step[<<n, f[n - 1]>>]

\* A recursive function exists whose step is given as a function.
LEMMA Recursion ==
  ASSUME NEW m \in Nat, NEW V, NEW first \in V, NEW step \in [(1 .. m) \X V -> V]
  PROVE  \E f : Iterates(f, m, V, first, step)
  <1> DEFINE S == { k \in 0 .. m : \E f : Iterates(f, k, V, first, step) }
  <1>1. 0 \in S
    <2>1. Iterates([n \in 0 .. 0 |-> first], 0, V, first, step)
      BY DEF Iterates
    <2>2. 0 \in 0 .. m
      OBVIOUS
    <2> QED
      BY <2>1, <2>2
  <1>2. ASSUME NEW k \in 1 .. m, k - 1 \in S
        PROVE  k \in S
    <2>1. PICK f : Iterates(f, k - 1, V, first, step)
      BY <1>2
    <2>2. /\ k - 1 \in 0 .. (k - 1) /\ 0 \in 0 .. (k - 1) /\ k \in 0 .. m /\ k # 0
          /\ f[0] = first /\ \A n \in 0 .. (k - 1) : f[n] \in V
      BY <2>1 DEF Iterates
    <2> DEFINE last == step[<<k, f[k - 1]>>]
               g == [n \in 0 .. k |-> IF n = k THEN last ELSE f[n]]
    <2>3. last \in V
      <3>1. <<k, f[k - 1]>> \in (1 .. m) \X V
        BY <2>2
      <3> QED
        BY <3>1
    <2>4. g[k] = last /\ \A n \in 0 .. (k - 1) : g[n] = f[n]
      <3> HIDE DEF last
      <3> QED
        OBVIOUS
    <2>5. g \in [0 .. k -> V]
      <3>1. \A n \in 0 .. k : n = k \/ n \in 0 .. (k - 1)
        OBVIOUS
      <3> HIDE DEF last
      <3> QED
        BY <2>2, <2>3, <3>1
    <2> HIDE DEF g
    <2>6. ASSUME NEW n \in 1 .. k
          PROVE  g[n] = step[<<n, g[n - 1]>>]
      <3>1. n - 1 \in 0 .. (k - 1) /\ g[n - 1] = f[n - 1]
        BY <2>4
      <3>2. CASE n = k
        BY <2>4, <3>1, <3>2
      <3>3. CASE n # k
        <4>1. n \in 1 .. (k - 1) /\ g[n] = f[n]
          BY <2>4, <3>3
        <4>2. f[n] = step[<<n, f[n - 1]>>]
          BY <2>1, <4>1 DEF Iterates
        <4> QED
          BY <3>1, <4>1, <4>2
      <3> QED
        BY <3>2, <3>3
    <2>7. Iterates(g, k, V, first, step)
      <3>1. g[0] = first
        BY <2>2, <2>4
      <3> QED
        BY <2>5, <2>6, <3>1 DEF Iterates
    <2> QED
      BY <2>2, <2>7
  <1>3. 0 .. m \subseteq S
    <2> HIDE DEF S
    <2> QED
      BY <1>1, <1>2, UpTo
  <1>4. m \in 0 .. m
    OBVIOUS
  <1> QED
    BY <1>3, <1>4

\* The values of a list's beginnings.
Values(value, base, digits) ==
  /\ value \in [0 .. Len(digits) -> Int] /\ value[0] = 0
  /\ \A n \in 1 .. Len(digits) : value[n] = base * value[n - 1] + digits[n]

\* Value computes them.
LEMMA ValueRecursion ==
  ASSUME NEW base \in Int, NEW digits \in Seq(Int)
  PROVE  \E value : Values(value, base, digits) /\ Value(base, digits) = value[Len(digits)]
  <1> DEFINE m == Len(digits)
             Solves(f) == f = [n \in 0 .. m |-> IF n = 0 THEN 0
                                                ELSE base * f[n - 1] + digits[n]]
  <1>1. m \in Nat /\ \A n \in 1 .. m : digits[n] \in Int
    OBVIOUS
  <1> DEFINE step == [x \in (1 .. m) \X Int |-> base * x[2] + digits[x[1]]]
  <1>2. step \in [(1 .. m) \X Int -> Int]
    <2>1. ASSUME NEW x \in (1 .. m) \X Int
          PROVE  base * x[2] + digits[x[1]] \in Int
      <3>1. x[2] \in Int /\ digits[x[1]] \in Int
        BY <1>1
      <3> QED
        BY <3>1
    <2> HIDE DEF m
    <2> QED
      BY <2>1
  <1>20. PICK f : Iterates(f, m, Int, 0, step)
    <2>1. 0 \in Int
      OBVIOUS
    <2> HIDE DEF m, step
    <2> QED
      BY <1>1, <1>2, <2>1, Recursion
  <1>3. /\ f \in [0 .. m -> Int] /\ f[0] = 0
        /\ \A n \in 1 .. m : f[n] = step[<<n, f[n - 1]>>]
    <2> HIDE DEF m, step
    <2> QED
      BY <1>20 DEF Iterates
  <1>4. \A n \in 1 .. m : f[n] = base * f[n - 1] + digits[n]
    <2>1. ASSUME NEW n \in 1 .. m
          PROVE  f[n] = base * f[n - 1] + digits[n]
      <3>1. n - 1 \in 0 .. m /\ f[n - 1] \in Int
        BY <1>1, <1>3
      <3>2. <<n, f[n - 1]>> \in (1 .. m) \X Int
        BY <3>1
      <3>3. step[<<n, f[n - 1]>>] = base * f[n - 1] + digits[n]
        BY <3>2
      <3> QED
        BY <1>3, <3>3
    <2> QED
      BY <2>1
  <1>5. Solves(f)
    <2>1. f = [n \in 0 .. m |-> f[n]]
      BY <1>3
    <2>2. \A n \in 0 .. m : f[n] = IF n = 0 THEN 0 ELSE base * f[n - 1] + digits[n]
      BY <1>1, <1>3, <1>4
    <2> HIDE DEF m, step
    <2> QED
      BY <2>1, <2>2
  <1> DEFINE v == CHOOSE f_1 : Solves(f_1)
  <1>6. Solves(v)
    <2> HIDE DEF Solves
    <2> QED
      BY <1>5
  <1>7. Value(base, digits) = v[m]
    BY DEF Value
  <1> HIDE DEF v
  <1>8. v[0] = 0 /\ \A n \in 1 .. m : v[n] = base * v[n - 1] + digits[n]
    <2>1. \A n \in 0 .. m : v[n] = IF n = 0 THEN 0 ELSE base * v[n - 1] + digits[n]
      BY <1>6
    <2> HIDE DEF m, Solves
    <2> QED
      BY <1>1, <2>1
  <1>9. \A n \in 0 .. m : v[n] = f[n]
    <2> DEFINE G == { n \in 0 .. m : v[n] = f[n] }
    <2>1. 0 \in G
      BY <1>1, <1>3, <1>8
    <2>2. ASSUME NEW n \in 1 .. m, n - 1 \in G
          PROVE  n \in G
      BY <1>1, <1>4, <1>8, <2>2
    <2>3. 0 .. m \subseteq G
      <3> HIDE DEF G, m
      <3> QED
        BY <1>1, <2>1, <2>2, UpTo
    <2> QED
      BY <2>3
  <1>10. v = f
    <2>1. v = [n \in 0 .. m |-> v[n]]
      BY <1>6
    <2> HIDE DEF m, Solves
    <2> QED
      BY <1>3, <1>9, <2>1
  <1>11. Values(v, base, digits)
    BY <1>3, <1>8, <1>10 DEF Values
  <1> QED
    BY <1>7, <1>11

\* The value of a list of integers is an integer.
LEMMA ValueInt ==
  ASSUME NEW base \in Int, NEW digits \in Seq(Int)
  PROVE  Value(base, digits) \in Int
  <1>1. PICK value : Values(value, base, digits) /\ Value(base, digits) = value[Len(digits)]
    BY ValueRecursion
  <1>2. Len(digits) \in 0 .. Len(digits)
    OBVIOUS
  <1> QED
    BY <1>1, <1>2 DEF Values

\* The sum of a list read backwards.
LEMMA SumReversed ==
  ASSUME NEW s \in Seq(Int)
  PROVE  Value(1, Reverse(s)) = Value(1, s)
  <1> DEFINE r == Reverse(s)
             m == Len(s)
  <1>1. /\ m \in Nat /\ Len(r) = m /\ r \in Seq(Int)
        /\ \A n \in 1 .. m : s[n] \in Int /\ r[n] = s[m - n + 1]
    BY DEF Reverse
  <1>2. PICK f : Values(f, 1, s) /\ Value(1, s) = f[m]
    BY ValueRecursion
  <1>3. PICK g : Values(g, 1, r) /\ Value(1, r) = g[m]
    <2> HIDE DEF r
    <2>0. r \in Seq(Int) /\ 1 \in Int
      BY <1>1
    <2>1. PICK g : Values(g, 1, r) /\ Value(1, r) = g[Len(r)]
      BY <2>0, ValueRecursion
    <2> QED
      BY <1>1, <2>1
  <1>4. /\ f \in [0 .. m -> Int] /\ f[0] = 0
        /\ \A n \in 1 .. m : f[n] = f[n - 1] + s[n]
    <2> HIDE DEF m
    <2>1. /\ f \in [0 .. m -> Int] /\ f[0] = 0
          /\ \A n \in 1 .. m : f[n] = 1 * f[n - 1] + s[n]
      BY <1>2 DEF Values, m
    <2>2. \A n \in 1 .. m : f[n - 1] \in Int
      BY <1>1, <2>1
    <2> QED
      BY <2>1, <2>2
  <1>5. /\ g \in [0 .. m -> Int] /\ g[0] = 0
        /\ \A n \in 1 .. m : g[n] = g[n - 1] + s[m - n + 1]
    <2> HIDE DEF m, r
    <2>1. /\ g \in [0 .. m -> Int] /\ g[0] = 0
          /\ \A n \in 1 .. m : g[n] = 1 * g[n - 1] + r[n]
      BY <1>1, <1>3 DEF Values
    <2>2. ASSUME NEW n \in 1 .. m
          PROVE  g[n] = g[n - 1] + s[m - n + 1]
      <3>1. n - 1 \in 0 .. m
        BY <1>1
      <3>2. g[n - 1] \in Int
        BY <2>1, <3>1
      <3>3. g[n] = 1 * g[n - 1] + r[n] /\ r[n] = s[m - n + 1]
        BY <1>1, <2>1
      <3>4. 1 * g[n - 1] = g[n - 1]
        BY <3>2
      <3> QED
        BY <3>3, <3>4
    <2> QED
      BY <2>1, <2>2
  <1> DEFINE G == { n \in 0 .. m : f[m - n] + g[n] = f[m] }
  <1>6. 0 \in G
    <2> HIDE DEF m
    <2>1. f[m] \in Int /\ m - 0 = m
      BY <1>1, <1>4
    <2> QED
      BY <1>1, <1>5, <2>1
  <1>7. ASSUME NEW n \in 1 .. m, n - 1 \in G
        PROVE  n \in G
    <2> HIDE DEF m
    <2>1. /\ m - n + 1 \in 1 .. m /\ m - (n - 1) = m - n + 1 /\ (m - n + 1) - 1 = m - n
          /\ m - n \in 0 .. m /\ n - 1 \in 0 .. m
      BY <1>1
    <2>2. f[m - n + 1] = f[m - n] + s[m - n + 1]
      BY <1>4, <2>1
    <2>3. g[n] = g[n - 1] + s[m - n + 1]
      BY <1>5
    <2>4. f[m - n + 1] + g[n - 1] = f[m]
      BY <1>7, <2>1
    <2>5. f[m - n] \in Int /\ g[n - 1] \in Int /\ s[m - n + 1] \in Int
      BY <1>1, <1>4, <1>5, <2>1
    <2>6. f[m - n] + g[n] = f[m]
      BY <2>2, <2>3, <2>4, <2>5
    <2> QED
      BY <1>1, <2>6
  <1>8. m \in G
    <2> HIDE DEF G, m
    <2>1. 0 .. m \subseteq G
      BY <1>1, <1>6, <1>7, UpTo
    <2> QED
      BY <1>1, <2>1
  <1>9. f[m - m] + g[m] = f[m]
    BY <1>8
  <1>10. m - m = 0 /\ g[m] \in Int
    BY <1>1, <1>5
  <1> HIDE DEF m, r
  <1>11. g[m] = f[m]
    BY <1>4, <1>9, <1>10
  <1> QED
    BY <1>2, <1>3, <1>11 DEF r

\* How many numbers there are up to a bound.
LEMMA CountUpTo ==
  ASSUME NEW n \in Nat
  PROVE  IsFiniteSet(1 .. n) /\ Cardinality(1 .. n) = n
  <1>1. 1 \in Int /\ n \in Int
    OBVIOUS
  <1>2. Cardinality(1 .. n) = IF 1 > n THEN 0 ELSE n - 1 + 1
    BY <1>1, FS_Interval
  <1> QED
    BY <1>1, <1>2, FS_Interval

\* The length and the type of two lists put together.
LEMMA ConcatIn ==
  ASSUME NEW S, NEW s \in Seq(S), NEW t \in Seq(S)
  PROVE  /\ s \o t \in Seq(S) /\ Len(s \o t) = Len(s) + Len(t)
         /\ Len(s) \in Nat /\ Len(t) \in Nat
  OBVIOUS

\* Lists of lists, one after the other.
LEMMA FlattenSeqProperties ==
  ASSUME NEW S, NEW s \in Seq(Seq(S))
  PROVE  /\ FlattenSeq(s) \in Seq(S)
         /\ s # << >> => Len(s[1]) <= Len(FlattenSeq(s))
  <1> DEFINE m == Len(s)
             Solves(f) == f = [i \in 1 .. m |-> IF i = 1 THEN s[i] ELSE f[i - 1] \o s[i]]
  <1>1. m \in Nat /\ \A n \in 1 .. m : s[n] \in Seq(S)
    OBVIOUS
  <1>2. CASE m = 0
    BY <1>2 DEF FlattenSeq
  <1>3. CASE m # 0
    <2> DEFINE step == [x \in (1 .. m) \X Seq(S) |-> x[2] \o s[x[1]]]
    <2>1. step \in [(1 .. m) \X Seq(S) -> Seq(S)]
      <3>1. ASSUME NEW x \in (1 .. m) \X Seq(S)
            PROVE  x[2] \o s[x[1]] \in Seq(S)
        <4>1. x[2] \in Seq(S) /\ s[x[1]] \in Seq(S)
          BY <1>1
        <4> QED
          BY <4>1
      <3> HIDE DEF m
      <3> QED
        BY <3>1
    <2>20. PICK f : Iterates(f, m, Seq(S), << >>, step)
      <3>1. << >> \in Seq(S)
        OBVIOUS
      <3> DEFINE none == << >>
                 all == Seq(S)
      <3>2. \E f : Iterates(f, m, all, none, step)
        <4>1. none \in all /\ step \in [(1 .. m) \X all -> all]
          BY <2>1, <3>1
        <4> HIDE DEF m, step, none, all
        <4> QED
          BY <1>1, <4>1, Recursion
      <3> QED
        BY <3>2
    <2>2. /\ f \in [0 .. m -> Seq(S)] /\ f[0] = << >>
          /\ \A n \in 1 .. m : f[n] = step[<<n, f[n - 1]>>]
      <3> HIDE DEF m, step
      <3> QED
        BY <2>20 DEF Iterates
    <2>3. \A n \in 1 .. m : f[n] = f[n - 1] \o s[n] /\ f[n] \in Seq(S) /\ f[n - 1] \in Seq(S)
      <3>1. ASSUME NEW n \in 1 .. m
            PROVE  f[n] = f[n - 1] \o s[n] /\ f[n] \in Seq(S) /\ f[n - 1] \in Seq(S)
        <4>0. n \in 0 .. m /\ n - 1 \in 0 .. m
          BY <1>1
        <4>1. f[n - 1] \in Seq(S) /\ f[n] \in Seq(S)
          BY <2>2, <4>0
        <4>2. <<n, f[n - 1]>> \in (1 .. m) \X Seq(S)
          BY <4>1
        <4>3. step[<<n, f[n - 1]>>] = f[n - 1] \o s[n]
          BY <4>2
        <4> QED
          BY <2>2, <4>1, <4>3
      <3> QED
        BY <3>1
    <2> HIDE DEF step
    <2>4. 1 \in 1 .. m /\ f[1] = s[1]
      <3>1. 1 \in 1 .. m /\ 1 - 1 = 0
        BY <1>1, <1>3
      <3>2. f[1] = << >> \o s[1] /\ s[1] \in Seq(S)
        BY <1>1, <2>2, <2>3, <3>1
      <3>3. << >> \o s[1] = s[1]
        BY <3>2
      <3> QED
        BY <3>1, <3>2, <3>3
    <2> DEFINE h == [n \in 1 .. m |-> f[n]]
    <2>5. Solves(h)
      <3>1. \A i \in 1 .. m : h[i] = IF i = 1 THEN s[i] ELSE h[i - 1] \o s[i]
        <4>1. ASSUME NEW i \in 1 .. m
              PROVE  h[i] = IF i = 1 THEN s[i] ELSE h[i - 1] \o s[i]
          <5>1. CASE i = 1
            BY <2>4, <5>1
          <5>2. CASE i # 1
            <6>1. i - 1 \in 1 .. m /\ h[i - 1] = f[i - 1]
              BY <5>2
            <6> QED
              BY <2>3, <5>2, <6>1
          <5> QED
            BY <5>1, <5>2
        <4> QED
          BY <4>1
      <3>2. h = [n \in 1 .. m |-> h[n]]
        OBVIOUS
      <3> HIDE DEF h, m
      <3> QED
        BY <3>1, <3>2
    <2> DEFINE v == CHOOSE f_1 : Solves(f_1)
    <2>6. Solves(v)
      <3> HIDE DEF Solves, h
      <3> QED
        BY <2>5
    <2>7. FlattenSeq(s) = v[m]
      BY <1>3 DEF FlattenSeq
    <2> HIDE DEF v, h
    <2>8. \A i \in 1 .. m : v[i] = IF i = 1 THEN s[i] ELSE v[i - 1] \o s[i]
      BY <2>6
    <2> DEFINE G == { n \in 0 .. m : n = 0 \/ (v[n] \in Seq(S) /\ Len(s[1]) <= Len(v[n])) }
    <2>9. 0 \in G
      BY <1>1
    <2>10. ASSUME NEW n \in 1 .. m, n - 1 \in G
           PROVE  n \in G
      <3>1. CASE n = 1
        <4>1. v[1] = s[1] /\ s[1] \in Seq(S)
          BY <1>1, <2>4, <2>8
        <4>2. Len(s[1]) <= Len(v[1])
          BY <4>1
        <4> QED
          BY <1>1, <3>1, <4>1, <4>2
      <3>2. CASE n # 1
        <4>1. v[n] = v[n - 1] \o s[n] /\ s[n] \in Seq(S) /\ s[1] \in Seq(S)
          BY <1>1, <2>4, <2>8, <3>2
        <4>2. v[n - 1] \in Seq(S) /\ Len(s[1]) <= Len(v[n - 1])
          BY <2>10, <3>2
        <4> HIDE DEF m
        <4>3. /\ v[n] \in Seq(S) /\ Len(v[n]) = Len(v[n - 1]) + Len(s[n])
              /\ Len(v[n - 1]) \in Nat /\ Len(s[n]) \in Nat
          BY <4>1, <4>2, ConcatIn
        <4>4. Len(s[1]) \in Nat
          BY <4>1
        <4> DEFINE a == Len(s[1])
                   b == Len(v[n - 1])
                   c == Len(s[n])
                   d == Len(v[n])
        <4>5. a <= d
          <5>1. a \in Nat /\ b \in Nat /\ c \in Nat /\ a <= b /\ d = b + c
            BY <4>2, <4>3, <4>4
          <5> HIDE DEF a, b, c, d
          <5> QED
            BY <5>1
        <4>6. n \in 0 .. m
          BY <1>1
        <4> QED
          BY <4>3, <4>5, <4>6
      <3> QED
        BY <3>1, <3>2
    <2>11. m \in G
      <3> HIDE DEF G, m
      <3>1. 0 .. m \subseteq G
        BY <1>1, <2>9, <2>10, UpTo
      <3> QED
        BY <1>1, <3>1
    <2> QED
      BY <1>3, <2>7, <2>11
  <1> QED
    BY <1>2, <1>3

\* A list of one list.
LEMMA FlattenOne ==
  ASSUME NEW x
  PROVE  FlattenSeq(<<x>>) = x
  <1> DEFINE s == <<x>>
             Solves(f) == f = [i \in 1 .. Len(s) |-> IF i = 1 THEN s[i] ELSE f[i - 1] \o s[i]]
             v == CHOOSE f_1 : Solves(f_1)
  <1>1. Len(s) = 1 /\ s[1] = x
    OBVIOUS
  <1>2. Solves([i \in 1 .. 1 |-> x])
    <2>1. ASSUME NEW g, g = [i \in 1 .. 1 |-> x]
          PROVE  g = [i \in 1 .. 1 |-> IF i = 1 THEN s[i] ELSE g[i - 1] \o s[i]]
      <3> HIDE DEF s
      <3>1. \A i \in 1 .. 1 : i = 1
        OBVIOUS
      <3> QED
        BY <1>1, <2>1, <3>1
    <2> HIDE DEF s
    <2> QED
      BY <1>1, <2>1
  <1>3. Solves(v)
    <2> HIDE DEF Solves
    <2> QED
      BY <1>2
  <1>4. FlattenSeq(s) = v[Len(s)]
    BY <1>1 DEF FlattenSeq
  <1>5. v[1] = x
    <2> HIDE DEF v, s
    <2>1. 1 \in 1 .. Len(s)
      BY <1>1
    <2> QED
      BY <1>1, <1>3, <2>1
  <1> QED
    BY <1>1, <1>4, <1>5
=============================================================================
