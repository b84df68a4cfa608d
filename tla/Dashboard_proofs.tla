-------------------------- MODULE Dashboard_proofs --------------------------
(***************************************************************************)
(* Proofs about Dashboard, for any numbers of retries, switches, messages  *)
(* and dismissals and any length of the live list.                         *)
(***************************************************************************)
EXTENDS Dashboard, SequenceTheorems, WellFoundedInduction, TLAPS

-----------------------------------------------------------------------------
(* What the filter returns.  Its recursion is taken apart once, here.      *)

(* The order of the naturals has no infinite descent.                      *)
LEMMA LessThanIsWellFounded ==
  IsWellFoundedOn({ss \in Nat \X Nat : ss[1] < ss[2]}, Nat)
BY NatLessThanWellFounded DEF OpToRel

(* A non-empty set of numbers has a smallest member.                       *)
LEMMA SmallestExists ==
  ASSUME NEW N \in SUBSET Nat, N # {}
  PROVE  \E n \in N : \A m \in N : n <= m
<1> DEFINE Less == {ss \in Nat \X Nat : ss[1] < ss[2]}
<1>1. PICK n \in N : \A m \in N : ~(<<m, n>> \in Less)
  <2>1. IsWellFoundedOn(Less, Nat)
    BY LessThanIsWellFounded DEF Less
  <2> QED
    BY <2>1, WFMin, Zenon
<1>2. \A m \in N : n <= m
  <2> TAKE m \in N
  <2>1. m \in Nat /\ n \in Nat
    OBVIOUS
  <2>2. ~(m < n)
    BY <1>1, <2>1
  <2> QED
    BY <2>1, <2>2
<1> QED
  BY <1>2

(* Every sequence is reached from <<>> by appending.                       *)
LEMMA ByAppending ==
  ASSUME NEW X, NEW G, <<>> \in G,
         \A s \in Seq(X), x \in X : s \in G => Append(s, x) \in G
  PROVE  Seq(X) \subseteq G
<1> SUFFICES ASSUME Seq(X) \ G # {} PROVE FALSE
  OBVIOUS
<1> DEFINE N == {Len(s) : s \in Seq(X) \ G}
<1>1. N \in SUBSET Nat /\ N # {}
  BY LenProperties
<1>2. PICK n \in N : \A m \in N : n <= m
  <2> HIDE DEF N
  <2> QED
    BY <1>1, SmallestExists
<1>3. PICK s \in Seq(X) \ G : n = Len(s)
  OBVIOUS
<1>4. s # <<>>
  OBVIOUS
<1>5. PICK t \in Seq(X), x \in X : s = Append(t, x)
  BY <1>4, SequenceEmptyOrAppend
<1>6. Len(t) \in Nat /\ Len(s) = Len(t) + 1
  BY <1>5, AppendProperties, LenProperties
<1>7. t \notin G
  BY <1>5
<1>8. Len(t) \in N
  BY <1>7
<1>9. n <= Len(t)
  BY <1>2, <1>8
<1> QED
  BY <1>3, <1>6, <1>9

(* The function that Only computes with.                                   *)
UpTo(s, S, f) ==
  f = [i \in 0..Len(s) |->
         IF i = 0 THEN <<>>
         ELSE IF s[i] \in S THEN Append(f[i - 1], s[i]) ELSE f[i - 1]]

(* It is determined by its recursion.                                      *)
LEMMA UpToUnique ==
  ASSUME NEW s, NEW S, Len(s) \in Nat, NEW f, NEW g, UpTo(s, S, f), UpTo(s, S, g)
  PROVE  f[Len(s)] = g[Len(s)]
<1> SUFFICES ASSUME f[Len(s)] # g[Len(s)] PROVE FALSE
  OBVIOUS
<1> DEFINE N == {i \in 0..Len(s) : f[i] # g[i]}
<1>1. N \in SUBSET Nat /\ N # {}
  OBVIOUS
<1>2. PICK k \in N : \A m \in N : k <= m
  <2> HIDE DEF N
  <2> QED
    BY <1>1, SmallestExists
<1>3. k \in 0..Len(s) /\ f[k] # g[k]
  OBVIOUS
<1>4. /\ f[k] = IF k = 0 THEN <<>>
                ELSE IF s[k] \in S THEN Append(f[k - 1], s[k]) ELSE f[k - 1]
      /\ g[k] = IF k = 0 THEN <<>>
                ELSE IF s[k] \in S THEN Append(g[k - 1], s[k]) ELSE g[k - 1]
  BY <1>3 DEF UpTo
<1>5. k # 0
  BY <1>3, <1>4
<1>6. k - 1 \in 0..Len(s) /\ ~(k <= k - 1)
  BY <1>3, <1>5
<1>7. f[k - 1] = g[k - 1]
  BY <1>2, <1>6
<1> QED
  BY <1>3, <1>4, <1>5, <1>7

(* So the filter is any function that satisfies the recursion.             *)
LEMMA OnlyIs ==
  ASSUME NEW X, NEW s \in Seq(X), NEW S, NEW f, UpTo(s, S, f)
  PROVE  Only(s, S) = f[Len(s)]
<1> DEFINE g == CHOOSE g : UpTo(s, S, g)
<1>1. Len(s) \in Nat
  BY LenProperties
<1>2. UpTo(s, S, g)
  <2>1. \E h : UpTo(s, S, h)
    OBVIOUS
  <2> QED
    BY <2>1
<1>3. Only(s, S) = g[Len(s)]
  BY DEF Only, UpTo
<1> HIDE DEF g
<1> QED
  BY <1>1, <1>2, <1>3, UpToUnique

(* One more element: of the function, ...                                  *)
LEMMA UpToAppend ==
  ASSUME NEW X, NEW s \in Seq(X), NEW x \in X, NEW S, NEW f, UpTo(s, S, f)
  PROVE  LET n == Len(s) + 1
             g == [i \in 0..n |-> IF i \in 0..Len(s) THEN f[i]
                                  ELSE IF x \in S THEN Append(f[Len(s)], x) ELSE f[Len(s)]]
         IN  UpTo(Append(s, x), S, g)
<1> DEFINE n == Len(s) + 1
           t == Append(s, x)
           g == [i \in 0..n |-> IF i \in 0..Len(s) THEN f[i]
                                ELSE IF x \in S THEN Append(f[Len(s)], x) ELSE f[Len(s)]]
<1>1. /\ Len(s) \in Nat /\ Len(t) = n /\ t[n] = x
      /\ \A i \in 1..Len(s) : t[i] = s[i]
  BY AppendProperties, LenProperties
<1>2. \A i \in 0..Len(s) : f[i] = IF i = 0 THEN <<>>
                                  ELSE IF s[i] \in S THEN Append(f[i - 1], s[i]) ELSE f[i - 1]
  BY DEF UpTo
<1> HIDE DEF t
<1>3. ASSUME NEW i \in 0..n
      PROVE  g[i] = IF i = 0 THEN <<>>
                    ELSE IF t[i] \in S THEN Append(g[i - 1], t[i]) ELSE g[i - 1]
  <2>1. CASE i = 0
    BY <1>1, <1>2, <2>1
  <2>2. CASE i \in 1..Len(s)
    <3>1. i - 1 \in 0..Len(s) /\ i - 1 \in 0..n /\ i \in 0..Len(s) /\ i # 0
      BY <1>1, <2>2
    <3>2. g[i] = f[i] /\ g[i - 1] = f[i - 1] /\ t[i] = s[i]
      BY <1>1, <2>2, <3>1
    <3> HIDE DEF g
    <3> QED
      BY <1>2, <3>1, <3>2
  <2>3. CASE i = n
    <3>1. i - 1 = Len(s) /\ i # 0 /\ i - 1 \in 0..n /\ i - 1 \in 0..Len(s) /\ i \notin 0..Len(s)
      BY <1>1, <2>3
    <3>2. g[i - 1] = f[Len(s)]
      BY <1>1, <3>1
    <3>3. g[i] = IF x \in S THEN Append(f[Len(s)], x) ELSE f[Len(s)]
      BY <3>1
    <3> HIDE DEF g
    <3> QED
      BY <1>1, <2>3, <3>1, <3>2, <3>3
  <2> QED
    BY <1>1, <2>1, <2>2, <2>3
<1>4. g = [i \in 0..n |-> IF i = 0 THEN <<>>
                          ELSE IF t[i] \in S THEN Append(g[i - 1], t[i]) ELSE g[i - 1]]
  <2>1. g = [i \in 0..n |-> g[i]]
    OBVIOUS
  <2> HIDE DEF g
  <2> QED
    BY <1>3, <2>1
<1> HIDE DEF g
<1>5. UpTo(t, S, g)
  BY <1>1, <1>4 DEF UpTo
<1> QED
  BY <1>5 DEF t, g

(* There is one for every sequence.                                        *)
LEMMA UpToExists ==
  ASSUME NEW X, NEW S, NEW s \in Seq(X)
  PROVE  \E f : UpTo(s, S, f)
<1> DEFINE G == {t \in Seq(X) : \E f : UpTo(t, S, f)}
<1>1. <<>> \in G
  <2>1. <<>> \in Seq(X) /\ Len(<<>>) = 0
    BY EmptySeq
  <2>2. UpTo(<<>>, S, [i \in 0..0 |-> <<>>])
    BY <2>1 DEF UpTo
  <2> QED
    BY <2>1, <2>2
<1>2. \A t \in Seq(X), x \in X : t \in G => Append(t, x) \in G
  BY UpToAppend, AppendProperties
<1> HIDE DEF G
<1>3. s \in G
  BY <1>1, <1>2, ByAppending
<1> QED
  BY <1>3 DEF G

(* ... and of the result.                                                  *)
LEMMA OnlyEmpty == ASSUME NEW S PROVE Only(<<>>, S) = <<>>
<1>1. <<>> \in Seq({}) /\ Len(<<>>) = 0
  BY EmptySeq
<1>2. UpTo(<<>>, S, [i \in 0..0 |-> <<>>])
  BY <1>1 DEF UpTo
<1>3. Only(<<>>, S) = [i \in 0..0 |-> <<>>][0]
  BY <1>1, <1>2, OnlyIs
<1> QED
  BY <1>3

(* One more element is kept or not.                                        *)
LEMMA OnlyAppend ==
  ASSUME NEW X, NEW s \in Seq(X), NEW x \in X, NEW S
  PROVE  Only(Append(s, x), S) = IF x \in S THEN Append(Only(s, S), x) ELSE Only(s, S)
<1>1. PICK f : UpTo(s, S, f)
  BY UpToExists
<1>2. Len(s) \in Nat /\ Append(s, x) \in Seq(X) /\ Len(Append(s, x)) = Len(s) + 1
  BY AppendProperties, LenProperties
<1> DEFINE g == [i \in 0..(Len(s) + 1) |->
                   IF i \in 0..Len(s) THEN f[i]
                   ELSE IF x \in S THEN Append(f[Len(s)], x) ELSE f[Len(s)]]
<1>3. UpTo(Append(s, x), S, g)
  BY <1>1, UpToAppend
<1>4. g[Len(s) + 1] = IF x \in S THEN Append(f[Len(s)], x) ELSE f[Len(s)]
  BY <1>2
<1> HIDE DEF g
<1>5. Only(Append(s, x), S) = g[Len(s) + 1]
  BY <1>2, <1>3, OnlyIs
<1>6. Only(s, S) = f[Len(s)]
  BY <1>1, OnlyIs
<1> QED
  BY <1>4, <1>5, <1>6

(* The result holds members of S only.                                     *)
LEMMA OnlyType ==
  ASSUME NEW X, NEW S, NEW s \in Seq(X)
  PROVE  Only(s, S) \in Seq(X \cap S)
<1> DEFINE G == {t \in Seq(X) : Only(t, S) \in Seq(X \cap S)}
<1>1. <<>> \in G
  BY OnlyEmpty, EmptySeq
<1>2. ASSUME NEW t \in Seq(X), NEW x \in X, t \in G
      PROVE  Append(t, x) \in G
  <2>1. Only(t, S) \in Seq(X \cap S) /\ Append(t, x) \in Seq(X)
    BY <1>2, AppendProperties
  <2>2. CASE x \in S
    <3>1. x \in X \cap S
      BY <2>2
    <3>2. Append(Only(t, S), x) \in Seq(X \cap S)
      BY <2>1, <3>1, AppendProperties
    <3> QED
      BY <2>1, <2>2, <3>2, OnlyAppend
  <2>3. CASE x \notin S
    BY <2>1, <2>3, OnlyAppend
  <2> QED
    BY <2>2, <2>3
<1> HIDE DEF G
<1>3. s \in G
  BY <1>1, <1>2, ByAppending
<1> QED
  BY <1>3 DEF G

(* What it returns depends on S only for the members of s.                 *)
LEMMA OnlySame ==
  ASSUME NEW X, NEW S, NEW T, \A x \in X : x \in S <=> x \in T, NEW s \in Seq(X)
  PROVE  Only(s, S) = Only(s, T)
<1> DEFINE G == {t \in Seq(X) : Only(t, S) = Only(t, T)}
<1>1. <<>> \in G
  BY OnlyEmpty, EmptySeq
<1>2. ASSUME NEW t \in Seq(X), NEW x \in X, t \in G
      PROVE  Append(t, x) \in G
  <2>1. Only(t, S) = Only(t, T) /\ Append(t, x) \in Seq(X) /\ (x \in S <=> x \in T)
    BY <1>2, AppendProperties
  <2>2. /\ Only(Append(t, x), S) = IF x \in S THEN Append(Only(t, S), x) ELSE Only(t, S)
        /\ Only(Append(t, x), T) = IF x \in T THEN Append(Only(t, T), x) ELSE Only(t, T)
    BY OnlyAppend
  <2> QED
    BY <2>1, <2>2
<1> HIDE DEF G
<1>3. s \in G
  BY <1>1, <1>2, ByAppending
<1> QED
  BY <1>3 DEF G

(* S and T hold the same of the first n positions.                         *)
Agree(n, S, T) == \A m \in 1..n : m \in S <=> m \in T

(* A filter sees no difference between sets that agree on its positions.   *)
LEMMA OnlySameTo ==
  ASSUME NEW n, NEW S, NEW T, Agree(n, S, T), NEW s \in Seq(1..n)
  PROVE  Only(s, S) = Only(s, T)
<1> DEFINE X == 1..n
<1>1. s \in Seq(X) /\ \A m \in X : m \in S <=> m \in T
  BY DEF Agree
<1> HIDE DEF X
<1> QED
  BY <1>1, OnlySame

(* A sequence over a set is one over any larger set.                       *)
LEMMA Widened ==
  ASSUME NEW X, NEW Y, X \subseteq Y, NEW s \in Seq(X)
  PROVE  s \in Seq(Y)
OBVIOUS

(* The concatenations that the proofs below meet.                          *)
LEMMA Joined ==
  ASSUME NEW X, NEW s \in Seq(X), NEW t \in Seq(X)
  PROVE  /\ s \o t \in Seq(X) /\ Len(s \o t) = Len(s) + Len(t)
         /\ s \o <<>> = s /\ <<>> \o s = s
OBVIOUS

(* One more at the end.                                                    *)
LEMMA JoinedOne ==
  ASSUME NEW X, NEW s \in Seq(X), NEW x \in X
  PROVE  <<x>> \in Seq(X) /\ s \o <<x>> = Append(s, x)
OBVIOUS

(* It does not matter which two are joined first ...                       *)
LEMMA Associative ==
  ASSUME NEW s \in Seq(Nat), NEW t \in Seq(Nat), NEW u \in Seq(Nat)
  PROVE  (s \o t) \o u = s \o (t \o u)
OBVIOUS

(* ... also when the last is a single one.                                 *)
LEMMA JoinedAppend ==
  ASSUME NEW X, NEW s \in Seq(X), NEW t \in Seq(X), NEW x \in X
  PROVE  s \o Append(t, x) = Append(s \o t, x)
OBVIOUS

(* Positions stay positions.                                               *)
LEMMA OnlyNumbers ==
  ASSUME NEW s \in Seq(Nat), NEW S
  PROVE  Only(s, S) \in Seq(Nat)
<1>1. Only(s, S) \in Seq(Nat \cap S)
  BY OnlyType
<1>2. Nat \cap S \subseteq Nat
  OBVIOUS
<1> QED
  BY <1>1, <1>2, Widened

(* Filtering two parts is filtering the whole.                             *)
LEMMA OnlyConcat ==
  ASSUME NEW X, NEW S, NEW s \in Seq(X), NEW t \in Seq(X)
  PROVE  Only(s \o t, S) = Only(s, S) \o Only(t, S)
<1> DEFINE G == {u \in Seq(X) : Only(s \o u, S) = Only(s, S) \o Only(u, S)}
<1>0. Only(s, S) \in Seq(X \cap S)
  BY OnlyType
<1>1. <<>> \in G
  <2>1. <<>> \in Seq(X) /\ <<>> \in Seq(X \cap S)
    BY EmptySeq
  <2>2. s \o <<>> = s /\ Only(s, S) \o <<>> = Only(s, S)
    BY <1>0, <2>1, Joined
  <2> QED
    BY <2>1, <2>2, OnlyEmpty
<1>2. ASSUME NEW u \in Seq(X), NEW x \in X, u \in G
      PROVE  Append(u, x) \in G
  <2>1. /\ Only(s \o u, S) = Only(s, S) \o Only(u, S)
        /\ Append(u, x) \in Seq(X) /\ s \o u \in Seq(X)
        /\ s \o Append(u, x) = Append(s \o u, x)
    <3>1. Only(s \o u, S) = Only(s, S) \o Only(u, S)
      BY <1>2
    <3> HIDE DEF G
    <3>2. Append(u, x) \in Seq(X)
      BY AppendProperties
    <3>3. s \o u \in Seq(X)
      BY Joined
    <3>4. s \o Append(u, x) = Append(s \o u, x)
      BY JoinedAppend
    <3> QED
      BY <3>1, <3>2, <3>3, <3>4
  <2>2. Only(u, S) \in Seq(X \cap S)
    BY OnlyType
  <2>3. Only(Append(s \o u, x), S)
          = IF x \in S THEN Append(Only(s \o u, S), x) ELSE Only(s \o u, S)
    <3>1. s \o u \in Seq(X)
      BY <2>1
    <3> HIDE DEF G
    <3> QED
      BY <3>1, OnlyAppend, Zenon
  <2>4. Only(Append(u, x), S) = IF x \in S THEN Append(Only(u, S), x) ELSE Only(u, S)
    BY OnlyAppend
  <2>5. CASE x \in S
    <3>1. x \in X \cap S
      BY <2>5
    <3>2. Only(s, S) \o Append(Only(u, S), x) = Append(Only(s, S) \o Only(u, S), x)
      BY <1>0, <2>2, <3>1, JoinedAppend
    <3> QED
      BY <2>1, <2>3, <2>4, <2>5, <3>2
  <2>6. CASE x \notin S
    BY <2>1, <2>3, <2>4, <2>6
  <2> QED
    BY <2>5, <2>6
<1> HIDE DEF G
<1>3. t \in G
  BY <1>1, <1>2, ByAppending
<1> QED
  BY <1>3 DEF G

(* The same for messages, which are numbers.                               *)
LEMMA OnlyJoined ==
  ASSUME NEW S, NEW s \in Seq(Nat), NEW t \in Seq(Nat)
  PROVE  Only(s \o t, S) = Only(s, S) \o Only(t, S)
<1> DEFINE X == Nat
<1>1. s \in Seq(X) /\ t \in Seq(X)
  OBVIOUS
<1> HIDE DEF X
<1> QED
  BY <1>1, OnlyConcat

(* A single message.                                                       *)
LEMMA OnlyOne ==
  ASSUME NEW x, NEW S
  PROVE  Only(<<x>>, S) = IF x \in S THEN <<x>> ELSE <<>>
<1>1. x \in {x} /\ <<>> \in Seq({x}) /\ Append(<<>>, x) = <<x>>
  BY EmptySeq
<1>2. Only(Append(<<>>, x), S)
        = IF x \in S THEN Append(Only(<<>>, S), x) ELSE Only(<<>>, S)
  BY <1>1, OnlyAppend, Zenon
<1> QED
  BY <1>1, <1>2, OnlyEmpty

-----------------------------------------------------------------------------
(* The live list keeps the last Cap: cutting early changes nothing.        *)

(* A list within Cap is not cut.                                           *)
LEMMA LastOnesShort ==
  ASSUME NEW X, NEW s \in Seq(X), Len(s) <= Cap
  PROVE  LastOnes(s) = s
<1>1. ~(Len(s) > Cap)
  BY LenProperties, DashboardAssumption
<1>2. LastOnes(s) = SubSeq(s, 1, Len(s))
  BY <1>1 DEF LastOnes
<1>3. SubSeq(s, 1, Len(s)) = s
  OBVIOUS
<1> QED
  BY <1>2, <1>3

(* A longer one keeps its end.                                             *)
LEMMA LastOnesLong ==
  ASSUME NEW X, NEW s \in Seq(X), NEW n \in Nat, Len(s) = Cap + n
  PROVE  /\ LastOnes(s) \in Seq(X) /\ Len(LastOnes(s)) = Cap
         /\ \A i \in 1..Cap : LastOnes(s)[i] = s[n + i]
<1>1. Cap \in Nat \ {0}
  BY DashboardAssumption
<1> DEFINE m == n + 1
           k == Cap + n
           r == SubSeq(s, m, k)
<1>2. LastOnes(s) = r
  <2>1. (IF Len(s) > Cap THEN Len(s) - Cap + 1 ELSE 1) = n + 1
    BY <1>1
  <2> QED
    BY <2>1 DEF LastOnes
<1>3. \A i \in m..k : s[i] \in X
  <2>1. \A i \in m..k : i \in 1..Len(s)
    BY <1>1
  <2> QED
    BY <2>1, ElementOfSeq
<1>4. /\ m \in Int /\ k \in Int /\ m <= k /\ k - m + 1 = Cap
      /\ \A i \in 1..Cap : m + i - 1 = n + i
  BY <1>1
<1> HIDE DEF m, k
<1>5. /\ r \in Seq(X)
      /\ Len(r) = IF m <= k THEN k - m + 1 ELSE 0
      /\ \A i \in 1..(k - m + 1) : r[i] = s[m + i - 1]
  BY <1>3, <1>4, SubSeqProperties
<1> HIDE DEF r
<1>6. /\ r \in Seq(X) /\ Len(r) = Cap
      /\ \A i \in 1..Cap : r[i] = s[n + i]
  BY <1>4, <1>5
<1> QED
  BY <1>2, <1>6 DEF r

(* Cutting adds nothing.                                                   *)
LEMMA LastOnesType ==
  ASSUME NEW X, NEW s \in Seq(X)
  PROVE  LastOnes(s) \in Seq(X)
<1>1. CASE Len(s) <= Cap
  BY <1>1, LastOnesShort
<1>2. CASE ~(Len(s) <= Cap)
  <2>1. Len(s) - Cap \in Nat /\ Len(s) = Cap + (Len(s) - Cap)
    BY <1>2, LenProperties, DashboardAssumption
  <2> QED
    BY <2>1, LastOnesLong
<1> QED
  BY <1>1, <1>2

(* Cutting before more is added is the same as cutting afterwards.         *)
LEMMA LastOnesJoined ==
  ASSUME NEW X, NEW s \in Seq(X), NEW t \in Seq(X)
  PROVE  LastOnes(LastOnes(s) \o t) = LastOnes(s \o t)
<1> DEFINE r == LastOnes(s)
           n == Len(s) - Cap
<1>1. Len(s) \in Nat /\ Len(t) \in Nat /\ Cap \in Nat \ {0} /\ r \in Seq(X)
  BY LenProperties, DashboardAssumption, LastOnesType
<1>2. CASE Len(s) <= Cap
  BY <1>2, LastOnesShort
<1>3. CASE ~(Len(s) <= Cap)
  <2>1. n \in Nat /\ Len(s) = Cap + n /\ n + Len(t) \in Nat
    BY <1>1, <1>3
  <2> HIDE DEF n
  <2>2. Len(r) = Cap /\ \A i \in 1..Cap : r[i] = s[n + i]
    BY <2>1, LastOnesLong
  <2> HIDE DEF r
  <2> DEFINE v == r \o t
             u == s \o t
  <2>3. /\ v \in Seq(X) /\ Len(v) = Cap + Len(t)
        /\ \A i \in 1..(Cap + Len(t)) : v[i] = IF i <= Cap THEN r[i] ELSE t[i - Cap]
    BY <1>1, <2>2, ConcatProperties
  <2>4. /\ u \in Seq(X) /\ Len(u) = Len(s) + Len(t)
        /\ \A i \in 1..(Len(s) + Len(t)) : u[i] = IF i <= Len(s) THEN s[i] ELSE t[i - Len(s)]
    BY ConcatProperties
  <2> HIDE DEF v, u
  <2>5. ASSUME NEW i \in 1..(Cap + Len(t))
        PROVE  v[i] = u[n + i]
    <3>1. PICK j \in 1..(Len(s) + Len(t)) :
            j = n + i /\ (j <= Len(s) <=> i <= Cap) /\ j - Len(s) = i - Cap
      BY <1>1, <2>1
    <3>2. v[i] = IF i <= Cap THEN r[i] ELSE t[i - Cap]
      BY <2>3
    <3>3. u[j] = IF j <= Len(s) THEN s[j] ELSE t[j - Len(s)]
      BY <2>4
    <3>4. i <= Cap => r[i] = s[j]
      BY <2>2, <3>1
    <3> QED
      BY <3>1, <3>2, <3>3, <3>4
  <2>6. /\ LastOnes(v) \in Seq(X) /\ Len(LastOnes(v)) = Cap
        /\ \A i \in 1..Cap : LastOnes(v)[i] = v[Len(t) + i]
    BY <1>1, <2>3, LastOnesLong
  <2>7. Len(u) = Cap + (n + Len(t))
    BY <1>1, <2>1, <2>4
  <2>8. /\ LastOnes(u) \in Seq(X) /\ Len(LastOnes(u)) = Cap
        /\ \A i \in 1..Cap : LastOnes(u)[i] = u[n + Len(t) + i]
    BY <2>1, <2>4, <2>7, LastOnesLong
  <2>9. ASSUME NEW i \in 1..Cap
        PROVE  LastOnes(v)[i] = LastOnes(u)[i]
    <3>1. Len(t) + i \in 1..(Cap + Len(t)) /\ n + (Len(t) + i) = n + Len(t) + i
      BY <1>1, <2>1
    <3>2. v[Len(t) + i] = u[n + (Len(t) + i)]
      BY <2>5, <3>1
    <3> QED
      BY <2>6, <2>8, <3>1, <3>2
  <2>10. LastOnes(v) = LastOnes(u)
    BY <2>6, <2>8, <2>9, SeqEqual
  <2> QED
    BY <2>10 DEF r, u, v
<1> QED
  BY <1>2, <1>3

(* So two lists that agree go on agreeing when the same is added.          *)
LEMMA LastOnesExtended ==
  ASSUME NEW X, NEW s \in Seq(X), NEW t \in Seq(X), NEW u \in Seq(X),
         LastOnes(s) = LastOnes(t)
  PROVE  LastOnes(s \o u) = LastOnes(t \o u)
BY LastOnesJoined

-----------------------------------------------------------------------------
(* Positions in order.                                                     *)

Ascending(s) == \A i, j \in DOMAIN s : i < j => s[i] < s[j]
Below(s, x) == \A i \in DOMAIN s : s[i] < x

(* One more position keeps the order if it is beyond all others.           *)
LEMMA AscendingAppend ==
  ASSUME NEW s \in Seq(Nat), NEW x \in Nat
  PROVE  /\ Ascending(Append(s, x)) <=> Ascending(s) /\ Below(s, x)
         /\ \A y \in Nat : Below(Append(s, x), y) <=> Below(s, y) /\ x < y
<1> DEFINE t == Append(s, x)
<1>1. /\ Len(s) \in Nat /\ DOMAIN s = 1..Len(s) /\ DOMAIN t = 1..(Len(s) + 1)
      /\ \A i \in 1..Len(s) : t[i] = s[i] /\ i \in DOMAIN t
      /\ t[Len(s) + 1] = x /\ Len(s) + 1 \in DOMAIN t
      /\ \A i \in DOMAIN t : i \in DOMAIN s \/ i = Len(s) + 1
      /\ \A i \in DOMAIN s : s[i] \in Nat /\ i < Len(s) + 1 /\ ~(Len(s) + 1 < i)
  BY AppendProperties, LenProperties, ElementOfSeq
<1> HIDE DEF t
<1>2. Ascending(t) => Ascending(s) /\ Below(s, x)
  BY <1>1 DEF Ascending, Below
<1>3. Ascending(s) /\ Below(s, x) => Ascending(t)
  BY <1>1 DEF Ascending, Below
<1>4. \A y \in Nat : Below(t, y) <=> Below(s, y) /\ x < y
  BY <1>1 DEF Below
<1> QED
  BY <1>2, <1>3, <1>4 DEF t

(* Filtering the end keeps the order.                                      *)
LEMMA AscendingOnly ==
  ASSUME NEW S, NEW s \in Seq(Nat), NEW t \in Seq(Nat), Ascending(s \o t)
  PROVE  Ascending(s \o Only(t, S))
<1> DEFINE G == {u \in Seq(Nat) :
                   /\ Ascending(s \o u) => Ascending(s \o Only(u, S))
                   /\ \A y \in Nat : Below(s \o u, y) => Below(s \o Only(u, S), y)}
<1>1. <<>> \in G
  BY OnlyEmpty, EmptySeq
<1>2. ASSUME NEW u \in Seq(Nat), NEW x \in Nat, u \in G
      PROVE  Append(u, x) \in G
  <2>1. /\ Ascending(s \o u) => Ascending(s \o Only(u, S))
        /\ \A y \in Nat : Below(s \o u, y) => Below(s \o Only(u, S), y)
    BY <1>2
  <2> HIDE DEF G
  <2>2. Only(u, S) \in Seq(Nat)
    <3>1. Only(u, S) \in Seq(Nat \cap S)
      BY OnlyType
    <3> QED
      BY <3>1
  <2> DEFINE a == s \o u
             b == s \o Only(u, S)
  <2>3. a \in Seq(Nat) /\ b \in Seq(Nat)
    BY <2>2, Joined
  <2>4. s \o Append(u, x) = Append(a, x) /\ s \o Append(Only(u, S), x) = Append(b, x)
    <3>1. \A w \in Seq(Nat) : s \o Append(w, x) = Append(s \o w, x)
      BY JoinedAppend
    <3> QED
      BY <2>2, <3>1
  <2>5. Only(Append(u, x), S) = IF x \in S THEN Append(Only(u, S), x) ELSE Only(u, S)
    BY OnlyAppend
  <2>6. Append(u, x) \in Seq(Nat)
    BY AppendProperties
  <2> HIDE DEF a, b
  <2>7. /\ Ascending(Append(a, x)) <=> Ascending(a) /\ Below(a, x)
        /\ \A y \in Nat : Below(Append(a, x), y) <=> Below(a, y) /\ x < y
        /\ Ascending(Append(b, x)) <=> Ascending(b) /\ Below(b, x)
        /\ \A y \in Nat : Below(Append(b, x), y) <=> Below(b, y) /\ x < y
    BY <2>3, AscendingAppend
  <2>8. /\ Ascending(a) => Ascending(b)
        /\ \A y \in Nat : Below(a, y) => Below(b, y)
    BY <2>1 DEF a, b
  <2>9. s \o Only(Append(u, x), S) = IF x \in S THEN Append(b, x) ELSE b
    BY <2>4, <2>5 DEF b
  <2>10. /\ Ascending(s \o Append(u, x)) => Ascending(s \o Only(Append(u, x), S))
         /\ \A y \in Nat : Below(s \o Append(u, x), y)
                             => Below(s \o Only(Append(u, x), S), y)
    BY <2>4, <2>7, <2>8, <2>9
  <2> QED
    BY <2>6, <2>10 DEF G
<1> HIDE DEF G
<1>3. t \in G
  BY <1>1, <1>2, ByAppending
<1> QED
  BY <1>3 DEF G

(* What RemoveAt leaves.                                                   *)
LEMMA Removed ==
  ASSUME NEW X, NEW n \in Nat, NEW s \in Seq(X), Len(s) = n + 1, NEW k \in 1..(n + 1)
  PROVE  /\ RemoveAt(s, k) \in Seq(X) /\ Len(RemoveAt(s, k)) = n
         /\ \A i \in 1..n : RemoveAt(s, k)[i] = IF i < k THEN s[i] ELSE s[i + 1]
<1>1. \A i \in 1..(n + 1) : s[i] \in X
  BY ElementOfSeq
<1>2. PICK l \in Int, m \in Int, z \in Int : l = k - 1 /\ m = k + 1 /\ z = n + 1
  OBVIOUS
<1> DEFINE a == SubSeq(s, 1, l)
           b == SubSeq(s, m, z)
           c == a \o b
<1>3. /\ a \in Seq(X) /\ Len(a) = IF 1 <= l THEN l - 1 + 1 ELSE 0
      /\ \A i \in 1..(l - 1 + 1) : a[i] = s[1 + i - 1]
  <2>1. \A i \in 1..l : s[i] \in X
    BY <1>1, <1>2
  <2> QED
    BY <2>1, SubSeqProperties
<1>4. /\ b \in Seq(X) /\ Len(b) = IF m <= z THEN z - m + 1 ELSE 0
      /\ \A i \in 1..(z - m + 1) : b[i] = s[m + i - 1]
  <2>1. \A i \in m..z : s[i] \in X
    BY <1>1, <1>2
  <2> QED
    BY <1>2, <2>1, SubSeqProperties
<1>5. RemoveAt(s, k) = c
  BY <1>2 DEF RemoveAt
<1> HIDE DEF a, b
<1>6. /\ a \in Seq(X) /\ Len(a) = k - 1
      /\ \A i \in 1..(k - 1) : a[i] = s[i]
  <2>1. \A i \in 1..(k - 1) : i \in 1..(l - 1 + 1) /\ 1 + i - 1 = i
    BY <1>2
  <2>2. Len(a) = k - 1
    BY <1>2, <1>3
  <2> QED
    BY <1>3, <2>1, <2>2
<1>7. /\ b \in Seq(X) /\ Len(b) = n + 1 - k
      /\ \A i \in 1..(n + 1 - k) : b[i] = s[k + i]
  <2>1. \A i \in 1..(n + 1 - k) : i \in 1..(z - m + 1) /\ m + i - 1 = k + i
    BY <1>2
  <2>2. Len(b) = n + 1 - k
    BY <1>2, <1>4
  <2> QED
    BY <1>4, <2>1, <2>2
<1>8. /\ c \in Seq(X) /\ Len(c) = Len(a) + Len(b)
      /\ \A i \in 1..(Len(a) + Len(b)) : c[i] = IF i <= Len(a) THEN a[i] ELSE b[i - Len(a)]
  BY <1>3, <1>4, ConcatProperties
<1> HIDE DEF c
<1>9. Len(a) + Len(b) = n
  BY <1>6, <1>7
<1>10. ASSUME NEW i \in 1..n
       PROVE  c[i] = IF i < k THEN s[i] ELSE s[i + 1]
  <2>1. c[i] = IF i <= Len(a) THEN a[i] ELSE b[i - Len(a)]
    BY <1>8, <1>9
  <2>2. CASE i < k
    <3>1. i <= Len(a) /\ i \in 1..(k - 1)
      BY <1>6, <2>2
    <3> QED
      BY <1>6, <2>1, <2>2, <3>1
  <2>3. CASE ~(i < k)
    <3>1. PICK j \in 1..(n + 1 - k) : j = i - Len(a) /\ k + j = i + 1
      BY <1>6, <2>3
    <3>2. ~(i <= Len(a))
      BY <1>6, <2>3
    <3> QED
      BY <1>7, <2>1, <2>3, <3>1, <3>2
  <2> QED
    BY <2>2, <2>3
<1>11. Len(c) = n
  BY <1>8, <1>9
<1> QED
  BY <1>5, <1>8, <1>10, <1>11

(* A dismissal keeps the order.                                            *)
LEMMA AscendingRemoved ==
  ASSUME NEW n \in Nat, NEW s \in Seq(Nat), Len(s) = n + 1, NEW k \in 1..(n + 1),
         NEW t \in Seq(Nat), Ascending(s \o t)
  PROVE  Ascending(RemoveAt(s, k) \o t)
<1> DEFINE r == RemoveAt(s, k)
           a == s \o t
           b == r \o t
<1>1. /\ r \in Seq(Nat) /\ Len(r) = n
      /\ \A i \in 1..n : r[i] = IF i < k THEN s[i] ELSE s[i + 1]
  <2> DEFINE N == Nat
  <2>1. s \in Seq(N)
    OBVIOUS
  <2> HIDE DEF N
  <2>2. /\ r \in Seq(N) /\ Len(r) = n
        /\ \A i \in 1..n : r[i] = IF i < k THEN s[i] ELSE s[i + 1]
    BY <2>1, Removed
  <2> QED
    BY <2>2 DEF N
<1> HIDE DEF r
<1>2. PICK m \in Nat : m = Len(t)
  BY LenProperties
<1>3. /\ a \in Seq(Nat) /\ Len(a) = n + 1 + m
      /\ \A i \in 1..(n + 1 + m) : a[i] = IF i <= n + 1 THEN s[i] ELSE t[i - (n + 1)]
  <2>1. /\ a \in Seq(Nat) /\ Len(a) = Len(s) + Len(t)
        /\ \A i \in 1..(Len(s) + Len(t)) : a[i] = IF i <= Len(s) THEN s[i] ELSE t[i - Len(s)]
    BY ConcatProperties
  <2> HIDE DEF a
  <2> QED
    BY <1>2, <2>1
<1>4. /\ b \in Seq(Nat) /\ Len(b) = n + m
      /\ \A i \in 1..(n + m) : b[i] = IF i <= n THEN r[i] ELSE t[i - n]
  BY <1>1, <1>2, ConcatProperties
<1> HIDE DEF a, b
<1>5. DOMAIN a = 1..(n + 1 + m) /\ DOMAIN b = 1..(n + m)
  BY <1>3, <1>4, LenProperties
<1> DEFINE From(i) == IF i < k THEN i ELSE i + 1
<1>6. ASSUME NEW i \in 1..(n + m)
      PROVE  From(i) \in 1..(n + 1 + m) /\ b[i] = a[From(i)]
  <2>1. PICK j \in 1..(n + 1 + m) : j = From(i)
    OBVIOUS
  <2>2. b[i] = IF i <= n THEN r[i] ELSE t[i - n]
    BY <1>4
  <2>3. a[j] = IF j <= n + 1 THEN s[j] ELSE t[j - (n + 1)]
    BY <1>3
  <2>4. i <= n => i \in 1..n /\ j <= n + 1 /\ j = From(i)
    BY <2>1
  <2>5. i <= n => r[i] = s[j]
    BY <1>1, <2>4
  <2>6. ~(i <= n) => ~(j <= n + 1) /\ j - (n + 1) = i - n
    BY <2>1
  <2> QED
    BY <2>1, <2>2, <2>3, <2>4, <2>5, <2>6
<1>7. \A i, j \in 1..(n + m) : i < j => From(i) < From(j)
  OBVIOUS
<1> HIDE DEF From
<1>8. Ascending(a)
  BY DEF a
<1>9. Ascending(b)
  BY <1>5, <1>6, <1>7, <1>8 DEF Ascending
<1> QED
  BY <1>9 DEF b, r

(* The first n positions.                                                  *)
First(n) == [m \in 1..n |-> m]

(* One more position.                                                      *)
LEMMA FirstIs ==
  ASSUME NEW n \in Nat
  PROVE  /\ First(n) \in Seq(1..n) /\ First(n) \in Seq(Nat)
         /\ First(n + 1) = Append(First(n), n + 1)
<1>1. First(n) \in Seq(1..n) /\ Len(First(n)) = n
  BY DEF First
<1>2. First(n + 1) \in Seq(1..(n + 1)) /\ Len(First(n + 1)) = n + 1
  BY DEF First
<1>3. First(n) \in Seq(1..(n + 1)) /\ n + 1 \in 1..(n + 1)
  BY DEF First
<1> DEFINE t == Append(First(n), n + 1)
<1>4. /\ t \in Seq(1..(n + 1)) /\ Len(t) = n + 1 /\ t[n + 1] = n + 1
      /\ \A i \in 1..n : t[i] = First(n)[i]
  BY <1>1, <1>3, AppendProperties
<1> HIDE DEF t
<1>5. \A i \in 1..(n + 1) : t[i] = First(n + 1)[i]
  BY <1>4 DEF First
<1>6. t = First(n + 1)
  BY <1>2, <1>4, <1>5, SeqEqual
<1>7. 1..n \subseteq Nat
  OBVIOUS
<1>8. First(n) \in Seq(Nat)
  BY <1>1, <1>7, Widened
<1> QED
  BY <1>1, <1>6, <1>8 DEF t

-----------------------------------------------------------------------------
(* The inductive invariant.                                                *)

ConnectionType ==
  /\ lines \in Seq(LineStates) /\ lines # <<>>
  /\ wsRef \in Nat /\ timerRef \in Nat /\ failures \in 0..MaxRetries
  /\ status \in {"connecting", "connected", "disconnected"} /\ drops \in Nat

PipelineType ==
  /\ arrived \in Seq(Types) /\ superseded \in SUBSET Nat
  /\ nextMessage \in Nat /\ lastMessage \in Nat
  /\ effects \in {{}, {"chart"}, {"live", "chart"}}
  /\ lastProcessed \in Nat /\ lastAppended \in Nat
  /\ buffer \in Seq(Nat) /\ frame \in BOOLEAN
  /\ liveEvents \in Seq(Nat) /\ alerts \in Seq(Nat) /\ points \in Seq(Nat)
  /\ toasts \in Nat /\ dismissals \in Nat

TypeOK == ConnectionType /\ PipelineType

(* A line that never met another is what the indicator says, and a single  *)
(* line is never closed.                                                   *)
OneLine ==
  Len(lines) = 1 =>
    /\ status = "connected" <=> lines[1] = "open"
    /\ status = "connecting" <=> lines[1] = "connecting"
    /\ lines[1] = "ended" => failures = MaxRetries
    /\ lines[1] # "closing"

(* How far each stage got.                                                 *)
Stages ==
  /\ nextMessage = Len(arrived)
  /\ lastMessage <= nextMessage
  /\ lastProcessed <= lastMessage /\ lastAppended <= lastMessage
  /\ superseded \subseteq 1..(nextMessage - 1) /\ lastMessage \notin superseded
  /\ alerts \in Seq(1..lastProcessed) /\ buffer \in Seq(1..lastProcessed)

(* The messages rendered, in order; one that is yet to be rendered, and    *)
(* one that the effect of useLiveEvents, or of the chart, has yet to see.  *)
Rendered == Only(First(lastMessage), Nat \ superseded)
Waiting  == IF nextMessage # lastMessage THEN <<nextMessage>> ELSE <<>>
ForLive  == IF "live" \in effects /\ lastMessage # lastProcessed THEN <<lastMessage>> ELSE <<>>
ForChart == IF "chart" \in effects /\ lastMessage # lastAppended THEN <<lastMessage>> ELSE <<>>

(* All but the newest message of a burst are superseded.                   *)
Split == Kept = Rendered \o Waiting

(* The properties, about what was rendered: the next message may still be  *)
(* superseded, so nothing can be built on its being kept.                  *)
LiveList ==
  LastOnes(liveEvents \o Only(buffer \o ForLive, LiveMessages))
    = LastOnes(Only(Rendered, LiveMessages))

Chart ==
  /\ points \o Only(ForChart, Heartbeats) = Only(Rendered, Heartbeats)
  /\ lastMessage \in Heartbeats /\ "chart" \notin effects => lastAppended = lastMessage

Toasts ==
  /\ Ascending(alerts \o buffer)
  /\ Len(Only(Rendered, AlertMessages))
       <= Len(alerts) + Len(Only(buffer \o ForLive, AlertMessages)) + dismissals

Stream == PipelineType /\ Stages /\ Split /\ LiveList /\ Chart /\ Toasts

IInv == ConnectionType /\ OneLine /\ Stream

-----------------------------------------------------------------------------
(* The connection.                                                         *)

(* The connection starts as the invariant says.                            *)
LEMMA ConnectionInit == Init => ConnectionType /\ OneLine
<1> SUFFICES ASSUME Init PROVE ConnectionType /\ OneLine
  OBVIOUS
<1>1. lines \in Seq(LineStates) /\ lines # <<>> /\ lines[1] = "connecting"
  BY DEF Init, LineStates
<1> QED
  BY <1>1, DashboardAssumption DEF Init, ConnectionType, OneLine

(* Every step of useWebSocket's connection keeps its part of the invariant *)
(* and leaves the stream alone.                                            *)
LEMMA ConnectionStep ==
  ASSUME ConnectionType, OneLine, Connection
  PROVE  ConnectionType' /\ OneLine' /\ UNCHANGED pipeline
<1> USE DashboardAssumption
<1>0. /\ \A l \in DOMAIN lines : lines[l] \in LineStates /\ l \in Nat
      /\ Len(lines) \in Nat \ {0} /\ DOMAIN lines = 1..Len(lines)
      /\ \A l \in DOMAIN lines, st \in LineStates :
           LET new == [lines EXCEPT ![l] = st]
           IN  /\ new \in Seq(LineStates) /\ new # <<>> /\ Len(new) = Len(lines)
               /\ new[l] = st
               /\ Len(new) = 1 => l = 1
  <2>1. lines \in Seq(LineStates) /\ lines # <<>>
    BY DEF ConnectionType
  <2>2. Len(lines) \in Nat \ {0} /\ DOMAIN lines = 1..Len(lines)
    BY <2>1
  <2>3. \A l \in DOMAIN lines : lines[l] \in LineStates /\ l \in Nat
    BY <2>1, <2>2, ElementOfSeq
  <2>4. ASSUME NEW l \in DOMAIN lines, NEW st \in LineStates
        PROVE  LET new == [lines EXCEPT ![l] = st]
               IN  /\ new \in Seq(LineStates) /\ new # <<>> /\ Len(new) = Len(lines)
                   /\ new[l] = st
                   /\ Len(new) = 1 => l = 1
    BY <2>1, <2>2, <2>4, ExceptSeq
  <2> QED
    BY <2>2, <2>3, <2>4
<1>1. ASSUME NEW l \in DOMAIN lines, OnOpen(l)
      PROVE  ConnectionType' /\ OneLine' /\ UNCHANGED pipeline
  <2>1. "open" \in LineStates
    BY DEF LineStates
  <2> QED
    BY <1>0, <1>1, <2>1 DEF OnOpen, ConnectionType, OneLine
<1>2. ASSUME NEW l \in DOMAIN lines, OnCloseRetry(l)
      PROVE  ConnectionType' /\ OneLine' /\ UNCHANGED pipeline
  <2>1. "waiting" \in LineStates
    BY DEF LineStates
  <2>2. /\ lines' \in Seq(LineStates) /\ lines' # <<>> /\ lines'[l] = "waiting"
        /\ Len(lines') = 1 => l = 1
    BY <1>0, <1>2, <2>1 DEF OnCloseRetry
  <2>3. /\ failures' \in 0..MaxRetries /\ status' = "disconnected" /\ drops' \in Nat
        /\ wsRef' \in Nat /\ timerRef' \in Nat
    BY <1>0, <1>2 DEF OnCloseRetry, Ends, ConnectionType
  <2>4. UNCHANGED pipeline
    BY <1>2 DEF OnCloseRetry
  <2> QED
    BY <2>2, <2>3, <2>4 DEF ConnectionType, OneLine
<1>3. ASSUME NEW l \in DOMAIN lines, OnCloseGiveUp(l)
      PROVE  ConnectionType' /\ OneLine' /\ UNCHANGED pipeline
  <2>1. "ended" \in LineStates
    BY DEF LineStates
  <2>2. /\ lines' \in Seq(LineStates) /\ lines' # <<>> /\ lines'[l] = "ended"
        /\ Len(lines') = 1 => l = 1
    BY <1>0, <1>3, <2>1 DEF OnCloseGiveUp
  <2>3. /\ failures' \in 0..MaxRetries /\ status' = "disconnected" /\ drops' \in Nat
        /\ wsRef' \in Nat /\ timerRef' \in Nat
    BY <1>0, <1>3 DEF OnCloseGiveUp, Ends, ConnectionType
  <2>4. UNCHANGED pipeline
    BY <1>3 DEF OnCloseGiveUp
  <2>5. failures' = MaxRetries
    BY <1>3 DEF OnCloseGiveUp, ConnectionType
  <2> QED
    BY <2>2, <2>3, <2>4, <2>5 DEF ConnectionType, OneLine
<1>4. ASSUME NEW l \in DOMAIN lines, Reconnect(l)
      PROVE  ConnectionType' /\ OneLine' /\ UNCHANGED pipeline
  <2>1. "connecting" \in LineStates
    BY DEF LineStates
  <2> QED
    BY <1>0, <1>4, <2>1 DEF Reconnect, ConnectionType, OneLine
<1>5. CASE Switch
  <2> DEFINE old == [l \in DOMAIN lines |-> Cleaned(l)]
  <2>1. old \in Seq(LineStates) /\ Len(old) = Len(lines)
    BY <1>0 DEF Cleaned, LineStates
  <2>2. lines' = Append(old, "connecting") /\ "connecting" \in LineStates
    BY <1>5 DEF Switch, LineStates
  <2> HIDE DEF old
  <2>3. lines' \in Seq(LineStates) /\ lines' # <<>> /\ Len(lines') = Len(lines) + 1
    BY <2>1, <2>2, AppendProperties
  <2> QED
    BY <1>0, <1>5, <2>3 DEF Switch, ConnectionType, OneLine
<1> QED
  BY <1>1, <1>2, <1>3, <1>4, <1>5 DEF Connection

-----------------------------------------------------------------------------
(* The stream.                                                             *)

(* The stream starts as the invariant says.                                *)
LEMMA StreamInit == Init => Stream
<1> SUFFICES ASSUME Init PROVE Stream
  OBVIOUS
<1>1. <<>> \in Seq(Nat) /\ <<>> \in Seq(Types) /\ <<>> \in Seq(1..0) /\ Len(<<>>) = 0 /\ <<>> \o <<>> = <<>>
  BY EmptySeq
<1>2. First(0) = <<>> /\ [m \in Messages |-> m] = <<>>
  BY <1>1 DEF First, Messages, Init
<1>3. Rendered = <<>> /\ Kept = <<>> /\ Waiting = <<>> /\ ForLive = <<>> /\ ForChart = <<>>
  BY <1>2, OnlyEmpty DEF Init, Rendered, Kept, Waiting, ForLive, ForChart
<1>4. PipelineType /\ Stages
  <2>1. PipelineType
    BY <1>1 DEF Init, PipelineType
  <2>2. alerts \in Seq(1..lastProcessed) /\ buffer \in Seq(1..lastProcessed)
    BY <1>1 DEF Init
  <2>3. nextMessage = 0 /\ Len(arrived) = 0 /\ lastMessage = 0 /\ lastProcessed = 0
    BY <1>1 DEF Init
  <2> QED
    BY <2>1, <2>2, <2>3 DEF Init, Stages
<1>5. Split
  BY <1>1, <1>3 DEF Split
<1>6. LiveList
  BY <1>1, <1>3 DEF LiveList, Init
<1>7. Chart
  BY <1>1, <1>3, OnlyEmpty DEF Chart, Init
<1>8. Toasts
  BY <1>1, <1>3, OnlyEmpty DEF Toasts, Init, Ascending
<1> QED
  BY <1>4, <1>5, <1>6, <1>7, <1>8 DEF Stream

(* A step of the connection keeps the invariant of the stream.             *)
LEMMA StreamUnchanged == Stream /\ UNCHANGED pipeline => Stream'
BY DEF Stream, pipeline, PipelineType, Stages, Split, LiveList, Chart, Toasts,
       Rendered, Waiting, ForLive, ForChart, Kept, Messages, LiveMessages,
       AlertMessages, Heartbeats

(* What waits between two stages was rendered.                             *)
LEMMA InStages ==
  ASSUME PipelineType, Stages
  PROVE  /\ buffer \in Seq(1..lastMessage) /\ ForLive \in Seq(1..lastMessage)
         /\ ForChart \in Seq(1..lastMessage) /\ Rendered \in Seq(1..lastMessage)
         /\ buffer \o ForLive \in Seq(1..lastMessage)
         /\ Rendered \in Seq(Nat)
<1>1. /\ lastMessage \in Nat /\ lastProcessed \in Nat /\ lastAppended \in Nat
      /\ lastProcessed <= lastMessage /\ lastAppended <= lastMessage
      /\ buffer \in Seq(1..lastProcessed)
  BY DEF PipelineType, Stages
<1>2. buffer \in Seq(1..lastMessage)
  <2>1. 1..lastProcessed \subseteq 1..lastMessage
    BY <1>1
  <2> QED
    BY <1>1, <2>1
<1>3. \A x \in 1..lastMessage : <<x>> \in Seq(1..lastMessage)
  OBVIOUS
<1>4. <<>> \in Seq(1..lastMessage)
  BY EmptySeq
<1>5. ForLive \in Seq(1..lastMessage)
  <2>1. lastMessage # lastProcessed => lastMessage \in 1..lastMessage
    BY <1>1
  <2> QED
    BY <1>3, <1>4, <2>1 DEF ForLive
<1>6. ForChart \in Seq(1..lastMessage)
  <2>1. lastMessage # lastAppended => lastMessage \in 1..lastMessage
    BY <1>1
  <2> QED
    BY <1>3, <1>4, <2>1 DEF ForChart
<1>7. Rendered \in Seq(1..lastMessage)
  <2>1. First(lastMessage) \in Seq(1..lastMessage)
    BY <1>1, FirstIs
  <2>2. Rendered \in Seq((1..lastMessage) \cap (Nat \ superseded))
    BY <2>1, OnlyType DEF Rendered
  <2>3. (1..lastMessage) \cap (Nat \ superseded) \subseteq 1..lastMessage
    OBVIOUS
  <2> QED
    BY <2>2, <2>3, Widened
<1>8. buffer \o ForLive \in Seq(1..lastMessage)
  BY <1>2, <1>5, Joined
<1>9. Rendered \in Seq(Nat)
  <2>1. 1..lastMessage \subseteq Nat
    BY <1>1
  <2> QED
    BY <1>7, <2>1, Widened
<1> QED
  BY <1>2, <1>5, <1>6, <1>7, <1>8, <1>9

(* A message that arrives joins the end of Kept, in place of one that no   *)
(* render saw; what was rendered stays what it was.                        *)
LEMMA OnMessageStep ==
  ASSUME Stream, NEW l \in DOMAIN lines, OnMessage(l)
  PROVE  Stream'
<1>1. /\ PipelineType /\ Stages /\ Split /\ LiveList /\ Chart /\ Toasts
      /\ lastMessage \in Nat /\ nextMessage \in Nat /\ lastMessage <= nextMessage
      /\ superseded \subseteq 1..(nextMessage - 1) /\ lastMessage \notin superseded
      /\ Len(arrived) = nextMessage
  BY DEF Stream, PipelineType, Stages
<1>2. /\ UNCHANGED <<lastMessage, effects, lastProcessed, lastAppended, buffer, frame,
                     liveEvents, alerts, points, toasts, dismissals>>
      /\ nextMessage' = nextMessage + 1
      /\ superseded' = IF nextMessage = lastMessage THEN superseded
                       ELSE superseded \cup {nextMessage}
  BY <1>1 DEF OnMessage
<1>3. /\ arrived' \in Seq(Types) /\ Len(arrived') = nextMessage + 1
      /\ \A m \in 1..nextMessage : arrived'[m] = arrived[m]
  <2>1. PICK type \in Types : arrived' = Append(arrived, type)
    BY DEF OnMessage
  <2>2. arrived \in Seq(Types)
    BY <1>1 DEF PipelineType
  <2> QED
    BY <1>1, <2>1, <2>2, AppendProperties
<1>4. Messages = 1..nextMessage /\ Messages' = 1..(nextMessage + 1)
  BY <1>1, <1>3 DEF Messages
<1>5. \A m \in 1..lastMessage :
        /\ m \in Heartbeats' <=> m \in Heartbeats
        /\ m \in AlertMessages' <=> m \in AlertMessages
        /\ m \in LiveMessages' <=> m \in LiveMessages
  <2>1. \A m \in 1..lastMessage : m \in 1..nextMessage /\ m \in 1..(nextMessage + 1)
    BY <1>1
  <2> QED
    BY <1>3, <1>4, <2>1 DEF Heartbeats, AlertMessages, LiveMessages
<1>6. /\ buffer \o ForLive \in Seq(1..lastMessage)
      /\ ForChart \in Seq(1..lastMessage) /\ Rendered \in Seq(1..lastMessage)
      /\ Rendered \in Seq(Nat)
  BY <1>1, InStages
<1>7. ForLive' = ForLive /\ ForChart' = ForChart
  BY <1>2 DEF ForLive, ForChart
<1>8. Rendered' = Rendered
  <2>1. First(lastMessage) \in Seq(1..lastMessage)
    BY <1>1, FirstIs
  <2> DEFINE old == Nat \ superseded
             new == Nat \ superseded'
  <2>2. Agree(lastMessage, old, new)
    BY <1>1, <1>2 DEF Agree
  <2>3. Only(First(lastMessage), old) = Only(First(lastMessage), new)
    <3> HIDE DEF old, new
    <3> QED
      BY <2>1, <2>2, OnlySameTo
  <2> QED
    BY <1>2, <2>3 DEF Rendered
<1>9. PipelineType'
  <2>1. superseded' \in SUBSET Nat /\ nextMessage' \in Nat
    BY <1>1, <1>2
  <2> QED
    BY <1>1, <1>2, <1>3, <2>1 DEF PipelineType
<1>10. Stages'
  <2>1. nextMessage' = Len(arrived') /\ lastMessage' <= nextMessage'
    BY <1>1, <1>2, <1>3
  <2>2. superseded' \subseteq 1..(nextMessage' - 1) /\ lastMessage' \notin superseded'
    BY <1>1, <1>2
  <2> QED
    BY <1>1, <1>2, <2>1, <2>2 DEF Stages
<1>11. Split'
  <2> DEFINE n == nextMessage
             old == Messages \ superseded
             new == Messages' \ superseded'
  <2>1. Kept = Only(First(n), old) /\ Kept' = Only(First(n + 1), new)
    BY <1>4 DEF Kept, First
  <2>2. Only(First(n), new) = Rendered
    <3>1. CASE n = lastMessage
      <4>1. Waiting = <<>> /\ Rendered \o <<>> = Rendered
        BY <1>6, <3>1, Joined DEF Waiting
      <4>2. Kept = Rendered
        BY <1>1, <4>1 DEF Split
      <4>3. Agree(n, old, new)
        BY <1>1, <1>2, <1>4, <3>1 DEF Agree
      <4>4. First(n) \in Seq(1..n)
        BY <1>1, FirstIs
      <4>5. Only(First(n), old) = Only(First(n), new)
        <5> HIDE DEF old, new, n
        <5> QED
          BY <4>3, <4>4, OnlySameTo
      <4> QED
        BY <2>1, <4>2, <4>5
    <3>2. CASE n # lastMessage
      <4>1. PICK k \in Nat : n = k + 1
        BY <1>1, <3>2
      <4>2. First(k) \in Seq(1..k) /\ First(n) = Append(First(k), n)
        BY <4>1, FirstIs
      <4>3. n \in old /\ n \notin new /\ Agree(k, old, new)
        BY <1>1, <1>2, <1>4, <3>2, <4>1 DEF Agree
      <4>4. First(k) \in Seq(Nat) /\ n \in Nat
        BY <4>1, <4>2
      <4>5. /\ Only(First(n), old) = Append(Only(First(k), old), n)
            /\ Only(First(n), new) = Only(First(k), new)
        <5> HIDE DEF old, new, n
        <5>1. Only(Append(First(k), n), old)
                = IF n \in old THEN Append(Only(First(k), old), n) ELSE Only(First(k), old)
          BY <4>4, OnlyAppend, Zenon
        <5>2. Only(Append(First(k), n), new)
                = IF n \in new THEN Append(Only(First(k), new), n) ELSE Only(First(k), new)
          BY <4>4, OnlyAppend, Zenon
        <5> QED
          BY <4>2, <4>3, <5>1, <5>2
      <4>6. Only(First(k), old) = Only(First(k), new)
        <5> HIDE DEF old, new
        <5> QED
          BY <4>2, <4>3, OnlySameTo
      <4>7. Kept = Append(Rendered, n)
        <5>1. Rendered \in Seq(Nat) /\ n \in Nat
          BY <1>6, <4>4
        <5>2. Rendered \o <<n>> = Append(Rendered, n)
          BY <5>1, JoinedOne
        <5> QED
          BY <1>1, <3>2, <5>2 DEF Split, Waiting
      <4>8. Only(First(k), old) \in Seq(Nat) /\ Rendered \in Seq(Nat)
        <5>1. Only(First(k), old) \in Seq(Nat \cap old)
          BY <4>4, OnlyType
        <5>2. Nat \cap old \subseteq Nat
          OBVIOUS
        <5> QED
          BY <1>6, <5>1, <5>2, Widened
      <4>9. Append(Only(First(k), old), n) = Append(Rendered, n)
        BY <2>1, <4>5, <4>7
      <4>10. Only(First(k), old) = Rendered
        <5> HIDE DEF old, n
        <5> QED
          BY <4>4, <4>8, <4>9, AppendInjective
      <4> QED
        BY <4>5, <4>6, <4>10
    <3> QED
      BY <3>1, <3>2
  <2>3. First(n) \in Seq(Nat) /\ First(n + 1) = Append(First(n), n + 1) /\ n + 1 \in Nat
    BY <1>1, FirstIs
  <2>4. n + 1 \in new
    BY <1>1, <1>2, <1>4
  <2>5. Only(First(n + 1), new) = Append(Rendered, n + 1)
    <3>1. Only(Append(First(n), n + 1), new) = Append(Only(First(n), new), n + 1)
      <4> DEFINE N == Nat
      <4>1. First(n) \in Seq(N) /\ n + 1 \in N
        BY <2>3
      <4> HIDE DEF new, n, N
      <4> QED
        BY <2>4, <4>1, OnlyAppend
    <3> QED
      BY <2>2, <2>3, <3>1
  <2>6. Waiting' = <<n + 1>>
    BY <1>1, <1>2 DEF Waiting
  <2>7. Rendered \o <<n + 1>> = Append(Rendered, n + 1)
    <3>1. Rendered \in Seq(Nat)
      BY <1>6
    <3> QED
      BY <2>3, <3>1, Joined
  <2> QED
    BY <1>8, <2>1, <2>5, <2>6, <2>7 DEF Split
<1>12. /\ Only(buffer \o ForLive, LiveMessages') = Only(buffer \o ForLive, LiveMessages)
       /\ Only(buffer \o ForLive, AlertMessages') = Only(buffer \o ForLive, AlertMessages)
       /\ Only(ForChart, Heartbeats') = Only(ForChart, Heartbeats)
       /\ Only(Rendered, LiveMessages') = Only(Rendered, LiveMessages)
       /\ Only(Rendered, AlertMessages') = Only(Rendered, AlertMessages)
       /\ Only(Rendered, Heartbeats') = Only(Rendered, Heartbeats)
  <2>1. Agree(lastMessage, LiveMessages', LiveMessages)
    BY <1>5 DEF Agree
  <2>2. Agree(lastMessage, AlertMessages', AlertMessages)
    BY <1>5 DEF Agree
  <2>3. Agree(lastMessage, Heartbeats', Heartbeats)
    BY <1>5 DEF Agree
  <2>4. \A s \in Seq(1..lastMessage) : Only(s, LiveMessages') = Only(s, LiveMessages)
    BY <2>1, OnlySameTo
  <2>5. \A s \in Seq(1..lastMessage) : Only(s, AlertMessages') = Only(s, AlertMessages)
    BY <2>2, OnlySameTo
  <2>6. \A s \in Seq(1..lastMessage) : Only(s, Heartbeats') = Only(s, Heartbeats)
    BY <2>3, OnlySameTo
  <2> QED
    BY <1>6, <2>4, <2>5, <2>6
<1>13. (buffer \o ForLive)' = buffer \o ForLive
  BY <1>2, <1>7
<1>14. LiveList'
  BY <1>1, <1>2, <1>8, <1>12, <1>13 DEF LiveList
<1>15. Chart'
  <2>1. lastMessage' \in Heartbeats' => lastMessage \in Heartbeats
    <3>1. lastMessage' \in Heartbeats' => lastMessage \in 1..(nextMessage + 1)
      BY <1>2, <1>4 DEF Heartbeats
    <3>2. lastMessage \in 1..(nextMessage + 1) => lastMessage \in 1..lastMessage
      BY <1>1
    <3> QED
      BY <1>2, <1>5, <3>1, <3>2
  <2> QED
    BY <1>1, <1>2, <1>7, <1>8, <1>12, <2>1 DEF Chart
<1>16. Toasts'
  BY <1>1, <1>2, <1>8, <1>12, <1>13 DEF Toasts
<1> QED
  BY <1>9, <1>10, <1>11, <1>14, <1>15, <1>16 DEF Stream

(* The marks of the messages do not change unless one arrives.             *)
LEMMA SameMarks ==
  ASSUME UNCHANGED <<arrived, superseded>>
  PROVE  /\ Heartbeats' = Heartbeats /\ AlertMessages' = AlertMessages
         /\ LiveMessages' = LiveMessages /\ Kept' = Kept
BY DEF Heartbeats, AlertMessages, LiveMessages, Kept, Messages

(* A render moves the waiting message to the effects.                      *)
LEMMA RenderStep ==
  ASSUME Stream, NEW grown \in BOOLEAN, Render(grown)
  PROVE  Stream'
<1>1. /\ PipelineType /\ Stages /\ Split /\ LiveList /\ Chart /\ Toasts
      /\ lastMessage \in Nat /\ nextMessage \in Nat /\ lastMessage <= nextMessage
      /\ lastProcessed \in Nat /\ lastAppended \in Nat
      /\ lastProcessed <= lastMessage /\ lastAppended <= lastMessage
      /\ superseded \subseteq 1..(nextMessage - 1)
      /\ liveEvents \in Seq(Nat)
  BY DEF Stream, PipelineType, Stages
<1>2. /\ UNCHANGED <<arrived, superseded, nextMessage, lastProcessed, lastAppended,
                     buffer, frame, liveEvents, alerts, points, dismissals>>
      /\ effects = {} /\ lastMessage' = nextMessage /\ toasts' = Len(alerts)
      /\ effects' = (IF nextMessage # lastMessage THEN {"live", "chart"} ELSE {})
                      \cup (IF grown THEN {"chart"} ELSE {})
  BY DEF Render
<1>3. /\ Heartbeats' = Heartbeats /\ AlertMessages' = AlertMessages
      /\ LiveMessages' = LiveMessages /\ Kept' = Kept
  BY <1>2, SameMarks
<1>4. /\ buffer \in Seq(1..lastMessage) /\ Rendered \in Seq(1..lastMessage)
      /\ Rendered \in Seq(Nat)
  BY <1>1, InStages
<1>5. ForLive = <<>> /\ ForChart = <<>>
  BY <1>2 DEF ForLive, ForChart
<1>6. buffer \in Seq(Nat) /\ buffer \o ForLive = buffer
  <2>1. buffer \in Seq(Nat)
    BY <1>1 DEF PipelineType
  <2> QED
    BY <1>5, <2>1
<1>7. PipelineType'
  <2>1. effects' \in {{}, {"chart"}, {"live", "chart"}}
    BY <1>2
  <2>2. toasts' \in Nat
    BY <1>1, <1>2, LenProperties DEF PipelineType
  <2> QED
    BY <1>1, <1>2, <2>1, <2>2 DEF PipelineType
<1>8. Stages'
  <2>1. lastMessage' \notin superseded'
    BY <1>1, <1>2
  <2>2. lastProcessed' <= lastMessage' /\ lastAppended' <= lastMessage' /\ lastMessage' <= nextMessage'
    BY <1>1, <1>2
  <2> QED
    BY <1>1, <1>2, <2>1, <2>2 DEF Stages
<1>9. Waiting' = <<>>
  BY <1>2 DEF Waiting
<1>10. Rendered' = Kept
  <2> DEFINE n == nextMessage
             old == Messages \ superseded
             new == Nat \ superseded
  <2>1. Messages = 1..n
    BY <1>1 DEF Messages, Stages
  <2>2. Kept = Only(First(n), old)
    BY <2>1 DEF Kept, First
  <2>3. Agree(n, old, new)
    BY <2>1 DEF Agree
  <2>4. First(n) \in Seq(1..n)
    BY <1>1, FirstIs
  <2>5. Only(First(n), old) = Only(First(n), new)
    <3> HIDE DEF old, new, n
    <3> QED
      BY <2>3, <2>4, OnlySameTo
  <2>6. Rendered' = Only(First(n), new)
    BY <1>2 DEF Rendered
  <2> QED
    BY <2>2, <2>5, <2>6
<1>11. Split'
  <2>1. Kept \in Seq(Nat)
    <3>1. Waiting \in Seq(Nat)
      BY <1>1, EmptySeq DEF Waiting
    <3> QED
      BY <1>1, <1>4, <3>1, Joined DEF Split
  <2>2. Kept \o <<>> = Kept
    BY <2>1
  <2> QED
    BY <1>3, <1>9, <1>10, <2>2 DEF Split
<1>12. CASE nextMessage = lastMessage
  <2>1. Rendered' = Rendered
    <3>1. Waiting = <<>> /\ Rendered \o <<>> = Rendered
      BY <1>4, <1>12 DEF Waiting
    <3> QED
      BY <1>1, <1>10, <3>1 DEF Split
  <2>2. ForLive' = <<>> /\ "live" \notin effects'
    BY <1>2, <1>12 DEF ForLive
  <2>3. (buffer \o ForLive)' = buffer \o ForLive
    BY <1>2, <1>5, <2>2
  <2>4. LiveList'
    BY <1>1, <1>2, <1>3, <2>1, <2>3 DEF LiveList
  <2>5. Toasts'
    BY <1>1, <1>2, <1>3, <2>1, <2>3 DEF Toasts
  <2>6. Chart'
    <3>1. Only(ForChart', Heartbeats) = <<>>
      <4>1. CASE ForChart' = <<>>
        BY <4>1, OnlyEmpty
      <4>2. CASE ForChart' # <<>>
        <5>1. ForChart' = <<lastMessage>> /\ lastMessage # lastAppended
          BY <1>2, <1>12, <4>2 DEF ForChart
        <5>2. lastMessage \notin Heartbeats
          BY <1>1, <1>2, <5>1 DEF Chart
        <5> QED
          BY <5>1, <5>2, OnlyOne
      <4> QED
        BY <4>1, <4>2
    <3>2. Only(ForChart, Heartbeats) = <<>>
      BY <1>5, OnlyEmpty
    <3>3. lastMessage \in Heartbeats => lastAppended = lastMessage
      BY <1>1, <1>2 DEF Chart
    <3> QED
      BY <1>1, <1>2, <1>3, <1>12, <2>1, <3>1, <3>2, <3>3 DEF Chart
  <2> QED
    BY <1>7, <1>8, <1>11, <2>4, <2>5, <2>6 DEF Stream
<1>13. CASE nextMessage # lastMessage
  <2> DEFINE one == <<nextMessage>>
  <2>1. one \in Seq(Nat)
    BY <1>1
  <2>2. Rendered' = Rendered \o one
    BY <1>1, <1>10, <1>13 DEF Split, Waiting
  <2>3. ForLive' = one /\ ForChart' = one
    <3>1. nextMessage # lastProcessed /\ nextMessage # lastAppended
      BY <1>1, <1>13
    <3>2. "live" \in effects' /\ "chart" \in effects'
      BY <1>2, <1>13
    <3> QED
      BY <1>2, <3>1, <3>2 DEF ForLive, ForChart
  <2>4. (buffer \o ForLive)' = buffer \o one
    BY <1>2, <2>3
  <2> HIDE DEF one
  <2>5. \A S : /\ Only(buffer \o one, S) = Only(buffer, S) \o Only(one, S)
               /\ Only(Rendered \o one, S) = Only(Rendered, S) \o Only(one, S)
    BY <1>4, <1>6, <2>1, OnlyJoined
  <2>6. \A S : /\ Only(buffer, S) \in Seq(Nat) /\ Only(one, S) \in Seq(Nat)
               /\ Only(Rendered, S) \in Seq(Nat)
    BY <1>4, <1>6, <2>1, OnlyNumbers
  <2>7. LiveList'
    <3> DEFINE a == Only(buffer, LiveMessages)
               r == Only(Rendered, LiveMessages)
               e == Only(one, LiveMessages)
    <3>1. a \in Seq(Nat) /\ r \in Seq(Nat) /\ e \in Seq(Nat) /\ liveEvents \o a \in Seq(Nat)
      BY <1>1, <2>6, Joined
    <3>2. LastOnes(liveEvents \o a) = LastOnes(r)
      BY <1>1, <1>6 DEF LiveList
    <3>3. LastOnes((liveEvents \o a) \o e) = LastOnes(r \o e)
      <4> HIDE DEF a, r, e
      <4> QED
        BY <3>1, <3>2, LastOnesExtended
    <3>4. (liveEvents \o a) \o e = liveEvents \o (a \o e)
      <4> HIDE DEF a, r, e
      <4> QED
        BY <1>1, <3>1, Associative
    <3>5. Only(buffer \o one, LiveMessages) = a \o e /\ Only(Rendered \o one, LiveMessages) = r \o e
      BY <2>5
    <3> QED
      BY <1>2, <1>3, <2>2, <2>4, <3>3, <3>4, <3>5 DEF LiveList
  <2>8. Chart'
    <3> DEFINE r == Only(Rendered, Heartbeats)
               e == Only(one, Heartbeats)
    <3>1. points = r
      <4>1. points \in Seq(Nat) /\ points \o <<>> = points
        BY <1>1 DEF PipelineType
      <4>2. points \o <<>> = r
        BY <1>1, <1>5, OnlyEmpty DEF Chart
      <4> QED
        BY <4>1, <4>2
    <3>2. Only(Rendered \o one, Heartbeats) = r \o e
      BY <2>5
    <3>3. "chart" \in effects'
      BY <1>2, <1>13
    <3> QED
      BY <1>2, <1>3, <2>2, <2>3, <3>1, <3>2, <3>3 DEF Chart
  <2>9. Toasts'
    <3> DEFINE b == Only(buffer, AlertMessages)
               r == Only(Rendered, AlertMessages)
               e == Only(one, AlertMessages)
    <3>1. b \in Seq(Nat) /\ r \in Seq(Nat) /\ e \in Seq(Nat)
      BY <2>6
    <3>2. Len(r) <= Len(alerts) + Len(b) + dismissals
      BY <1>1, <1>6 DEF Toasts
    <3>3. Only(buffer \o one, AlertMessages) = b \o e /\ Only(Rendered \o one, AlertMessages) = r \o e
      BY <2>5
    <3> HIDE DEF b, r, e
    <3>4. Len(b \o e) = Len(b) + Len(e) /\ Len(r \o e) = Len(r) + Len(e)
      BY <3>1, Joined
    <3>5. Len(alerts) \in Nat /\ dismissals \in Nat /\ Len(b) \in Nat /\ Len(r) \in Nat /\ Len(e) \in Nat
      BY <1>1, <3>1, LenProperties DEF PipelineType
    <3>6. Len(r \o e) <= Len(alerts) + Len(b \o e) + dismissals
      BY <3>2, <3>4, <3>5
    <3> QED
      BY <1>1, <1>2, <1>3, <2>2, <2>4, <3>3, <3>6 DEF Toasts
  <2> QED
    BY <1>7, <1>8, <1>11, <2>7, <2>8, <2>9 DEF Stream
<1> QED
  BY <1>12, <1>13

(* The effects move it to the buffer and the chart.                        *)
LEMMA RunEffectsStep ==
  ASSUME Stream, RunEffects
  PROVE  Stream'
<1>1. /\ PipelineType /\ Stages /\ Split /\ LiveList /\ Chart /\ Toasts
      /\ lastMessage \in Nat /\ lastProcessed \in Nat /\ lastAppended \in Nat
      /\ lastProcessed <= lastMessage /\ lastAppended <= lastMessage
      /\ buffer \in Seq(Nat) /\ points \in Seq(Nat) /\ alerts \in Seq(Nat)
      /\ alerts \in Seq(1..lastProcessed) /\ buffer \in Seq(1..lastProcessed)
  BY DEF Stream, PipelineType, Stages
<1>2. /\ UNCHANGED <<arrived, superseded, nextMessage, lastMessage,
                     liveEvents, alerts, toasts, dismissals>>
      /\ effects # {} /\ effects' = {} /\ LiveEffect /\ ChartEffect
  BY DEF RunEffects
<1>3. /\ Heartbeats' = Heartbeats /\ AlertMessages' = AlertMessages
      /\ LiveMessages' = LiveMessages /\ Kept' = Kept
  BY <1>2, SameMarks
<1>4. Rendered' = Rendered /\ Waiting' = Waiting /\ ForLive' = <<>> /\ ForChart' = <<>>
  BY <1>2 DEF Rendered, Waiting, ForLive, ForChart
<1>5. "chart" \in effects
  BY <1>1, <1>2 DEF PipelineType
(* The effect takes the message that was for it, if there was one.         *)
<1>6. /\ lastProcessed' \in Nat /\ lastProcessed <= lastProcessed' /\ lastProcessed' <= lastMessage
      /\ buffer' = buffer \o ForLive /\ frame' \in BOOLEAN
      /\ buffer' \in Seq(1..lastProcessed') /\ Ascending(alerts \o buffer')
  <2>1. CASE ForLive = <<>>
    <3>1. UNCHANGED <<lastProcessed, buffer, frame>>
      <4>1. ~("live" \in effects /\ lastMessage \notin {0, lastProcessed})
        BY <2>1 DEF ForLive
      <4> QED
        BY <1>2, <4>1 DEF LiveEffect
    <3>2. buffer \o <<>> = buffer
      BY <1>1
    <3> QED
      BY <1>1, <2>1, <3>1, <3>2 DEF PipelineType, Toasts
  <2>2. CASE ForLive # <<>>
    <3>1. /\ "live" \in effects /\ lastMessage \notin {0, lastProcessed}
          /\ ForLive = <<lastMessage>> /\ lastProcessed < lastMessage
      BY <1>1, <2>2 DEF ForLive
    <3>2. lastProcessed' = lastMessage /\ buffer' = Append(buffer, lastMessage) /\ frame' = TRUE
      BY <1>2, <3>1 DEF LiveEffect
    <3>3. buffer \o <<lastMessage>> = Append(buffer, lastMessage)
      BY <1>1, JoinedOne
    <3>4. buffer \in Seq(1..lastMessage) /\ lastMessage \in 1..lastMessage
      <4>1. 1..lastProcessed \subseteq 1..lastMessage
        BY <1>1
      <4> QED
        BY <1>1, <3>1, <4>1, Widened
    <3>5. Append(buffer, lastMessage) \in Seq(1..lastMessage)
      BY <3>4, AppendProperties
    <3>6. alerts \o Append(buffer, lastMessage) = Append(alerts \o buffer, lastMessage)
      BY <1>1, JoinedAppend
    <3>7. Ascending(Append(alerts \o buffer, lastMessage))
      <4> DEFINE s == alerts \o buffer
      <4>1. s \in Seq(Nat) /\ s \in Seq(1..lastProcessed)
        BY <1>1, Joined
      <4>2. Ascending(s)
        BY <1>1 DEF Toasts
      <4> HIDE DEF s
      <4>3. Below(s, lastMessage)
        <5>1. \A i \in DOMAIN s : s[i] \in 1..lastProcessed
          BY <4>1, LenProperties, ElementOfSeq
        <5>2. \A x \in 1..lastProcessed : x < lastMessage
          BY <1>1, <3>1
        <5> QED
          BY <5>1, <5>2 DEF Below
      <4>4. Ascending(Append(s, lastMessage))
        BY <1>1, <4>1, <4>2, <4>3, AscendingAppend
      <4> QED
        BY <4>4 DEF s
    <3>8. buffer' = buffer \o ForLive
      BY <3>1, <3>2, <3>3
    <3>9. buffer' \in Seq(1..lastProcessed')
      BY <3>2, <3>5
    <3>10. Ascending(alerts \o buffer')
      BY <3>2, <3>6, <3>7
    <3>11. /\ lastProcessed' \in Nat /\ lastProcessed <= lastProcessed'
           /\ lastProcessed' <= lastMessage /\ frame' \in BOOLEAN
      BY <1>1, <3>2
    <3> QED
      BY <3>8, <3>9, <3>10, <3>11
  <2> QED
    BY <2>1, <2>2
<1>7. (buffer \o ForLive)' = buffer \o ForLive
  <2>1. ForLive \in Seq(Nat)
    BY <1>1, EmptySeq DEF ForLive
  <2>2. buffer \o ForLive \in Seq(Nat)
    BY <1>1, <2>1, Joined
  <2>3. (buffer \o ForLive) \o <<>> = buffer \o ForLive
    BY <2>2
  <2> QED
    BY <1>4, <1>6, <2>3
<1>8. /\ points' = points \o Only(ForChart, Heartbeats)
      /\ points' \in Seq(Nat)
      /\ lastAppended' \in {lastAppended, lastMessage}
      /\ lastMessage \in Heartbeats => lastAppended' = lastMessage
  <2>0. lastMessage \in Heartbeats <=> lastMessage # 0 /\ arrived[lastMessage] = "heartbeat"
    <3>1. lastMessage # 0 <=> lastMessage \in Messages
      BY <1>1 DEF Messages, Stages, PipelineType
    <3> QED
      BY <3>1 DEF Heartbeats
  <2>1. CASE lastMessage \in Heartbeats /\ lastMessage # lastAppended
    <3>1. ForChart = <<lastMessage>>
      BY <1>5, <2>1 DEF ForChart
    <3>2. points' = Append(points, lastMessage) /\ lastAppended' = lastMessage
      BY <1>2, <1>5, <2>0, <2>1 DEF ChartEffect
    <3>3. Only(ForChart, Heartbeats) = <<lastMessage>>
      BY <2>1, <3>1, OnlyOne
    <3>4. points \o <<lastMessage>> = Append(points, lastMessage) /\ Append(points, lastMessage) \in Seq(Nat)
      BY <1>1, JoinedOne, AppendProperties
    <3> QED
      BY <3>2, <3>3, <3>4
  <2>2. CASE ~(lastMessage \in Heartbeats /\ lastMessage # lastAppended)
    <3>1. UNCHANGED <<lastAppended, points>>
      BY <1>2, <2>0, <2>2 DEF ChartEffect
    <3>2. Only(ForChart, Heartbeats) = <<>>
      BY <2>2, OnlyOne, OnlyEmpty DEF ForChart
    <3>3. points \o <<>> = points
      BY <1>1
    <3> QED
      BY <1>1, <2>2, <3>1, <3>2, <3>3
  <2> QED
    BY <2>1, <2>2
<1>9. PipelineType'
  <2>1. buffer' \in Seq(Nat)
    <3>1. 1..lastProcessed' \subseteq Nat
      BY <1>6
    <3> QED
      BY <1>6, <3>1, Widened
  <2> QED
    BY <1>1, <1>2, <1>6, <1>8, <2>1 DEF PipelineType
<1>10. Stages'
  <2>1. alerts \in Seq(1..lastProcessed')
    <3>1. 1..lastProcessed \subseteq 1..lastProcessed'
      BY <1>1, <1>6
    <3> QED
      BY <1>1, <3>1, Widened
  <2>2. lastAppended' <= lastMessage
    BY <1>1, <1>8
  <2> QED
    BY <1>1, <1>2, <1>6, <2>1, <2>2 DEF Stages
<1>11. Split'
  BY <1>1, <1>3, <1>4 DEF Split
<1>12. LiveList'
  BY <1>1, <1>2, <1>3, <1>4, <1>7 DEF LiveList
<1>13. Chart'
  <2>1. points' \o <<>> = points'
    BY <1>8
  <2> QED
    BY <1>1, <1>2, <1>3, <1>4, <1>8, <2>1, OnlyEmpty DEF Chart
<1>14. Toasts'
  BY <1>1, <1>2, <1>3, <1>4, <1>6, <1>7 DEF Toasts
<1> QED
  BY <1>9, <1>10, <1>11, <1>12, <1>13, <1>14 DEF Stream

(* The animation frame moves the buffer to the lists shown.                *)
LEMMA FlushStep ==
  ASSUME Stream, Flush
  PROVE  Stream'
<1>1. /\ PipelineType /\ Stages /\ Split /\ LiveList /\ Chart /\ Toasts
      /\ lastMessage \in Nat /\ lastProcessed \in Nat /\ dismissals \in Nat
      /\ buffer \in Seq(Nat) /\ liveEvents \in Seq(Nat) /\ alerts \in Seq(Nat)
      /\ alerts \in Seq(1..lastProcessed) /\ buffer \in Seq(1..lastProcessed)
  BY DEF Stream, PipelineType, Stages
<1>2. /\ UNCHANGED <<arrived, superseded, nextMessage, lastMessage, effects,
                     lastProcessed, lastAppended, points, toasts, dismissals>>
      /\ frame' = FALSE /\ buffer' = <<>>
      /\ alerts' = alerts \o Only(buffer, AlertMessages)
      /\ liveEvents' = LastOnes(liveEvents \o Only(buffer, LiveMessages))
  BY DEF Flush
<1>3. /\ Heartbeats' = Heartbeats /\ AlertMessages' = AlertMessages
      /\ LiveMessages' = LiveMessages /\ Kept' = Kept
  BY <1>2, SameMarks
<1>4. Rendered' = Rendered /\ Waiting' = Waiting /\ ForLive' = ForLive /\ ForChart' = ForChart
  BY <1>2 DEF Rendered, Waiting, ForLive, ForChart
<1>5. ForLive \in Seq(Nat) /\ (buffer \o ForLive)' = ForLive
  <2>1. ForLive \in Seq(Nat)
    BY <1>1, EmptySeq DEF ForLive
  <2>2. <<>> \o ForLive = ForLive
    BY <2>1
  <2> QED
    BY <1>2, <1>4, <2>1, <2>2
<1>6. \A S : /\ Only(buffer, S) \in Seq(Nat) /\ Only(ForLive, S) \in Seq(Nat)
             /\ Only(buffer \o ForLive, S) = Only(buffer, S) \o Only(ForLive, S)
  BY <1>1, <1>5, OnlyNumbers, OnlyJoined
<1>7. /\ alerts' \in Seq(1..lastProcessed) /\ alerts' \in Seq(Nat)
      /\ alerts' \o <<>> = alerts'
  <2>1. Only(buffer, AlertMessages) \in Seq((1..lastProcessed) \cap AlertMessages)
    BY <1>1, OnlyType
  <2>2. (1..lastProcessed) \cap AlertMessages \subseteq 1..lastProcessed
    OBVIOUS
  <2>3. Only(buffer, AlertMessages) \in Seq(1..lastProcessed)
    BY <2>1, <2>2, Widened
  <2>4. alerts \o Only(buffer, AlertMessages) \in Seq(1..lastProcessed)
    BY <1>1, <2>3, Joined
  <2>5. alerts \o Only(buffer, AlertMessages) \in Seq(Nat)
    BY <1>1, <1>6, Joined
  <2> QED
    BY <1>2, <2>4, <2>5
<1>8. PipelineType'
  <2>1. liveEvents' \in Seq(Nat)
    BY <1>1, <1>2, <1>6, Joined, LastOnesType
  <2>2. buffer' \in Seq(Nat)
    BY <1>2, EmptySeq
  <2> QED
    BY <1>1, <1>2, <1>7, <2>1, <2>2 DEF PipelineType
<1>9. Stages'
  <2>1. buffer' \in Seq(1..lastProcessed)
    BY <1>2, EmptySeq
  <2> QED
    BY <1>1, <1>2, <1>7, <2>1 DEF Stages
<1>10. Split'
  BY <1>1, <1>3, <1>4 DEF Split
<1>11. LiveList'
  <2> DEFINE b == Only(buffer, LiveMessages)
             f == Only(ForLive, LiveMessages)
  <2>1. b \in Seq(Nat) /\ f \in Seq(Nat) /\ Only(buffer \o ForLive, LiveMessages) = b \o f
    BY <1>6
  <2>2. liveEvents' = LastOnes(liveEvents \o b)
    BY <1>2
  <2>3. LastOnes(liveEvents \o (b \o f)) = LastOnes(Only(Rendered, LiveMessages))
    BY <1>1, <2>1 DEF LiveList
  <2>4. LastOnes(LastOnes(liveEvents \o b) \o f) = LastOnes(liveEvents \o (b \o f))
    <3> HIDE DEF b, f
    <3>1. liveEvents \in Seq(Nat) /\ b \in Seq(Nat) /\ f \in Seq(Nat)
      BY <1>1, <2>1
    <3>2. liveEvents \o b \in Seq(Nat) /\ (liveEvents \o b) \o f = liveEvents \o (b \o f)
      BY <3>1, Joined, Associative
    <3> QED
      BY <3>1, <3>2, LastOnesJoined
  <2> QED
    BY <1>3, <1>4, <1>5, <2>2, <2>3, <2>4 DEF LiveList
<1>12. Chart'
  BY <1>1, <1>2, <1>3, <1>4 DEF Chart
<1>13. Toasts'
  <2> DEFINE b == Only(buffer, AlertMessages)
             f == Only(ForLive, AlertMessages)
  <2>1. b \in Seq(Nat) /\ f \in Seq(Nat) /\ Only(buffer \o ForLive, AlertMessages) = b \o f
    BY <1>6
  <2>2. alerts' = alerts \o b
    BY <1>2
  <2>3. Ascending(alerts \o b)
    BY <1>1, AscendingOnly DEF Toasts
  <2>4. Ascending(alerts' \o buffer')
    BY <1>2, <1>7, <2>2, <2>3
  <2>5. Len(Only(Rendered, AlertMessages)) <= Len(alerts) + Len(b \o f) + dismissals
    BY <1>1, <2>1 DEF Toasts
  <2> HIDE DEF b, f
  <2>6. Len(alerts \o b) = Len(alerts) + Len(b) /\ Len(b \o f) = Len(b) + Len(f)
    BY <1>1, <2>1, Joined
  <2>7. Len(alerts) \in Nat /\ Len(b) \in Nat /\ Len(f) \in Nat
    BY <1>1, <2>1, LenProperties
  <2>8. Len(alerts) + Len(b \o f) + dismissals = Len(alerts \o b) + Len(f) + dismissals
    BY <1>1, <2>6, <2>7
  <2> QED
    BY <1>2, <1>3, <1>4, <1>5, <2>2, <2>4, <2>5, <2>8 DEF Toasts, f
<1> QED
  BY <1>8, <1>9, <1>10, <1>11, <1>12, <1>13 DEF Stream

(* A dismissal takes one alert, or none.                                   *)
LEMMA DismissStep ==
  ASSUME Stream, NEW i \in Nat, Dismiss(i)
  PROVE  Stream'
<1>1. /\ PipelineType /\ Stages /\ Split /\ LiveList /\ Chart /\ Toasts
      /\ lastProcessed \in Nat /\ dismissals \in Nat /\ buffer \in Seq(Nat)
      /\ alerts \in Seq(1..lastProcessed) /\ alerts \in Seq(Nat)
  BY DEF Stream, PipelineType, Stages
<1>2. /\ UNCHANGED <<arrived, superseded, nextMessage, lastMessage, effects, lastProcessed,
                     lastAppended, buffer, frame, liveEvents, points, toasts>>
      /\ dismissals' = dismissals + 1
      /\ alerts' = IF i \in DOMAIN alerts THEN RemoveAt(alerts, i) ELSE alerts
  BY DEF Dismiss
<1>3. /\ Heartbeats' = Heartbeats /\ AlertMessages' = AlertMessages
      /\ LiveMessages' = LiveMessages /\ Kept' = Kept
  BY <1>2, SameMarks
<1>4. /\ Rendered' = Rendered /\ Waiting' = Waiting /\ ForLive' = ForLive
      /\ ForChart' = ForChart /\ (buffer \o ForLive)' = buffer \o ForLive
  BY <1>2 DEF Rendered, Waiting, ForLive, ForChart
<1>5. /\ alerts' \in Seq(1..lastProcessed) /\ alerts' \in Seq(Nat)
      /\ Len(alerts) <= Len(alerts') + 1 /\ Ascending(alerts' \o buffer)
  <2>1. CASE i \notin DOMAIN alerts
    BY <1>1, <1>2, <2>1, LenProperties DEF Toasts
  <2>2. CASE i \in DOMAIN alerts
    <3>1. PICK n \in Nat : Len(alerts) = n + 1 /\ i \in 1..(n + 1)
      <4>1. Len(alerts) \in Nat /\ i \in 1..Len(alerts)
        BY <1>1, <2>2, LenProperties
      <4>2. Len(alerts) - 1 \in Nat /\ Len(alerts) = (Len(alerts) - 1) + 1
        BY <4>1
      <4> QED
        BY <4>1, <4>2
    <3>2. alerts' = RemoveAt(alerts, i)
      BY <1>2, <2>2
    <3>3. /\ RemoveAt(alerts, i) \in Seq(1..lastProcessed) /\ RemoveAt(alerts, i) \in Seq(Nat)
          /\ Len(RemoveAt(alerts, i)) = n
      BY <1>1, <3>1, Removed
    <3>4. Ascending(RemoveAt(alerts, i) \o buffer)
      BY <1>1, <3>1, AscendingRemoved DEF Toasts
    <3> QED
      BY <3>1, <3>2, <3>3, <3>4
  <2> QED
    BY <2>1, <2>2
<1>6. PipelineType'
  BY <1>1, <1>2, <1>5 DEF PipelineType
<1>7. Stages'
  BY <1>1, <1>2, <1>5 DEF Stages
<1>8. Split'
  BY <1>1, <1>3, <1>4 DEF Split
<1>9. LiveList'
  BY <1>1, <1>2, <1>3, <1>4 DEF LiveList
<1>10. Chart'
  BY <1>1, <1>2, <1>3, <1>4 DEF Chart
<1>11. Toasts'
  <2> DEFINE r == Len(Only(Rendered, AlertMessages))
             w == Len(Only(buffer \o ForLive, AlertMessages))
  <2>1. r \in Nat /\ w \in Nat
    <3>1. Rendered \in Seq(Nat) /\ buffer \o ForLive \in Seq(Nat)
      <4>1. ForLive \in Seq(Nat)
        BY <1>1, EmptySeq DEF ForLive, PipelineType
      <4> QED
        BY <1>1, <4>1, InStages, Joined
    <3> QED
      BY <3>1, OnlyNumbers, LenProperties
  <2>2. r <= Len(alerts) + w + dismissals
    BY <1>1 DEF Toasts
  <2> HIDE DEF r, w
  <2>3. Len(alerts) \in Nat /\ Len(alerts') \in Nat
    BY <1>1, <1>5, LenProperties
  <2>4. /\ Len(alerts) <= Len(alerts') + 1
        /\ dismissals \in Nat /\ dismissals' = dismissals + 1
    BY <1>1, <1>2, <1>5
  <2>5. r <= Len(alerts') + w + dismissals'
    BY <2>1, <2>2, <2>3, <2>4
  <2> QED
    BY <1>2, <1>3, <1>4, <1>5, <2>5 DEF Toasts, r, w
<1> QED
  BY <1>6, <1>7, <1>8, <1>9, <1>10, <1>11 DEF Stream

-----------------------------------------------------------------------------
(* Every reachable state satisfies the invariant: Init establishes it and  *)
(* every step of useWebSocket, useLiveEvents and HeartbeatChart keeps it.  *)
THEOREM Inductive == Spec => []IInv
<1>1. Init => IInv
  BY ConnectionInit, StreamInit DEF IInv
<1>2. IInv /\ [Next]_vars => IInv'
  <2> SUFFICES ASSUME IInv, [Next]_vars PROVE IInv'
    OBVIOUS
  <2>1. ConnectionType /\ OneLine /\ Stream
    BY DEF IInv
  <2>2. UNCHANGED connection => ConnectionType' /\ OneLine'
    BY <2>1 DEF connection, ConnectionType, OneLine
  <2>3. CASE Connection
    BY <2>1, <2>3, ConnectionStep, StreamUnchanged DEF IInv
  <2>4. ASSUME NEW l \in DOMAIN lines, OnMessage(l)
        PROVE  IInv'
    <3>1. UNCHANGED connection
      BY <2>4 DEF OnMessage
    <3> QED
      BY <2>1, <2>2, <2>4, <3>1, OnMessageStep DEF IInv
  <2>5. ASSUME NEW grown \in BOOLEAN, Render(grown)
        PROVE  IInv'
    <3>1. UNCHANGED connection
      BY <2>5 DEF Render
    <3> QED
      BY <2>1, <2>2, <2>5, <3>1, RenderStep DEF IInv
  <2>6. CASE RunEffects
    <3>1. UNCHANGED connection
      BY <2>6 DEF RunEffects
    <3> QED
      BY <2>1, <2>2, <2>6, <3>1, RunEffectsStep DEF IInv
  <2>7. CASE Flush
    <3>1. UNCHANGED connection
      BY <2>7 DEF Flush
    <3> QED
      BY <2>1, <2>2, <2>7, <3>1, FlushStep DEF IInv
  <2>8. ASSUME NEW i \in 1..MaxMessages, Dismiss(i)
        PROVE  IInv'
    <3>1. UNCHANGED connection /\ i \in Nat
      BY <2>8 DEF Dismiss
    <3> QED
      BY <2>1, <2>2, <2>8, <3>1, DismissStep DEF IInv
  <2>9. CASE UNCHANGED vars
    <3>1. UNCHANGED connection /\ UNCHANGED pipeline
      BY <2>9 DEF vars
    <3> QED
      BY <2>1, <2>2, <3>1, StreamUnchanged DEF IInv
  <2> QED
    BY <2>3, <2>4, <2>5, <2>6, <2>7, <2>8, <2>9 DEF Next
<1> QED
  BY <1>1, <1>2, PTL DEF Spec

(* The state of the hooks has the types and ranges the code gives it: the  *)
(* failure count never passes maxRetries (useWebSocket.ts:75).             *)
THEOREM TypeCorrect == Spec => []TypeOK
<1>1. IInv => TypeOK
  BY DEF IInv, Stream, TypeOK
<1> QED
  BY <1>1, Inductive, PTL

(* Until the first switch of cluster the indicator tells the truth, and a  *)
(* line that ended used all its retries (useWebSocket.ts:72-82).           *)
THEOREM IndicatorIsTrue == Spec => []StatusIsTrue
<1>1. IInv => StatusIsTrue
  BY DEF IInv, OneLine, StatusIsTrue
<1> QED
  BY <1>1, Inductive, PTL

(* What is still to be rendered joins the end of each side.                *)
LEMMA Ending ==
  ASSUME Stream
  PROVE  /\ buffer \o ForLive \in Seq(Nat) /\ Waiting \in Seq(Nat) /\ Rendered \in Seq(Nat)
         /\ buffer \o Unseen = (buffer \o ForLive) \o Waiting
         /\ Kept = Rendered \o Waiting
         /\ \A S : /\ Only(buffer \o Unseen, S) = Only(buffer \o ForLive, S) \o Only(Waiting, S)
                   /\ Only(Kept, S) = Only(Rendered, S) \o Only(Waiting, S)
<1>1. PipelineType /\ Stages /\ Split
  BY DEF Stream
<1>2. buffer \in Seq(Nat) /\ ForLive \in Seq(Nat) /\ Waiting \in Seq(Nat)
  BY <1>1, EmptySeq DEF PipelineType, ForLive, Waiting
<1>3. buffer \o ForLive \in Seq(Nat)
  BY <1>2, Joined
<1>4. Rendered \in Seq(Nat)
  BY <1>1, InStages
<1>5. Unseen = ForLive \o Waiting
  BY DEF Unseen, ForLive, Waiting
<1>6. buffer \o Unseen = (buffer \o ForLive) \o Waiting
  <2>1. \A u \in Seq(Nat) : (buffer \o ForLive) \o u = buffer \o (ForLive \o u)
    BY <1>2, Associative
  <2> QED
    BY <1>2, <1>5, <2>1
<1>7. Kept = Rendered \o Waiting
  BY <1>1 DEF Split
<1>8. \A S : Only((buffer \o ForLive) \o Waiting, S) = Only(buffer \o ForLive, S) \o Only(Waiting, S)
  BY <1>2, <1>3, OnlyJoined
<1>9. \A S : Only(Rendered \o Waiting, S) = Only(Rendered, S) \o Only(Waiting, S)
  BY <1>2, <1>4, OnlyJoined
<1> QED
  BY <1>2, <1>3, <1>4, <1>6, <1>7, <1>8, <1>9

(* A heartbeat or alert is in the live list or on its way to it, in order  *)
(* of arrival and once, unless the next message replaced it before a       *)
(* render or Cap newer ones pushed it out (useWebSocket.ts:53,             *)
(* useLiveEvents.ts:29-78).                                                *)
THEOREM NothingElseIsLost == Spec => []OnlySupersededAreLost
<1>1. ASSUME Stream
      PROVE  OnlySupersededAreLost
  <2> DEFINE a == Only(buffer \o ForLive, LiveMessages)
             r == Only(Rendered, LiveMessages)
             w == Only(Waiting, LiveMessages)
  <2>1. a \in Seq(Nat) /\ r \in Seq(Nat) /\ w \in Seq(Nat)
    BY <1>1, Ending, OnlyNumbers
  <2>2. Only(buffer \o Unseen, LiveMessages) = a \o w /\ Only(Kept, LiveMessages) = r \o w
    BY <1>1, Ending
  <2>3. LastOnes(liveEvents \o a) = LastOnes(r)
    BY <1>1 DEF Stream, LiveList
  <2>4. liveEvents \in Seq(Nat)
    BY <1>1 DEF Stream, PipelineType
  <2> HIDE DEF a, r, w
  <2>5. liveEvents \o a \in Seq(Nat) /\ (liveEvents \o a) \o w = liveEvents \o (a \o w)
    BY <2>1, <2>4, Joined, Associative
  <2>6. LastOnes((liveEvents \o a) \o w) = LastOnes(r \o w)
    BY <2>1, <2>3, <2>5, LastOnesExtended
  <2> QED
    BY <2>2, <2>5, <2>6 DEF OnlySupersededAreLost
<1>2. IInv => OnlySupersededAreLost
  BY <1>1 DEF IInv
<1> QED
  BY <1>2, Inductive, PTL

(* The chart gets each rendered heartbeat once and in order, however often *)
(* the lease data runs its effect again (HeartbeatChart.tsx:219).          *)
THEOREM AppendedOnce == Spec => []ChartAppendsOnce
<1>1. ASSUME Stream
      PROVE  ChartAppendsOnce
  <2> DEFINE S == Heartbeats \cap 1..lastMessage
  <2>1. PipelineType /\ Stages /\ Chart
    BY <1>1 DEF Stream
  <2>2. points \o Only(ForChart, Heartbeats) = Only(Rendered, Heartbeats)
    BY <2>1 DEF Chart
  <2>3. Only(Rendered, S) = Only(Rendered, Heartbeats)
    <3>1. Agree(lastMessage, S, Heartbeats)
      BY DEF Agree
    <3>2. Rendered \in Seq(1..lastMessage)
      BY <2>1, InStages
    <3> HIDE DEF S
    <3> QED
      BY <3>1, <3>2, OnlySameTo
  <2>4. Only(Waiting, S) = <<>>
    <3>1. CASE nextMessage = lastMessage
      BY <3>1, OnlyEmpty DEF Waiting
    <3>2. CASE nextMessage # lastMessage
      <4>1. nextMessage \notin S
        BY <2>1, <3>2 DEF PipelineType, Stages
      <4> QED
        BY <3>2, <4>1, OnlyOne DEF Waiting
    <3> QED
      BY <3>1, <3>2
  <2>5. Only(Kept, S) = Only(Rendered, S) \o Only(Waiting, S)
    BY <1>1, Ending
  <2>6. Only(Rendered, S) \o <<>> = Only(Rendered, S)
    <3>1. Only(Rendered, S) \in Seq(Nat)
      BY <1>1, Ending, OnlyNumbers
    <3> HIDE DEF S
    <3> QED
      BY <3>1
  <2>7. Only(Kept, S) = Only(Rendered, Heartbeats)
    BY <2>3, <2>4, <2>5, <2>6
  <2> QED
    BY <2>2, <2>7 DEF ChartAppendsOnce, ForChart
<1>2. IInv => ChartAppendsOnce
  BY <1>1 DEF IInv
<1> QED
  BY <1>2, Inductive, PTL

(* Toasts are in the order of their alerts, and no more of them are gone   *)
(* than were dismissed, whatever index a dismissal uses                    *)
(* (useLiveEvents.ts:79-81).                                               *)
THEOREM AlertsStay == Spec => []AlertsWaitForDismissal
<1>1. ASSUME Stream
      PROVE  AlertsWaitForDismissal
  <2>1. /\ alerts \in Seq(Nat) /\ buffer \in Seq(Nat) /\ dismissals \in Nat /\ Toasts
    BY <1>1 DEF Stream, PipelineType
  <2>2. \A i, j \in DOMAIN alerts : i < j => alerts[i] < alerts[j]
    <3> DEFINE s == alerts \o buffer
    <3>1. \A i \in DOMAIN alerts : i \in DOMAIN s /\ s[i] = alerts[i]
      BY <2>1
    <3>2. Ascending(s)
      BY <2>1 DEF Toasts
    <3> HIDE DEF s
    <3> QED
      BY <3>1, <3>2 DEF Ascending
  <2> DEFINE a == Only(buffer \o ForLive, AlertMessages)
             r == Only(Rendered, AlertMessages)
             w == Only(Waiting, AlertMessages)
  <2>3. a \in Seq(Nat) /\ r \in Seq(Nat) /\ w \in Seq(Nat)
    BY <1>1, Ending, OnlyNumbers
  <2>4. Only(buffer \o Unseen, AlertMessages) = a \o w /\ Only(Kept, AlertMessages) = r \o w
    BY <1>1, Ending
  <2>5. Len(r) <= Len(alerts) + Len(a) + dismissals
    BY <2>1 DEF Toasts
  <2> HIDE DEF a, r, w
  <2>6. Len(a \o w) = Len(a) + Len(w) /\ Len(r \o w) = Len(r) + Len(w)
    BY <2>3, Joined
  <2>7. /\ Len(alerts) \in Nat /\ Len(a) \in Nat /\ Len(r) \in Nat /\ Len(w) \in Nat
        /\ dismissals \in Nat
    BY <2>1, <2>3, LenProperties
  <2>8. Len(r \o w) <= Len(alerts) + Len(a \o w) + dismissals
    BY <2>5, <2>6, <2>7
  <2> QED
    BY <2>2, <2>4, <2>8 DEF AlertsWaitForDismissal
<1>2. IInv => AlertsWaitForDismissal
  BY <1>1 DEF IInv
<1> QED
  BY <1>2, Inductive, PTL

=============================================================================
