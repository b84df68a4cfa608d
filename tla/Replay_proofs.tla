---------------------------- MODULE Replay_proofs ----------------------------
(***************************************************************************)
(* Proofs about Replay, for any events, queries, page sizes, retention and *)
(* length up to which sort.Slice is stable.                                *)
(***************************************************************************)
EXTENDS Replay, FiniteSetTheorems, SequenceTheorems, TLAPS

-----------------------------------------------------------------------------
(* The inductive invariant                                                 *)

TypeOK ==
  /\ redis \in BOOLEAN
  /\ stored \in Seq(Events)
  /\ query \in Queries \cup {Absent}
  /\ next \in Nat
  /\ results \in Seq(Seq(Events))
  /\ pages \in Seq(Seq(Events))

(* The pages asked for are 1, 2, ..., each cut from what its own request   *)
(* found, all of one size; the client stops at the first empty one.        *)
Asked ==
  /\ Len(results) = Len(pages)
  /\ query = Absent => pages = <<>>
  /\ next # 0 => next = Len(pages) + 1
  /\ next = 0 => pages # <<>> /\ pages[Len(pages)] = <<>>
  /\ \A i \in Requests : pages[i] = Page(results[i], i, Size(query))

(* A result lists stored events, each once, in the order of time; a short  *)
(* one keeps the store's order among equal times.                          *)
Listed(s) ==
  /\ IsInjective(s)
  /\ ToSet(s) \subseteq ToSet(stored)
  /\ Chronological(s)
  /\ Len(s) <= StableUpTo => KeepsTies(s)

Lists == \A i \in DOMAIN results : Listed(results[i])

(* The same events are sorted the same way every time.                     *)
SameAgain ==
  \A i, j \in DOMAIN results :
    ToSet(results[i]) = ToSet(results[j]) => results[i] = results[j]

IInv == TypeOK /\ IsInjective(stored) /\ Asked /\ Lists /\ SameAgain

-----------------------------------------------------------------------------
(* Pages of a list                                                         *)

LEMMA SmallerOfTwo ==
  ASSUME NEW a \in Int, NEW b \in Int
  PROVE  Min({a, b}) = IF a <= b THEN a ELSE b
<1> DEFINE m == IF a <= b THEN a ELSE b
<1>1. m \in {a, b} /\ \A y \in {a, b} : m <= y
  OBVIOUS
<1>2. \A x \in {a, b} : (\A y \in {a, b} : x <= y) => x = m
  OBVIOUS
<1> HIDE DEF m
<1>3. Min({a, b}) = m
  BY <1>1, <1>2 DEF Min
<1> QED
  BY <1>3 DEF m

LEMMA Multiples ==
  ASSUME NEW i \in Nat, NEW j \in Nat, NEW size \in Nat, i <= j
  PROVE  i * size \in Nat /\ j * size \in Nat /\ i * size <= j * size
<1>1. PICK d \in Nat : j = i + d
  <2>1. j - i \in Nat /\ j = i + (j - i)
    OBVIOUS
  <2> QED
    BY <2>1
<1>2. i * size \in Nat /\ d * size \in Nat
  OBVIOUS
<1>3. j * size = i * size + d * size
  BY <1>1
<1> QED
  BY <1>2, <1>3

(* The part of a list behind position lo, up to hi.                        *)
LEMMA Cut ==
  ASSUME NEW X, NEW s \in Seq(X), NEW lo \in Nat, NEW hi \in Nat, lo < hi
  PROVE  LET p == SubSeq(s, lo + 1, Min({hi, Len(s)}))
         IN  /\ p \in Seq(X)
             /\ \A k \in DOMAIN p : lo + k \in DOMAIN s /\ lo + k <= hi /\ p[k] = s[lo + k]
             /\ \A a \in DOMAIN s : lo < a /\ a <= hi => s[a] \in ToSet(p)
             /\ p = <<>> => Len(s) <= lo
<1> DEFINE n == Min({hi, Len(s)})
           p == SubSeq(s, lo + 1, n)
<1>1. Len(s) \in Nat
  BY LenProperties
<1>0. DOMAIN s = 1..Len(s)
  BY LenProperties
<1>2. n \in Nat /\ n <= hi /\ n <= Len(s) /\ (n = hi \/ n = Len(s))
  <2>1. n = IF hi <= Len(s) THEN hi ELSE Len(s)
    BY <1>1, SmallerOfTwo
  <2> HIDE DEF n
  <2> QED
    BY <1>1, <2>1
<1> HIDE DEF n
<1>3. \A i \in (lo + 1)..n : s[i] \in X
  <2> TAKE i \in (lo + 1)..n
  <2>1. i \in 1..Len(s)
    BY <1>1, <1>2
  <2> QED
    BY <2>1, ElementOfSeq
<1>4. /\ p \in Seq(X)
      /\ Len(p) = IF lo + 1 <= n THEN n - (lo + 1) + 1 ELSE 0
      /\ \A i \in 1..(n - (lo + 1) + 1) : p[i] = s[(lo + 1) + i - 1]
  <2>1. lo + 1 \in Int /\ n \in Int
    BY <1>2
  <2> QED
    BY <1>3, <2>1, SubSeqProperties
<1> HIDE DEF p
<1>5. DOMAIN p = 1..Len(p) /\ Len(p) \in Nat
  BY <1>4, LenProperties
<1>6. Len(p) = IF lo < n THEN n - lo ELSE 0
  <2>1. Len(p) = IF lo + 1 <= n THEN n - (lo + 1) + 1 ELSE 0
    BY <1>4
  <2> QED
    BY <1>2, <2>1
<1>7. ASSUME NEW k \in DOMAIN p
      PROVE  lo + k \in DOMAIN s /\ lo + k <= hi /\ p[k] = s[lo + k]
  <2>1. k \in Nat /\ 1 <= k /\ k <= Len(p)
    BY <1>5
  <2>2. lo < n /\ k <= n - lo
    BY <1>2, <1>6, <2>1
  <2>3. /\ k \in 1..(n - (lo + 1) + 1)
        /\ (lo + 1) + k - 1 = lo + k
        /\ lo + k \in 1..Len(s) /\ lo + k <= hi
    BY <1>1, <1>2, <2>1, <2>2
  <2>4. p[k] = s[(lo + 1) + k - 1]
    BY <1>4, <2>3
  <2> QED
    BY <1>0, <2>3, <2>4
<1>8. ASSUME NEW a \in DOMAIN s, lo < a, a <= hi
      PROVE  s[a] \in ToSet(p)
  <2>1. a \in Nat /\ a <= Len(s)
    BY <1>1, <1>0
  <2>2. a - lo \in 1..Len(p) /\ lo + (a - lo) = a
    BY <1>1, <1>2, <1>6, <1>8, <2>1
  <2>3. p[a - lo] = s[a]
    BY <1>5, <1>7, <2>2
  <2> QED
    BY <1>5, <2>2, <2>3 DEF ToSet
<1>9. ASSUME p = <<>> PROVE Len(s) <= lo
  <2>1. Len(p) = 0
    BY <1>9, EmptySeq
  <2> QED
    BY <1>1, <1>2, <1>6, <2>1
<1> QED
  BY <1>4, <1>7, <1>8, <1>9 DEF n, p

LEMMA OnPage ==
  ASSUME NEW X, NEW s \in Seq(X), NEW n \in Nat \ {0}, NEW size \in Nat \ {0}
  PROVE  LET p == Page(s, n, size)
             lo == (n - 1) * size
             hi == n * size
         IN  /\ lo \in Nat /\ hi \in Nat
             /\ p \in Seq(X)
             /\ \A k \in DOMAIN p : lo + k \in DOMAIN s /\ lo + k <= hi /\ p[k] = s[lo + k]
             /\ \A a \in DOMAIN s : lo < a /\ a <= hi => s[a] \in ToSet(p)
             /\ p = <<>> => Len(s) <= lo
<1> DEFINE lo == (n - 1) * size
           hi == n * size
<1>1. lo \in Nat /\ hi \in Nat /\ lo < hi
  <2>1. n - 1 \in Nat /\ n \in Nat /\ n = (n - 1) + 1
    OBVIOUS
  <2>2. lo \in Nat
    BY <2>1
  <2>3. hi = lo + size
    BY <2>1
  <2> QED
    BY <2>2, <2>3
<1>2. Page(s, n, size) = SubSeq(s, lo + 1, Min({hi, Len(s)}))
  BY DEF Page
<1> HIDE DEF lo, hi
<1>3. LET p == SubSeq(s, lo + 1, Min({hi, Len(s)}))
      IN  /\ p \in Seq(X)
          /\ \A k \in DOMAIN p : lo + k \in DOMAIN s /\ lo + k <= hi /\ p[k] = s[lo + k]
          /\ \A a \in DOMAIN s : lo < a /\ a <= hi => s[a] \in ToSet(p)
          /\ p = <<>> => Len(s) <= lo
  BY <1>1, Cut
<1>4. /\ Page(s, n, size) \in Seq(X)
      /\ \A k \in DOMAIN Page(s, n, size) :
           lo + k \in DOMAIN s /\ lo + k <= hi /\ Page(s, n, size)[k] = s[lo + k]
      /\ \A a \in DOMAIN s : lo < a /\ a <= hi => s[a] \in ToSet(Page(s, n, size))
      /\ Page(s, n, size) = <<>> => Len(s) <= lo
  BY <1>2, <1>3
<1> QED
  BY <1>1, <1>4 DEF lo, hi

-----------------------------------------------------------------------------
(* Two lists                                                               *)

(* The first n of S are different; each is among the first m of R.         *)
Different(S, n) == \A k, l \in 1..n : S[k] = S[l] => k = l
Among(S, n, R, m) == \A k \in 1..n : \E l \in 1..m : S[k] = R[l]

LEMMA Fits ==
  ASSUME NEW n \in Nat, NEW m \in Nat, NEW R, NEW S,
         Different(S, n), Among(S, n, R, m)
  PROVE  n <= m
<1> DEFINE f == [k \in 1..n |-> CHOOSE l \in 1..m : S[k] = R[l]]
<1>1. \A k \in 1..n : f[k] \in 1..m /\ S[k] = R[f[k]]
  BY DEF Among
<1>2. f \in Injection(1..n, 1..m)
  <2>1. f \in [1..n -> 1..m]
    BY <1>1
  <2>2. \A k, l \in 1..n : f[k] = f[l] => k = l
    <3> TAKE k, l \in 1..n
    <3> HAVE f[k] = f[l]
    <3>1. S[k] = S[l]
      BY <1>1
    <3> QED
      BY <3>1 DEF Different
  <2> QED
    BY <2>1, <2>2 DEF Injection, IsInjective
<1> HIDE DEF f
<1>3. /\ IsFiniteSet(1..m)
      /\ Cardinality(1..m) = m
      /\ Cardinality(1..n) = n
  <2>1. 0 \in Int /\ 1 \in Int /\ n \in Int /\ m \in Int
    OBVIOUS
  <2>2. /\ IsFiniteSet(1..m)
        /\ Cardinality(1..m) = IF 1 > m THEN 0 ELSE m - 1 + 1
        /\ Cardinality(1..n) = IF 1 > n THEN 0 ELSE n - 1 + 1
    BY <2>1, FS_Interval
  <2> QED
    BY <2>2
<1>4. Cardinality(1..n) <= Cardinality(1..m)
  BY <1>2, <1>3, FS_Injection
<1> QED
  BY <1>3, <1>4

(* A list whose first n are among the first m of another.                  *)
LEMMA NoFurther ==
  ASSUME NEW R \in Seq(Events), NEW S \in Seq(Events), IsInjective(S),
         NEW n \in Nat, NEW m \in Nat, n <= Len(S),
         \A k \in 1..n : \E l \in DOMAIN R : S[k] = R[l] /\ l <= m
  PROVE  n <= m
<1>1. \A k \in 1..n : k \in DOMAIN S
  BY LenProperties
<1>2. \A k, l \in 1..n : S[k] = S[l] => k = l
  BY <1>1 DEF IsInjective
<1>3. ASSUME NEW k \in 1..n PROVE \E l \in 1..m : S[k] = R[l]
  <2>1. PICK l \in DOMAIN R : S[k] = R[l] /\ l <= m
    OBVIOUS
  <2>2. l \in Nat /\ 1 <= l
    BY LenProperties
  <2>3. l \in 1..m
    BY <2>1, <2>2
  <2> QED
    BY <2>1, <2>3
<1>4. Different(S, n) /\ Among(S, n, R, m)
  BY <1>2, <1>3 DEF Different, Among
<1> QED
  BY <1>4, Fits

(* What stands for a result in the arguments below.                        *)
LEMMA ListedIs ==
  ASSUME TypeOK, NEW s \in Seq(Events), Listed(s)
  PROVE  /\ IsInjective(s)
         /\ DOMAIN s = 1..Len(s) /\ Len(s) \in Nat
         /\ \A i \in DOMAIN s : s[i] \in Events /\ s[i].ts \in Int /\ s[i] \in ToSet(s)
         /\ \A i, j \in DOMAIN s : s[i] = s[j] => i = j
         /\ \A i, j \in DOMAIN s : i < j => s[i].ts <= s[j].ts
<1>1. DOMAIN s = 1..Len(s) /\ Len(s) \in Nat
  BY LenProperties
<1>2. \A i \in DOMAIN s : s[i] \in Events
  BY LenProperties, ElementOfSeq
<1>3. \A i \in DOMAIN s : s[i].ts \in Int /\ s[i] \in ToSet(s)
  BY <1>2, ReplayAssumption DEF ToSet
<1> QED
  BY <1>1, <1>2, <1>3 DEF Listed, IsInjective, Chronological

(* Where a store lists an event does not depend on what arrives later.     *)
LEMMA ArrivalIs ==
  ASSUME NEW s, IsInjective(s), NEW i \in DOMAIN s
  PROVE  (CHOOSE k \in DOMAIN s : s[k] = s[i]) = i
<1> DEFINE c == CHOOSE k \in DOMAIN s : s[k] = s[i]
<1>1. c \in DOMAIN s /\ s[c] = s[i]
  OBVIOUS
<1> HIDE DEF c
<1>2. c = i
  BY <1>1 DEF IsInjective
<1> QED
  BY <1>2 DEF c

LEMMA RankIsInt ==
  ASSUME TypeOK, IsInjective(stored), NEW e \in ToSet(stored)
  PROVE  Rank(e) \in Int
<1>1. PICK i \in DOMAIN stored : e = stored[i]
  BY DEF ToSet
<1>2. DOMAIN stored = 1..Len(stored) /\ Len(stored) \in Nat
  BY LenProperties DEF TypeOK
<1>3. e \in Events /\ i \in Int
  BY <1>1, <1>2, ElementOfSeq DEF TypeOK
<1>4. (CHOOSE k \in DOMAIN stored : stored[k] = e) = i
  BY <1>1, ArrivalIs
<1> QED
  BY <1>3, <1>4, ReplayAssumption DEF Rank

(* An event of two results of which every event that may stand before it   *)
(* in the second could already stand before it in the first, with ties     *)
(* kept in both, is no later in the second.                                *)
LEMMA NotPushedBack ==
  ASSUME IInv, NEW i \in DOMAIN results, NEW j \in DOMAIN results, ~Reordered(i, j),
         NEW a \in DOMAIN results[i], NEW b \in DOMAIN results[j],
         results[i][a] = results[j][b],
         Ahead(results[j][b], results[j]) \subseteq Ahead(results[j][b], results[i])
  PROVE  b <= a
<1> DEFINE R == results[i]
           S == results[j]
           e == S[b]
<1>1. R \in Seq(Events) /\ S \in Seq(Events)
  BY LenProperties, ElementOfSeq DEF IInv, TypeOK
<1>2. Listed(R) /\ Listed(S)
  BY DEF IInv, Lists
<1>3. R[a] = e /\ a \in DOMAIN R /\ b \in DOMAIN S
  OBVIOUS
<1>4. Ahead(e, S) \subseteq Ahead(e, R)
  OBVIOUS
<1>5. R = S \/ (Len(R) <= StableUpTo /\ Len(S) <= StableUpTo)
  <2>1. CASE ToSet(R) = ToSet(S)
    BY <2>1 DEF IInv, SameAgain
  <2>2. CASE ToSet(R) # ToSet(S)
    <3>1. ~(Len(R) > StableUpTo) /\ ~(Len(S) > StableUpTo)
      BY <2>2 DEF Reordered
    <3>2. Len(R) \in Nat /\ Len(S) \in Nat /\ StableUpTo \in Nat
      BY <1>1, LenProperties, ReplayAssumption
    <3> QED
      BY <3>1, <3>2
  <2> QED
    BY <2>1, <2>2
<1> HIDE DEF R, S
<1>6. TypeOK /\ IsInjective(stored)
  BY DEF IInv
<1>7. a \in Nat /\ b \in Nat /\ b <= Len(S) /\ 1 <= b /\ 1 <= a
  BY <1>1, <1>3, LenProperties
<1>8. CASE R = S
  <2>1. a = b
    BY <1>2, <1>3, <1>8 DEF Listed, IsInjective
  <2> QED
    BY <1>7, <2>1
<1>9. CASE Len(R) <= StableUpTo /\ Len(S) <= StableUpTo
  <2>1. KeepsTies(R) /\ KeepsTies(S)
    BY <1>2, <1>9 DEF Listed
  <2>2. ASSUME NEW k \in 1..(b - 1)
        PROVE  \E l \in DOMAIN R : S[k] = R[l] /\ l <= a - 1
    <3>1. k \in Nat /\ k < b /\ k \in DOMAIN S
      BY <1>1, <1>7, LenProperties
    <3>2. S[k].ts <= e.ts /\ S[k] \in ToSet(S) /\ S[k] # e
      BY <1>1, <1>2, <1>3, <1>6, <1>7, <3>1, ListedIs
    <3>3. S[k] \in Ahead(e, R)
      BY <1>4, <3>2 DEF Ahead
    <3>4. PICK l \in DOMAIN R : S[k] = R[l]
      BY <3>3 DEF Ahead, ToSet
    <3>5. l \in Nat /\ l # a
      BY <1>1, <1>3, <3>2, <3>4, LenProperties
    <3>6. ~(a < l)
      <4> SUFFICES ASSUME a < l PROVE FALSE
        OBVIOUS
      <4>1. e.ts <= S[k].ts
        BY <1>1, <1>2, <1>3, <1>6, <3>4, ListedIs
      <4>2. S[k].ts \in Int /\ e.ts \in Int
        BY <1>1, <1>2, <1>3, <1>6, <3>1, ListedIs
      <4>3. S[k].ts = S[b].ts /\ R[a].ts = R[l].ts
        BY <1>3, <3>2, <3>4, <4>1, <4>2
      <4>4. Rank(S[k]) < Rank(S[b])
        BY <1>3, <2>1, <3>1, <4>3 DEF KeepsTies
      <4>5. Rank(R[a]) < Rank(R[l])
        BY <1>3, <2>1, <4>3 DEF KeepsTies
      <4>6. Rank(S[k]) < Rank(e) /\ Rank(e) < Rank(S[k])
        BY <1>3, <3>4, <4>4, <4>5
      <4>7. e \in ToSet(stored) /\ S[k] \in ToSet(stored)
        BY <1>1, <1>2, <1>3, <1>6, <3>1, ListedIs DEF Listed
      <4>8. Rank(e) \in Int /\ Rank(S[k]) \in Int
        BY <1>6, <4>7, RankIsInt
      <4> QED
        BY <4>6, <4>8
    <3>7. l <= a - 1
      BY <1>7, <3>5, <3>6
    <3> QED
      BY <3>4, <3>7
  <2>3. b - 1 \in Nat /\ a - 1 \in Nat /\ b - 1 <= Len(S)
    <3>1. Len(S) \in Nat
      BY <1>1, LenProperties
    <3> QED
      BY <1>7, <3>1
  <2>4. b - 1 <= a - 1
    <3>1. IsInjective(S)
      BY <1>2 DEF Listed
    <3> HIDE DEF e
    <3> QED
      BY <1>1, <2>2, <2>3, <3>1, NoFurther
  <2> QED
    BY <1>7, <2>4
<1> QED
  BY <1>5, <1>8, <1>9

(* An event of the second that is earlier than one of the first, and that  *)
(* the first had ahead of that one, comes no further back.                 *)
LEMMA EarlierComesFirst ==
  ASSUME IInv, NEW i \in DOMAIN results, NEW j \in DOMAIN results,
         NEW a \in DOMAIN results[i], NEW b \in DOMAIN results[j],
         results[j][b].ts < results[i][a].ts,
         Ahead(results[i][a], results[j]) \subseteq Ahead(results[i][a], results[i])
  PROVE  b <= a
<1> DEFINE R == results[i]
           S == results[j]
           e == R[a]
<1>1. R \in Seq(Events) /\ S \in Seq(Events)
  BY LenProperties, ElementOfSeq DEF IInv, TypeOK
<1>2. Listed(R) /\ Listed(S)
  BY DEF IInv, Lists
<1>3. a \in DOMAIN R /\ b \in DOMAIN S /\ S[b].ts < e.ts
  OBVIOUS
<1>4. Ahead(e, S) \subseteq Ahead(e, R)
  OBVIOUS
<1> HIDE DEF R, S
<1>5. TypeOK
  BY DEF IInv
<1>6. a \in Nat /\ b \in Nat /\ b <= Len(S)
  BY <1>1, <1>3, LenProperties
<1>7. ASSUME NEW k \in 1..b
      PROVE  \E l \in DOMAIN R : S[k] = R[l] /\ l <= a
  <2>1. k \in Nat /\ k <= b /\ k \in DOMAIN S
    BY <1>1, <1>6, LenProperties
  <2>2. S[k].ts <= S[b].ts
    <3>1. S[k].ts \in Int
      BY <1>1, <1>2, <1>5, <2>1, ListedIs
    <3>2. CASE k = b
      BY <3>1, <3>2
    <3>3. CASE k # b
      <4>1. k < b
        BY <1>6, <2>1, <3>3
      <4> QED
        BY <1>1, <1>2, <1>3, <1>5, <2>1, <4>1, ListedIs
    <3> QED
      BY <3>2, <3>3
  <2>3. /\ S[k].ts \in Int /\ S[b].ts \in Int /\ e.ts \in Int
        /\ S[k] \in ToSet(S)
    BY <1>1, <1>2, <1>3, <1>5, <2>1, ListedIs
  <2>4. S[k].ts < e.ts /\ S[k].ts <= e.ts
    BY <1>3, <2>2, <2>3
  <2>5. S[k] \in Ahead(e, R)
    BY <1>4, <2>3, <2>4 DEF Ahead
  <2>6. PICK l \in DOMAIN R : S[k] = R[l]
    BY <2>5 DEF Ahead, ToSet
  <2>7. ~(a < l)
    <3> SUFFICES ASSUME a < l PROVE FALSE
      OBVIOUS
    <3>1. e.ts <= S[k].ts
      BY <1>1, <1>2, <1>3, <1>5, <2>6, ListedIs
    <3> QED
      BY <2>3, <2>4, <3>1
  <2>8. l \in Nat
    BY <1>1, LenProperties
  <2> QED
    BY <1>6, <2>6, <2>7, <2>8
<1>8. IsInjective(S)
  BY <1>2 DEF Listed
<1> HIDE DEF e
<1> QED
  BY <1>1, <1>6, <1>7, <1>8, NoFurther

-----------------------------------------------------------------------------
(* What the client has seen                                                *)

LEMMA SizeIs ==
  ASSUME NEW q \in Queries
  PROVE  Size(q) \in Nat \ {0}
BY ReplayAssumption DEF Size

(* Which positions of its result a page shows.                             *)
LEMMA Shown ==
  ASSUME IInv, NEW i \in Requests
  PROVE  LET size == Size(query)
         IN  /\ size \in Nat \ {0} /\ i \in Nat \ {0} /\ i \in DOMAIN results
             /\ (i - 1) * size \in Nat /\ i * size \in Nat
             /\ \A e \in ToSet(pages[i]) : \E a \in DOMAIN results[i] :
                  results[i][a] = e /\ (i - 1) * size < a /\ a <= i * size
             /\ \A a \in DOMAIN results[i] :
                  (i - 1) * size < a /\ a <= i * size => results[i][a] \in ToSet(pages[i])
             /\ pages[i] = <<>> => Len(results[i]) <= (i - 1) * size
<1> DEFINE size == Size(query)
           lo == (i - 1) * size
           hi == i * size
           s == results[i]
           p == pages[i]
<1>1. Len(pages) \in Nat /\ Len(results) = Len(pages)
  BY LenProperties DEF IInv, TypeOK, Asked
<1>2. i \in Nat \ {0} /\ i \in 1..Len(results) /\ i \in 1..Len(pages)
  BY <1>1 DEF Requests
<1>3. DOMAIN results = 1..Len(results)
  BY LenProperties DEF IInv, TypeOK
<1>4. s \in Seq(Events)
  BY <1>2, ElementOfSeq DEF IInv, TypeOK
<1>5. query \in Queries
  <2>1. pages # <<>>
    BY <1>2, EmptySeq
  <2> QED
    BY <2>1 DEF IInv, TypeOK, Asked
<1>6. size \in Nat \ {0}
  BY <1>5, SizeIs
<1>7. p = Page(s, i, size)
  BY DEF IInv, Asked
<1> HIDE DEF size, s, p
<1>8. /\ lo \in Nat /\ hi \in Nat
      /\ Page(s, i, size) \in Seq(Events)
      /\ \A k \in DOMAIN Page(s, i, size) :
           lo + k \in DOMAIN s /\ lo + k <= hi /\ Page(s, i, size)[k] = s[lo + k]
      /\ \A a \in DOMAIN s : lo < a /\ a <= hi => s[a] \in ToSet(Page(s, i, size))
      /\ Page(s, i, size) = <<>> => Len(s) <= lo
  BY <1>2, <1>4, <1>6, OnPage
<1> HIDE DEF lo, hi
<1>9. ASSUME NEW e \in ToSet(p)
      PROVE  \E a \in DOMAIN s : s[a] = e /\ lo < a /\ a <= hi
  <2>1. PICK k \in DOMAIN p : e = p[k]
    BY DEF ToSet
  <2>2. lo + k \in DOMAIN s /\ lo + k <= hi /\ p[k] = s[lo + k]
    BY <1>7, <1>8
  <2>3. k \in Nat /\ 1 <= k
    BY <1>7, <1>8, LenProperties
  <2>4. lo < lo + k
    BY <1>8, <2>3
  <2> QED
    BY <2>1, <2>2, <2>4
<1>10. \A a \in DOMAIN s : lo < a /\ a <= hi => s[a] \in ToSet(p)
  BY <1>7, <1>8
<1>11. p = <<>> => Len(s) <= lo
  BY <1>7, <1>8
<1>12. /\ size \in Nat \ {0} /\ i \in Nat \ {0} /\ i \in DOMAIN results
       /\ lo \in Nat /\ hi \in Nat
  BY <1>2, <1>3, <1>6, <1>8
<1> QED
  BY <1>9, <1>10, <1>11, <1>12 DEF size, lo, hi, s, p

(* What an earlier request showed was further to the front.                *)
LEMMA EarlierRequest ==
  ASSUME IInv, NEW j \in Requests, NEW i \in 1..(j - 1)
  PROVE  LET size == Size(query)
         IN  i \in Requests /\ i * size \in Nat /\ (j - 1) * size \in Nat
             /\ i * size <= (j - 1) * size
<1>1. j \in Nat \ {0} /\ Len(pages) \in Nat /\ j <= Len(pages)
  BY LenProperties DEF IInv, TypeOK, Requests
<1>2. i \in Nat /\ j - 1 \in Nat /\ i <= j - 1 /\ i \in 1..Len(pages)
  BY <1>1
<1>3. Size(query) \in Nat
  BY Shown
<1>4. i * Size(query) \in Nat /\ (j - 1) * Size(query) \in Nat
      /\ i * Size(query) <= (j - 1) * Size(query)
  BY <1>2, <1>3, Multiples
<1> QED
  BY <1>2, <1>4 DEF Requests

LEMMA Repeats == IInv => RepeatsAreExplained
<1> SUFFICES ASSUME IInv, NEW j \in Requests, NEW i \in 1..(j - 1),
                    NEW e \in ToSet(pages[i]) \cap ToSet(pages[j]),
                    ~CameIn(e, i, j), ~Reordered(i, j)
             PROVE  FALSE
  BY DEF RepeatsAreExplained
<1> DEFINE size == Size(query)
<1>1. /\ i \in Requests /\ i * size \in Nat /\ (j - 1) * size \in Nat
      /\ i * size <= (j - 1) * size
  BY EarlierRequest
<1>2. PICK a \in DOMAIN results[i] : results[i][a] = e /\ a <= i * size
  BY <1>1, Shown
<1>3. PICK b \in DOMAIN results[j] : results[j][b] = e /\ (j - 1) * size < b
  BY Shown
<1>4. i \in DOMAIN results /\ j \in DOMAIN results
  BY <1>1, Shown
<1> HIDE DEF size
<1>5. Ahead(e, results[j]) \subseteq Ahead(e, results[i])
  BY DEF CameIn
<1>6. b <= a
  BY <1>2, <1>3, <1>4, <1>5, NotPushedBack
<1>7. a \in Nat /\ b \in Nat
  <2>1. results[i] \in Seq(Events) /\ results[j] \in Seq(Events)
    BY <1>4, LenProperties, ElementOfSeq DEF IInv, TypeOK
  <2> QED
    BY <1>2, <1>3, <2>1, LenProperties
<1> QED
  BY <1>1, <1>2, <1>3, <1>6, <1>7

LEMMA InOrder == IInv => PagesAreInOrder
<1> SUFFICES ASSUME IInv, NEW j \in Requests
             PROVE  /\ Chronological(pages[j])
                    /\ \A i \in 1..(j - 1) :
                         \A e \in ToSet(pages[i]), f \in ToSet(pages[j]) :
                           f.ts < e.ts => CameIn(e, i, j)
  BY DEF PagesAreInOrder
<1> DEFINE size == Size(query)
<1>1. Chronological(pages[j])
  <2> DEFINE s == results[j]
             p == pages[j]
             lo == (j - 1) * size
  <2>1. size \in Nat \ {0} /\ j \in Nat \ {0} /\ j \in DOMAIN results /\ lo \in Nat
    BY Shown
  <2>2. s \in Seq(Events) /\ p = Page(s, j, size)
    BY <2>1, LenProperties, ElementOfSeq DEF IInv, TypeOK, Asked
  <2>3. Chronological(s)
    BY <2>1 DEF IInv, Lists, Listed
  <2> HIDE DEF s, p, size
  <2>4. /\ p \in Seq(Events)
        /\ \A k \in DOMAIN p : lo + k \in DOMAIN s /\ p[k] = s[lo + k]
    BY <2>1, <2>2, OnPage
  <2> HIDE DEF lo
  <2>5. ASSUME NEW k \in DOMAIN p, NEW l \in DOMAIN p, k < l
        PROVE  p[k].ts <= p[l].ts
    <3>1. k \in Nat /\ l \in Nat
      BY <2>4, LenProperties
    <3>2. lo + k < lo + l
      BY <2>1, <2>5, <3>1
    <3>3. /\ lo + k \in DOMAIN s /\ lo + l \in DOMAIN s
          /\ p[k] = s[lo + k] /\ p[l] = s[lo + l]
      BY <2>4
    <3> QED
      BY <2>3, <3>2, <3>3 DEF Chronological
  <2> QED
    BY <2>5 DEF Chronological, p
<1>2. ASSUME NEW i \in 1..(j - 1),
             NEW e \in ToSet(pages[i]), NEW f \in ToSet(pages[j]),
             f.ts < e.ts, ~CameIn(e, i, j)
      PROVE  FALSE
  <2>1. /\ i \in Requests /\ i * size \in Nat /\ (j - 1) * size \in Nat
        /\ i * size <= (j - 1) * size
    BY EarlierRequest
  <2>2. PICK a \in DOMAIN results[i] : results[i][a] = e /\ a <= i * size
    BY <2>1, Shown
  <2>3. PICK b \in DOMAIN results[j] : results[j][b] = f /\ (j - 1) * size < b
    BY Shown
  <2>4. i \in DOMAIN results /\ j \in DOMAIN results
    BY <2>1, Shown
  <2> HIDE DEF size
  <2>5. Ahead(e, results[j]) \subseteq Ahead(e, results[i])
    BY <1>2 DEF CameIn
  <2>6. b <= a
    BY <1>2, <2>2, <2>3, <2>4, <2>5, EarlierComesFirst
  <2>7. a \in Nat /\ b \in Nat
    <3>1. results[i] \in Seq(Events) /\ results[j] \in Seq(Events)
      BY <2>4, LenProperties, ElementOfSeq DEF IInv, TypeOK
    <3> QED
      BY <2>2, <2>3, <3>1, LenProperties
  <2> QED
    BY <2>1, <2>2, <2>3, <2>6, <2>7
<1> QED
  BY <1>1, <1>2

(* A non-empty set of numbers has a smallest member.                       *)
LEMMA SmallestExists ==
  ASSUME NEW N \in SUBSET Nat, N # {}
  PROVE  \E n \in N : \A m \in N : n <= m
<1> DEFINE Less == {ss \in Nat \X Nat : ss[1] < ss[2]}
<1>1. PICK n \in N : \A m \in N : ~(<<m, n>> \in Less)
  <2>1. IsWellFoundedOn(Less, Nat)
    BY NatLessThanWellFounded DEF OpToRel
  <2> QED
    BY <2>1, WFMin, Zenon
<1>2. \A m \in N : n <= m
  <2> TAKE m \in N
  <2>1. m \in Nat /\ n \in Nat
    OBVIOUS
  <2>2. ~(m < n)
    BY <1>1, <2>1
  <2> QED
    BY <2>1, <2>2
<1> QED
  BY <1>2

LEMMA Skips == IInv => NothingIsSkipped
<1> SUFFICES ASSUME IInv, next = 0, NEW e \in ToSet(results[1]),
                    \A i \in Requests : e \notin ToSet(pages[i]),
                    \A j \in Requests :
                      /\ e \in ToSet(results[j])
                      /\ \A i \in 1..(j - 1) : ~WentOut(e, i, j) /\ ~Reordered(i, j)
             PROVE  FALSE
  BY DEF NothingIsSkipped
<1> DEFINE size == Size(query)
           L == Len(pages)
           pos == [j \in Requests |-> CHOOSE k \in DOMAIN results[j] : results[j][k] = e]
<1>1. L \in Nat /\ Requests = 1..L
  BY LenProperties DEF IInv, TypeOK, Requests
<1>2. pages # <<>> /\ pages[L] = <<>>
  BY DEF IInv, Asked
<1>3. L \in Requests /\ L >= 1
  BY <1>1, <1>2, EmptySeq DEF IInv, TypeOK
<1>4. ASSUME NEW j \in Requests
      PROVE  /\ pos[j] \in DOMAIN results[j] /\ results[j][pos[j]] = e
             /\ pos[j] \in Nat /\ 1 <= pos[j] /\ pos[j] <= Len(results[j])
  <2>1. \E k \in DOMAIN results[j] : results[j][k] = e
    BY DEF ToSet
  <2>2. pos[j] \in DOMAIN results[j] /\ results[j][pos[j]] = e
    BY <2>1
  <2> HIDE DEF pos
  <2>3. results[j] \in Seq(Events)
    BY Shown, LenProperties, ElementOfSeq DEF IInv, TypeOK
  <2> QED
    BY <2>2, <2>3, LenProperties
<1> HIDE DEF pos
<1>5. \A j \in Requests :
        ~((j - 1) * size < pos[j] /\ pos[j] <= j * size)
  BY <1>4, Shown
<1> DEFINE N == {j \in Requests : pos[j] <= j * size}
<1>6. L \in N
  <2>1. Len(results[L]) <= (L - 1) * size
    BY <1>2, <1>3, Shown
  <2>2. (L - 1) * size \in Nat /\ L * size \in Nat /\ (L - 1) * size <= L * size
    <3>1. L \in Nat /\ L - 1 \in Nat /\ L - 1 <= L /\ size \in Nat
      BY <1>1, <1>3, Shown
    <3> HIDE DEF L, size
    <3> QED
      BY <3>1, Multiples
  <2>3. pos[L] \in Nat /\ pos[L] <= Len(results[L]) /\ Len(results[L]) \in Nat
    <3>1. results[L] \in Seq(Events)
      BY <1>3, Shown, LenProperties, ElementOfSeq DEF IInv, TypeOK
    <3> QED
      BY <1>3, <1>4, <3>1, LenProperties
  <2>4. pos[L] <= L * size
    BY <2>1, <2>2, <2>3
  <2> QED
    BY <1>3, <2>4
<1>7. N \in SUBSET Nat /\ N # {}
  BY <1>1, <1>6
<1>8. PICK j \in N : \A m \in N : j <= m
  <2> HIDE DEF N
  <2> QED
    BY <1>7, SmallestExists
<1>9. j \in Requests /\ j \in Nat /\ j >= 1 /\ pos[j] <= j * size /\ pos[j] \in Nat
  BY <1>1, <1>4
<1>10. /\ (j - 1) * size \in Nat /\ size \in Nat
       /\ ~((j - 1) * size < pos[j])
  BY <1>5, <1>9, Shown
<1>11. CASE j = 1
  <2>1. (j - 1) * size = 0
    BY <1>10, <1>11
  <2>2. 1 <= pos[j]
    BY <1>4, <1>9
  <2> QED
    BY <1>9, <1>10, <2>1, <2>2
<1>12. CASE j # 1
  <2> DEFINE i == j - 1
  <2>1. i \in 1..(j - 1) /\ i \in Requests /\ ~(j <= i) /\ i \in Nat
    BY <1>1, <1>9, <1>12
  <2>2. i \notin N
    BY <1>8, <2>1
  <2>3. ~(pos[i] <= i * size)
    BY <2>1, <2>2
  <2>4. ~WentOut(e, i, j) /\ ~Reordered(i, j)
    BY <1>9, <2>1
  <2>5. Ahead(e, results[i]) \subseteq Ahead(e, results[j])
    BY <2>4 DEF WentOut
  <2>6. ~Reordered(j, i)
    BY <2>4 DEF Reordered
  <2>7. i \in DOMAIN results /\ j \in DOMAIN results
    BY <1>9, <2>1, Shown
  <2>8. /\ pos[i] \in DOMAIN results[i] /\ results[i][pos[i]] = e /\ pos[i] \in Nat
        /\ pos[j] \in DOMAIN results[j] /\ results[j][pos[j]] = e
    BY <1>4, <1>9, <2>1
  <2> HIDE DEF i
  <2>9. pos[i] <= pos[j]
    BY <2>5, <2>6, <2>7, <2>8, NotPushedBack
  <2>10. i * size = (j - 1) * size
    BY DEF i
  <2> QED
    BY <1>9, <1>10, <2>3, <2>8, <2>9, <2>10
<1> QED
  BY <1>11, <1>12

-----------------------------------------------------------------------------
(* The invariant holds                                                     *)

(* What may be answered lists exactly what was found, each once.           *)
LEMMA SortedIs ==
  ASSUME IInv, NEW found \in SUBSET ToSet(stored), NEW s \in Sorted(found)
  PROVE  /\ s \in Seq(Events)
         /\ ToSet(s) = found
         /\ Listed(s)
         /\ \A i \in DOMAIN results : ToSet(results[i]) = found => s = results[i]
<1> DEFINE n == Cardinality(found)
<1>1. stored \in Seq(Events)
  BY DEF IInv, TypeOK
<1>2. IsFiniteSet(ToSet(stored))
  <2>1. Len(stored) \in Nat /\ DOMAIN stored = 1..Len(stored)
    BY <1>1, LenProperties
  <2>2. stored \in [1..Len(stored) -> ToSet(stored)]
    BY <1>1, <2>1, LenProperties DEF ToSet
  <2>3. stored \in Surjection(1..Len(stored), ToSet(stored))
    BY <2>1, <2>2 DEF Surjection, ToSet
  <2>4. IsFiniteSet(1..Len(stored))
    BY <2>1, FS_Interval
  <2> QED
    BY <2>3, <2>4, FS_Surjection
<1>3. IsFiniteSet(found)
  BY <1>2, FS_Subset
<1>4. n \in Nat
  BY <1>3, FS_CardinalityType
<1>5. found \subseteq Events
  <2>1. ToSet(stored) \subseteq Events
    BY <1>1, LenProperties DEF ToSet
  <2> QED
    BY <2>1
<1>6. /\ s \in SetToSeqs(found)
      /\ Chronological(s)
      /\ n <= StableUpTo => KeepsTies(s)
      /\ \A i \in DOMAIN results : ToSet(results[i]) = found => s = results[i]
  BY DEF Sorted
<1>7. s \in [1..n -> found] /\ \A i, j \in 1..n : i # j => s[i] # s[j]
  BY <1>6 DEF SetToSeqs
<1> HIDE DEF n
<1>8. DOMAIN s = 1..n
  BY <1>7
<1>9. IsInjective(s)
  BY <1>7, <1>8 DEF IsInjective
<1>10. Cardinality(1..n) = n
  BY <1>4, FS_Interval
<1>11. s \in Surjection(1..n, found)
  <2>1. s \in Injection(1..n, found)
    BY <1>7, <1>9 DEF Injection
  <2>2. Cardinality(1..n) = Cardinality(found)
    BY <1>10 DEF n
  <2> QED
    BY <1>3, <2>1, <2>2, FS_Injection
<1>12. ToSet(s) = found
  BY <1>7, <1>8, <1>11 DEF Surjection, ToSet
<1>13. s \in Seq(Events) /\ Len(s) = n
  <2>1. s \in [1..n -> Events]
    BY <1>5, <1>7
  <2> QED
    BY <1>4, <1>8, <2>1
<1> QED
  BY <1>6, <1>9, <1>12, <1>13 DEF Listed

LEMMA InitEstablishes == Init => IInv
<1> SUFFICES ASSUME Init PROVE IInv
  OBVIOUS
<1>1. TypeOK
  BY DEF Init, TypeOK
<1>2. stored = <<>> /\ results = <<>> /\ pages = <<>> /\ next = 1
  BY DEF Init
<1>3. IsInjective(stored)
  BY <1>2 DEF IsInjective
<1>4. Asked
  BY <1>2 DEF Asked, Requests
<1>5. Lists /\ SameAgain
  BY <1>2 DEF Lists, SameAgain
<1> QED
  BY <1>1, <1>3, <1>4, <1>5 DEF IInv

(* A request keeps it: ...                                                 *)
LEMMA AnswerKeeps ==
  ASSUME IInv, NEW q \in Queries, NEW n \in Nat, n = Len(pages) + 1,
         query # Absent => q = query,
         Answer(q, n)
  PROVE  IInv'
<1> DEFINE found == Filter(Fetch(q), q)
<1>1. found \in SUBSET ToSet(stored)
  BY DEF Filter, Fetch
<1>2. PICK s \in Sorted(found) :
        /\ results' = Append(results, s)
        /\ pages' = Append(pages, Page(s, n, Size(q)))
        /\ query' = q
        /\ next' = IF Page(s, n, Size(q)) = <<>> THEN 0 ELSE n + 1
        /\ UNCHANGED <<redis, now, stored>>
  BY DEF Answer
<1> HIDE DEF found
<1> DEFINE p == Page(s, n, Size(q))
<1>3. /\ s \in Seq(Events) /\ ToSet(s) = found /\ Listed(s)
      /\ \A i \in DOMAIN results : ToSet(results[i]) = found => s = results[i]
  BY <1>1, SortedIs
<1>4. n \in Nat \ {0}
  BY LenProperties DEF IInv, TypeOK
<1>5. p \in Seq(Events)
  BY <1>3, <1>4, SizeIs, OnPage
<1> HIDE DEF p
<1>6. /\ results' = Append(results, s) /\ pages' = Append(pages, p) /\ query' = q
      /\ next' = IF p = <<>> THEN 0 ELSE n + 1
      /\ redis' = redis /\ stored' = stored
  BY <1>2 DEF p
<1>7. results \in Seq(Seq(Events)) /\ pages \in Seq(Seq(Events))
  BY DEF IInv, TypeOK
<1>8. /\ results' \in Seq(Seq(Events)) /\ Len(results') = Len(results) + 1
      /\ \A i \in 1..Len(results) : results'[i] = results[i]
      /\ results'[Len(results) + 1] = s
  BY <1>3, <1>6, <1>7, AppendProperties
<1>9. /\ pages' \in Seq(Seq(Events)) /\ Len(pages') = Len(pages) + 1
      /\ \A i \in 1..Len(pages) : pages'[i] = pages[i]
      /\ pages'[Len(pages) + 1] = p
  BY <1>5, <1>6, <1>7, AppendProperties
<1>10. Len(results) = Len(pages) /\ Len(pages) \in Nat
  BY <1>7, LenProperties DEF IInv, Asked
<1>11. TypeOK'
  BY <1>6, <1>8, <1>9 DEF IInv, TypeOK
<1>12. IsInjective(stored)'
  BY <1>6 DEF IInv
<1>13. Asked'
  <2>1. Len(results') = Len(pages')
    BY <1>8, <1>9, <1>10
  <2>2. query' # Absent
    BY <1>6, ReplayAssumption
  <2>3. next' # 0 => next' = Len(pages') + 1
    BY <1>6, <1>9, <1>10
  <2>4. next' = 0 => pages' # <<>> /\ pages'[Len(pages')] = <<>>
    <3>1. pages' # <<>>
      BY <1>9, <1>10, EmptySeq
    <3> QED
      BY <1>4, <1>6, <1>9, <3>1
  <2>5. ASSUME NEW i \in 1..Len(pages')
        PROVE  pages'[i] = Page(results'[i], i, Size(query'))
    <3>1. CASE i \in 1..Len(pages)
      <4>1. query = q
        <5>1. pages # <<>>
          BY <3>1, EmptySeq
        <5> QED
          BY <5>1 DEF IInv, Asked
      <4>2. pages[i] = Page(results[i], i, Size(query))
        BY <3>1 DEF IInv, Asked, Requests
      <4> QED
        BY <1>6, <1>8, <1>9, <1>10, <3>1, <4>1, <4>2
    <3>2. CASE i = Len(pages) + 1
      <4>1. pages'[i] = p /\ results'[i] = s /\ i = n /\ query' = q
        BY <1>6, <1>8, <1>9, <1>10, <3>2
      <4> QED
        BY <4>1 DEF p
    <3> QED
      BY <1>9, <1>10, <3>1, <3>2
  <2> QED
    BY <2>1, <2>2, <2>3, <2>4, <2>5 DEF Asked, Requests
<1>14. DOMAIN results = 1..Len(results) /\ DOMAIN results' = 1..Len(results')
  BY <1>7, <1>8, LenProperties
<1>15. ASSUME NEW i \in DOMAIN results'
       PROVE  i \in DOMAIN results \/ i = Len(results) + 1
  BY <1>8, <1>10, <1>14
<1>16. \A i \in DOMAIN results : results'[i] = results[i]
  BY <1>8, <1>14
<1>17. Lists'
  <2>1. ASSUME NEW i \in DOMAIN results' PROVE Listed(results[i])'
    <3>1. Listed(results'[i])
      <4>1. CASE i \in DOMAIN results
        BY <1>16, <4>1 DEF IInv, Lists
      <4>2. CASE i = Len(results) + 1
        BY <1>3, <1>8, <4>2
      <4> QED
        BY <1>15, <4>1, <4>2
    <3>2. \A x : Rank(x)' = Rank(x)
      BY <1>6 DEF Rank
    <3>3. KeepsTies(results'[i]) => KeepsTies(results[i])'
      BY <3>2 DEF KeepsTies
    <3>4. Chronological(results'[i]) => Chronological(results[i])'
      BY DEF Chronological
    <3> QED
      BY <1>6, <3>1, <3>3, <3>4 DEF Listed
  <2> QED
    BY <2>1 DEF Lists
<1>18. SameAgain'
  <2>1. ASSUME NEW i \in DOMAIN results, ToSet(results[i]) = ToSet(s)
        PROVE  results[i] = s
    BY <1>3, <2>1
  <2>2. ASSUME NEW i \in DOMAIN results', NEW j \in DOMAIN results',
               ToSet(results'[i]) = ToSet(results'[j])
        PROVE  results'[i] = results'[j]
    <3>1. CASE i \in DOMAIN results /\ j \in DOMAIN results
      BY <1>16, <2>2, <3>1 DEF IInv, SameAgain
    <3>2. CASE i \in DOMAIN results /\ j = Len(results) + 1
      BY <1>8, <1>16, <2>1, <2>2, <3>2
    <3>3. CASE i = Len(results) + 1 /\ j \in DOMAIN results
      BY <1>8, <1>16, <2>1, <2>2, <3>3
    <3>4. CASE i = Len(results) + 1 /\ j = Len(results) + 1
      BY <3>4
    <3> QED
      BY <1>15, <3>1, <3>2, <3>3, <3>4
  <2> QED
    BY <2>2 DEF SameAgain
<1> QED
  BY <1>11, <1>12, <1>13, <1>17, <1>18 DEF IInv

(* ... and so does an event that is stored: it moves no earlier one.       *)
LEMMA SaveKeeps ==
  ASSUME IInv, NEW e \in Events, Save(e)
  PROVE  IInv'
<1>1. /\ e \notin ToSet(stored) /\ stored' = Append(stored, e)
      /\ redis' = redis /\ query' = query /\ next' = next
      /\ results' = results /\ pages' = pages
  BY DEF Save
<1>2. stored \in Seq(Events)
  BY DEF IInv, TypeOK
<1>3. /\ stored' \in Seq(Events) /\ Len(stored') = Len(stored) + 1
      /\ \A i \in 1..Len(stored) : stored'[i] = stored[i]
      /\ stored'[Len(stored) + 1] = e
  BY <1>1, <1>2, AppendProperties
<1>4. Len(stored) \in Nat
  BY <1>2, LenProperties
<1>5. DOMAIN stored = 1..Len(stored) /\ DOMAIN stored' = 1..Len(stored')
  BY <1>2, <1>3, LenProperties
<1>6. DOMAIN stored \subseteq DOMAIN stored'
  BY <1>3, <1>4, <1>5
<1>7. ASSUME NEW i \in DOMAIN stored'
      PROVE  i \in DOMAIN stored \/ i = Len(stored) + 1
  BY <1>3, <1>4, <1>5
<1>8. \A i \in DOMAIN stored : stored'[i] = stored[i] /\ stored'[i] # e
  BY <1>1, <1>3, <1>5 DEF ToSet
<1>9. IsInjective(stored')
  <2>1. ASSUME NEW i \in DOMAIN stored', NEW j \in DOMAIN stored', stored'[i] = stored'[j]
        PROVE  i = j
    <3>1. CASE i \in DOMAIN stored /\ j \in DOMAIN stored
      BY <1>8, <2>1, <3>1 DEF IInv, IsInjective
    <3>2. CASE i \in DOMAIN stored /\ j = Len(stored) + 1
      BY <1>3, <1>8, <2>1, <3>2
    <3>3. CASE i = Len(stored) + 1 /\ j \in DOMAIN stored
      BY <1>3, <1>8, <2>1, <3>3
    <3>4. CASE i = Len(stored) + 1 /\ j = Len(stored) + 1
      BY <3>4
    <3> QED
      BY <1>7, <3>1, <3>2, <3>3, <3>4
  <2> QED
    BY <2>1 DEF IsInjective
<1>10. ToSet(stored) \subseteq ToSet(stored')
  BY <1>6, <1>8 DEF ToSet
<1>11. ASSUME NEW x \in ToSet(stored) PROVE Rank(x)' = Rank(x)
  <2>1. PICK i \in DOMAIN stored : x = stored[i]
    BY DEF ToSet
  <2>2. (CHOOSE k \in DOMAIN stored : stored[k] = x) = i
    BY <2>1, ArrivalIs DEF IInv
  <2>3. i \in DOMAIN stored' /\ x = stored'[i]
    BY <1>6, <1>8, <2>1
  <2>4. (CHOOSE k \in DOMAIN stored' : stored'[k] = x) = i
    BY <1>9, <2>3, ArrivalIs
  <2> QED
    BY <1>1, <2>2, <2>4 DEF Rank
<1>12. TypeOK'
  BY <1>1, <1>3 DEF IInv, TypeOK
<1>13. Asked'
  BY <1>1 DEF IInv, Asked, Requests
<1>14. Lists'
  <2>1. ASSUME NEW i \in DOMAIN results PROVE Listed(results[i])'
    <3> DEFINE s == results[i]
    <3>1. Listed(s) /\ s' = s
      BY <1>1 DEF IInv, Lists
    <3>2. \A k \in DOMAIN s : s[k] \in ToSet(stored)
      BY <3>1 DEF Listed, ToSet
    <3> HIDE DEF s
    <3>3. \A k \in DOMAIN s : Rank(s[k])' = Rank(s[k])
      BY <1>11, <3>1, <3>2 DEF Rank
    <3>4. KeepsTies(s) => KeepsTies(s)'
      BY <3>1, <3>3 DEF KeepsTies
    <3>5. Listed(s)'
      BY <1>10, <3>1, <3>4 DEF Listed, Chronological
    <3> QED
      BY <3>5 DEF s
  <2> QED
    BY <1>1, <2>1 DEF Lists
<1>15. SameAgain'
  BY <1>1 DEF IInv, SameAgain
<1> QED
  BY <1>9, <1>12, <1>13, <1>14, <1>15 DEF IInv

LEMMA StepKeeps == IInv /\ [Next]_vars => IInv'
<1> SUFFICES ASSUME IInv, [Next]_vars PROVE IInv'
  OBVIOUS
<1>1. CASE First
  <2>1. PICK q \in Queries : Answer(q, 1)
    BY <1>1 DEF First
  <2>2. query = Absent /\ pages = <<>>
    BY <1>1 DEF First, IInv, Asked
  <2>3. 1 = Len(pages) + 1
    BY <2>2, EmptySeq
  <2> QED
    BY <2>1, <2>2, <2>3, AnswerKeeps
<1>2. CASE More
  <2>1. query # Absent /\ next > 0 /\ Answer(query, next)
    BY <1>2 DEF More
  <2>2. query \in Queries /\ next \in Nat /\ next = Len(pages) + 1
    BY <2>1 DEF IInv, TypeOK, Asked
  <2> QED
    BY <2>1, <2>2, AnswerKeeps
<1>3. CASE Tick \/ UNCHANGED vars
  <2>1. UNCHANGED <<redis, stored, query, next, results, pages>>
    BY <1>3 DEF Tick, vars
  <2>2. TypeOK' /\ IsInjective(stored') /\ Asked' /\ SameAgain'
    BY <2>1 DEF IInv, TypeOK, Asked, Requests, SameAgain
  <2>3. Lists'
    BY <2>1 DEF IInv, Lists, Listed, Chronological, KeepsTies, Rank
  <2> QED
    BY <2>2, <2>3 DEF IInv
<1>4. CASE \E e \in Events : Save(e)
  BY <1>4, SaveKeeps
<1> QED
  BY <1>1, <1>2, <1>3, <1>4 DEF Next

(* Query and what the client has read of its answers, in every reachable   *)
(* state.                                                                  *)
THEOREM Inductive == Spec => []IInv
<1>1. Init => IInv
  BY InitEstablishes
<1>2. IInv /\ [Next]_vars => IInv'
  BY StepKeeps
<1> QED
  BY <1>1, <1>2, PTL DEF Spec

-----------------------------------------------------------------------------
(* The results                                                             *)

(* Query: paging repeats an event only when something not later came in    *)
(* between the two requests, or a long result of other events was sorted.  *)
THEOREM RepeatsExplained == Spec => []RepeatsAreExplained
BY Inductive, Repeats, PTL

(* Query: who reads up to an empty page has seen all that matched all      *)
(* along, unless something not later left the range meanwhile.             *)
THEOREM NothingSkipped == Spec => []NothingIsSkipped
BY Inductive, Skips, PTL

(* Query: pages follow one another in time, unless something came in.      *)
THEOREM PagesInOrder == Spec => []PagesAreInOrder
BY Inductive, InOrder, PTL
=============================================================================
