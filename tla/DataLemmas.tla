------------------------------ MODULE DataLemmas ------------------------------
(***************************************************************************)
(* Facts about finite sets and sequences that several proofs share.        *)
(***************************************************************************)
EXTENDS Integers, SequencesExt, FiniteSetTheorems, FunctionTheorems, SequenceTheorems,
        WellFoundedInduction, TLAPS

---------------------------------------------------------------------------
\* Finite sets.

(* An element of a finite set whose measure no other one exceeds.           *)
LEMMA GreatestMeasure ==
  ASSUME NEW S, IsFiniteSet(S), S # {}, NEW m, \A s \in S : m[s] \in Int
  PROVE  \E x \in S : \A y \in S : m[y] <= m[x]
<1> DEFINE Up(x) == {s \in S : m[s] >= m[x]}
           T == {Up(x) : x \in S}
<1>1. T # {} /\ T \subseteq FiniteSubsetsOf(S)
  <2>1. \A x \in S : Up(x) \in SUBSET S
    OBVIOUS
  <2>2. \A x \in S : IsFiniteSet(Up(x))
    BY <2>1, FS_Subset
  <2> QED BY <2>1, <2>2 DEF FiniteSubsetsOf
<1>2. PICK t \in T : \A u \in T : ~ (<<u, t>> \in StrictSubsetOrdering(S))
  <2> HIDE DEF T
  <2> QED BY <1>1, WFMin, FS_StrictSubsetOrderingWellFounded
<1>3. PICK x \in S : t = Up(x)
  BY <1>2
<1>4. ASSUME NEW y \in S, ~ (m[y] <= m[x]) PROVE FALSE
  <2>1. Up(y) \subseteq Up(x) /\ x \in Up(x) /\ x \notin Up(y)
    BY <1>4
  <2>2. <<Up(y), Up(x)>> \in StrictSubsetOrdering(S)
    BY <2>1 DEF StrictSubsetOrdering
  <2> QED BY <1>2, <1>3, <2>2
<1> QED BY <1>4

(* ... and one whose measure exceeds no other one. *)
LEMMA LeastMeasure ==
  ASSUME NEW S, IsFiniteSet(S), S # {}, NEW m, \A s \in S : m[s] \in Int
  PROVE  \E x \in S : \A y \in S : m[x] <= m[y]
<1> DEFINE n == [s \in S |-> 0 - m[s]]
<1>1. \A s \in S : n[s] = 0 - m[s] /\ n[s] \in Int
  OBVIOUS
<1> HIDE DEF n
<1>2. PICK x \in S : \A y \in S : n[y] <= n[x]
  BY <1>1, GreatestMeasure
<1> QED BY <1>1, <1>2

(* What holds of 0 and of the successor of what it holds of, up to n.      *)
LEMMA UpTo ==
  ASSUME NEW n \in Nat, NEW S, 0 \in S, \A k \in 1 .. n : k - 1 \in S => k \in S
  PROVE  \A k \in 0 .. n : k \in S
<1> DEFINE T == (0 .. n) \ S
           id == [k \in T |-> k]
<1>1. IsFiniteSet(T)
  <2>1. IsFiniteSet(0 .. n) /\ T \in SUBSET (0 .. n)
    BY FS_Interval
  <2> HIDE DEF T
  <2> QED BY <2>1, FS_Subset
<1>2. SUFFICES ASSUME T # {} PROVE FALSE
  OBVIOUS
<1>3. \A k \in T : id[k] = k /\ id[k] \in Int
  OBVIOUS
<1>4. PICK x \in T : \A y \in T : id[x] <= id[y]
  <2> HIDE DEF T, id
  <2> QED BY <1>1, <1>2, <1>3, LeastMeasure
<1>5. x \in 1 .. n /\ x - 1 \in 0 .. n
  BY <1>4
<1>6. x - 1 \notin T
  BY <1>3, <1>4, <1>5
<1> QED BY <1>4, <1>5, <1>6

(* A function on 0 .. n that is told what to begin with and how to go on.  *)
Unfolds(f, n, V, b, F) == f \in [0 .. n -> V] /\ f[0] = b /\ \A k \in 1 .. n : f[k] = F[k][f[k - 1]]
LEMMA Recursion ==
  ASSUME NEW n \in Nat, NEW V, NEW b \in V, NEW F, F \in [1 .. n -> [V -> V]]
  PROVE  \E f : Unfolds(f, n, V, b, F)
<1> DEFINE Good(f, k) == Unfolds(f, k, V, b, F)
           S == {k \in 0 .. n : \E f : Good(f, k)}
<1> USE DEF Unfolds
<1>1. 0 \in S
  <2> DEFINE f == [k \in 0 .. 0 |-> b]
  <2>1. Good(f, 0)
    <3>1. 0 \in 0 .. 0 /\ 1 .. 0 = {}
      OBVIOUS
    <3> QED BY <3>1
  <2> HIDE DEF Unfolds, Good, f
  <2> QED BY <2>1
<1>2. ASSUME NEW k \in 1 .. n, k - 1 \in S PROVE k \in S
  <2>1. PICK f : Good(f, k - 1)
    BY <1>2
  <2> DEFINE g == [j \in 0 .. k |-> IF j = k THEN F[k][f[k - 1]] ELSE f[j]]
  <2>2. k - 1 \in 0 .. k - 1 /\ f[k - 1] \in V /\ F[k][f[k - 1]] \in V
    BY <2>1
  <2>3. g \in [0 .. k -> V]
    <3>1. \A j \in 0 .. k : j = k \/ j \in 0 .. k - 1
      OBVIOUS
    <3> QED BY <2>1, <2>2, <3>1
  <2>4. g[0] = b
    BY <2>1
  <2>5. ASSUME NEW j \in 1 .. k PROVE g[j] = F[j][g[j - 1]]
    <3>1. j - 1 \in 0 .. k /\ g[j - 1] = f[j - 1]
      OBVIOUS
    <3>2. CASE j = k
      BY <3>1, <3>2
    <3>3. CASE j # k
      <4>1. j \in 1 .. k - 1
        BY <3>3
      <4> QED BY <2>1, <3>1, <3>3, <4>1
    <3> QED BY <3>2, <3>3
  <2>6. Good(g, k)
    <3> HIDE DEF g
    <3> QED BY <2>3, <2>4, <2>5
  <2> HIDE DEF Unfolds, Good
  <2> QED BY <2>6
<1>3. n \in S
  <2> HIDE DEF Unfolds, S, Good
  <2>1. \A k \in 1 .. n : k - 1 \in S => k \in S
    BY <1>2
  <2>2. \A k \in 0 .. n : k \in S
    BY <1>1, <2>1, UpTo
  <2> QED BY <2>2
<1>4. PICK f : Good(f, n)
  BY <1>3
<1> QED BY <1>4

(* The greatest of some bounded numbers.                                    *)
LEMMA BoundedMax ==
  ASSUME NEW S, S \subseteq Nat, S # {}, NEW n \in Nat, \A s \in S : s <= n
  PROVE  Max(S) \in S /\ Max(S) \in Nat /\ \A s \in S : s <= Max(S)
<1> DEFINE id == [s \in S |-> s]
<1>1. IsFiniteSet(S)
  <2>1. S \in SUBSET Nat
    OBVIOUS
  <2> QED BY <2>1, FS_BoundedSetOfNaturals
<1>2. \A s \in S : id[s] = s /\ id[s] \in Int
  OBVIOUS
<1>3. PICK x \in S : \A y \in S : id[y] <= id[x]
  <2> HIDE DEF id
  <2> QED BY <1>1, <1>2, GreatestMeasure
<1>4. \A y \in S : x >= y
  BY <1>2, <1>3
<1>5. Max(S) \in S /\ \A y \in S : Max(S) >= y
  BY <1>4 DEF Max
<1> QED BY <1>5

(* If for every i of a finite set another member reads what i writes, and   *)
(* no two write the same, then everything that is read is also written:     *)
(* as many things are written as there are readers.                         *)
LEMMA AllReadWritten ==
  ASSUME NEW S, IsFiniteSet(S), NEW writes, NEW reads,
         \A i, j \in S : writes[i] = writes[j] => i = j,
         \A i \in S : \E j \in S : reads[j] = writes[i]
  PROVE  \A j \in S : \E i \in S : reads[j] = writes[i]
<1> DEFINE f == [i \in S |-> CHOOSE j \in S : reads[j] = writes[i]]
<1>1. \A i \in S : f[i] \in S /\ reads[f[i]] = writes[i]
  OBVIOUS
<1>2. f \in Injection(S, S)
  <2>1. f \in [S -> S]
    BY <1>1
  <2>2. ASSUME NEW i \in S, NEW j \in S, f[i] = f[j] PROVE i = j
    BY <1>1, <2>2
  <2> HIDE DEF f
  <2> QED BY <2>1, <2>2 DEF Injection, IsInjective
<1> HIDE DEF f
<1>3. f \in Surjection(S, S)
  BY <1>2, FS_Injection
<1>4. \A j \in S : \E i \in S : f[i] = j
  BY <1>3 DEF Surjection
<1>5. ASSUME NEW j \in S PROVE \E i \in S : reads[j] = writes[i]
  <2>1. PICK i \in S : f[i] = j
    BY <1>4
  <2> QED BY <1>1, <2>1
<1> QED BY <1>5

---------------------------------------------------------------------------
\* Sequences.

\* What a prefix of a sequence is.
LEMMA PrefixOf ==
  ASSUME NEW S, NEW q \in Seq(S), NEW n \in 0 .. Len(q)
  PROVE  /\ SubSeq(q, 1, n) \in Seq(S) /\ Len(SubSeq(q, 1, n)) = n
         /\ \A i \in 1 .. n : SubSeq(q, 1, n)[i] = q[i]
  <1>1. Len(q) \in Nat
    OBVIOUS
  <1>2. \A i \in 1 .. n : q[i] \in S
    BY <1>1, ElementOfSeq
  <1> QED
    BY <1>1, <1>2, SubSeqProperties

\* Two sequences that agree up to n have the same prefix of length n.
LEMMA PrefixSame ==
  ASSUME NEW S, NEW q \in Seq(S), NEW r \in Seq(S),
         NEW n \in Nat, n <= Len(q), n <= Len(r), \A i \in 1 .. n : q[i] = r[i]
  PROVE  SubSeq(q, 1, n) = SubSeq(r, 1, n)
  <1>1. n \in 0 .. Len(q) /\ n \in 0 .. Len(r)
    OBVIOUS
  <1>2. SubSeq(q, 1, n) \in Seq(S) /\ Len(SubSeq(q, 1, n)) = n /\ \A i \in 1 .. n : SubSeq(q, 1, n)[i] = q[i]
    BY <1>1, PrefixOf
  <1>3. SubSeq(r, 1, n) \in Seq(S) /\ Len(SubSeq(r, 1, n)) = n /\ \A i \in 1 .. n : SubSeq(r, 1, n)[i] = r[i]
    BY <1>1, PrefixOf
  <1> QED
    BY <1>2, <1>3, SeqEqual

\* All but the last element.
LEMMA FrontOf ==
  ASSUME NEW S, NEW q \in Seq(S), q # <<>>
  PROVE  /\ Len(q) \in Nat \ {0} /\ Last(q) = q[Len(q)] /\ Last(q) \in S
         /\ Front(q) \in Seq(S) /\ Len(Front(q)) = Len(q) - 1
         /\ \A i \in 1 .. Len(q) - 1 : Front(q)[i] = q[i]
  <1>1. Len(q) \in Nat /\ Len(q) # 0
    BY EmptySeq
  <1>2. Len(q) - 1 \in 0 .. Len(q) /\ Len(q) \in 1 .. Len(q)
    BY <1>1
  <1> QED
    BY <1>1, <1>2, PrefixOf, ElementOfSeq DEF Front, Last

\* One element more.
LEMMA AppendOf ==
  ASSUME NEW S, NEW q \in Seq(S), NEW x \in S
  PROVE  /\ Append(q, x) \in Seq(S) /\ Len(q) \in Nat /\ Len(Append(q, x)) = Len(q) + 1
         /\ Append(q, x)[Len(q) + 1] = x
         /\ \A i \in 1 .. Len(q) : Append(q, x)[i] = q[i]
  BY AppendProperties

\* Prefixes, element by element.
LEMMA PrefixElements ==
  ASSUME NEW S, NEW q \in Seq(S), NEW r \in Seq(S)
  PROVE  IsPrefix(q, r) <=> Len(q) <= Len(r) /\ \A i \in 1 .. Len(q) : q[i] = r[i]
  <1>1. Len(q) \in Nat /\ Len(r) \in Nat /\ SubSeq(q, 1, Len(q)) = q
    BY SubSeqFull
  <1>2. ASSUME IsPrefix(q, r) PROVE Len(q) <= Len(r) /\ \A i \in 1 .. Len(q) : q[i] = r[i]
    <2>1. Len(q) <= Len(r) /\ q = SubSeq(r, 1, Len(q))
      BY <1>1, <1>2 DEF IsPrefix
    <2>2. Len(q) \in 0 .. Len(r)
      BY <1>1, <2>1
    <2> QED
      BY <2>1, <2>2, PrefixOf
  <1>3. ASSUME Len(q) <= Len(r), \A i \in 1 .. Len(q) : q[i] = r[i] PROVE IsPrefix(q, r)
    BY <1>1, <1>3, PrefixSame DEF IsPrefix
  <1> QED
    BY <1>2, <1>3

\* A function over 1 .. n is a sequence.
LEMMA FunctionIsSeq ==
  ASSUME NEW S, NEW n \in Nat, NEW f \in [1 .. n -> S]
  PROVE  f \in Seq(S) /\ Len(f) = n
  OBVIOUS

LEMMA OneElement ==
  ASSUME NEW S, NEW x \in S
  PROVE  <<x>> \in Seq(S) /\ Len(<<x>>) = 1 /\ <<x>>[1] = x
  OBVIOUS

\* What the elements of a sequence are.
LEMMA RangeOf ==
  ASSUME NEW S, NEW s \in Seq(S)
  PROVE  /\ Range(s) \subseteq S
         /\ \A x : x \in Range(s) <=> \E i \in 1 .. Len(s) : s[i] = x
  <1>1. DOMAIN s = 1 .. Len(s) /\ \A i \in 1 .. Len(s) : s[i] \in S
    BY LenProperties, ElementOfSeq
  <1> QED
    BY <1>1 DEF Range

\* One element less, without its first occurrence.
LEMMA RemoveAtOf ==
  ASSUME NEW S, NEW s \in Seq(S), NEW k \in 1 .. Len(s)
  PROVE  /\ RemoveAt(s, k) \in Seq(S) /\ Len(RemoveAt(s, k)) = Len(s) - 1
         /\ \A j \in 1 .. Len(s) - 1 :
              RemoveAt(s, k)[j] = IF j < k THEN s[j] ELSE s[j + 1]
  <1> DEFINE a == SubSeq(s, 1, k - 1)
             b == SubSeq(s, k + 1, Len(s))
  <1>1. Len(s) \in Nat /\ \A i \in 1 .. Len(s) : s[i] \in S
    BY ElementOfSeq
  <1>2. a \in Seq(S) /\ Len(a) = k - 1 /\ \A i \in 1 .. k - 1 : a[i] = s[i]
    <2>1. k - 1 \in 0 .. Len(s)
      BY <1>1
    <2> QED
      BY <2>1, PrefixOf
  <1>3. b \in Seq(S) /\ Len(b) = Len(s) - k /\ \A i \in 1 .. Len(s) - k : b[i] = s[k + i]
    <2>1. k + 1 \in Int /\ Len(s) \in Int /\ \A i \in k + 1 .. Len(s) : s[i] \in S
      BY <1>1
    <2>2. /\ b \in Seq(S) /\ Len(b) = IF k + 1 <= Len(s) THEN Len(s) - (k + 1) + 1 ELSE 0
          /\ \A i \in 1 .. Len(s) - (k + 1) + 1 : b[i] = s[k + 1 + i - 1]
      BY <2>1, SubSeqProperties
    <2> HIDE DEF b
    <2>3. \A i \in 1 .. Len(s) - k : b[i] = s[k + i]
      <3> TAKE i \in 1 .. Len(s) - k
      <3>1. i \in 1 .. Len(s) - (k + 1) + 1 /\ k + 1 + i - 1 = k + i
        BY <1>1
      <3> QED
        BY <2>2, <3>1
    <2> QED
      BY <1>1, <2>2, <2>3
  <1>4. RemoveAt(s, k) = a \o b
    BY DEF RemoveAt
  <1> HIDE DEF a, b
  <1>5. /\ a \o b \in Seq(S) /\ Len(a \o b) = Len(s) - 1
        /\ \A j \in 1 .. Len(s) - 1 : (a \o b)[j] = IF j <= k - 1 THEN a[j] ELSE b[j - (k - 1)]
    <2>1. /\ a \o b \in Seq(S) /\ Len(a \o b) = Len(a) + Len(b)
          /\ \A j \in 1 .. Len(a) + Len(b) :
               (a \o b)[j] = IF j <= Len(a) THEN a[j] ELSE b[j - Len(a)]
      BY <1>2, <1>3, ConcatProperties
    <2>2. Len(a) = k - 1 /\ Len(a) + Len(b) = Len(s) - 1
      BY <1>1, <1>2, <1>3
    <2> QED
      BY <2>1, <2>2
  <1>6. ASSUME NEW j \in 1 .. Len(s) - 1
        PROVE  (a \o b)[j] = IF j < k THEN s[j] ELSE s[j + 1]
    <2>1. CASE j < k
      <3>1. j \in 1 .. k - 1 /\ j <= k - 1
        BY <1>1, <2>1
      <3> QED
        BY <1>2, <1>5, <2>1, <3>1
    <2>2. CASE ~ (j < k)
      <3>1. j - (k - 1) \in 1 .. Len(s) - k /\ ~ (j <= k - 1) /\ k + (j - (k - 1)) = j + 1
        BY <1>1, <2>2
      <3> QED
        BY <1>3, <1>5, <2>2, <3>1
    <2> QED
      BY <2>1, <2>2
  <1> QED
    BY <1>4, <1>5, <1>6

LEMMA RemoveFirstOf ==
  ASSUME NEW S, NEW s \in Seq(S), NEW e, \E i \in 1 .. Len(s) : s[i] = e
  PROVE  \E k \in 1 .. Len(s) : s[k] = e /\ RemoveFirst(s, e) = RemoveAt(s, k)
  <1> DEFINE I == {i \in 1 .. Len(s) : s[i] = e}
             m == [i \in I |-> i]
  <1>1. Len(s) \in Nat /\ I # {} /\ IsFiniteSet(I)
    <2>1. Len(s) \in Nat /\ IsFiniteSet(1 .. Len(s))
      BY FS_Interval
    <2> QED
      BY <2>1, FS_Subset
  <1>2. \A i \in I : m[i] = i /\ m[i] \in Int
    BY <1>1
  <1>3. \E x \in I : \A y \in I : m[x] <= m[y]
    <2> HIDE DEF I, m
    <2> QED
      BY <1>1, <1>2, LeastMeasure
  <1>4. \E x \in I : \A y \in I : x <= y
    <2> HIDE DEF I, m
    <2> QED
      BY <1>2, <1>3
  <1>5. Min(I) \in I
    <2> HIDE DEF I
    <2> QED
      BY <1>4 DEF Min
  <1>6. SelectInSeq(s, LAMBDA v : v = e) = Min(I)
    BY <1>1 DEF SelectInSeq
  <1> QED
    BY <1>5, <1>6 DEF RemoveFirst
=============================================================================
