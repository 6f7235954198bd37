------------------------- MODULE SearchRuntimeProofs -------------------------
(***************************************************************************)
(* Proofs about SearchRuntime and RrfFusion, for any requests, threads,    *)
(* workers, indexes, rankings and cache sizes.                             *)
(*                                                                         *)
(* First the arithmetic of rankings: elements of a sequence at some of its *)
(* places, what the recursion of Fused computes, when a window suffices.   *)
(* Then an invariant of locks, client and caches, and, on top of it, one   *)
(* of requests, tasks and what a thread has looked up so far.              *)
(***************************************************************************)
EXTENDS SearchRuntime, FiniteSetTheorems, SequenceTheorems,
        WellFoundedInduction, TLAPS

-----------------------------------------------------------------------------
(* The n-th of a set of places.                                            *)

UpTo(places, p) == {q \in places : q <= p}

Foremost(places, k) == {p \in places : Cardinality(UpTo(places, p)) <= k}

LEMMA IntervalCounted ==
  \A n \in Nat : IsFiniteSet(1 .. n) /\ Cardinality(1 .. n) = n
<1> TAKE n \in Nat
<1>1. 1 \in Int /\ n \in Int
  OBVIOUS
<1>2. /\ IsFiniteSet(1 .. n)
      /\ Cardinality(1 .. n) = IF 1 > n THEN 0 ELSE n - 1 + 1
  BY <1>1, FS_Interval
<1> QED
  BY <1>2

LEMMA PlacesCounted ==
  ASSUME NEW P, IsFiniteSet(P), P \subseteq Int
  PROVE  /\ \A p \in P : Cardinality(UpTo(P, p)) \in 1 .. Cardinality(P)
         /\ \A p, q \in P : p < q
              => Cardinality(UpTo(P, p)) < Cardinality(UpTo(P, q))
         /\ \A k \in 1 .. Cardinality(P) : \E p \in P :
              Cardinality(UpTo(P, p)) = k
<1> DEFINE n == Cardinality(P)
           f == [p \in P |-> Cardinality(UpTo(P, p))]
<1>1. n \in Nat
  BY FS_CardinalityType
<1>2. \A p \in P : /\ IsFiniteSet(UpTo(P, p))
                   /\ Cardinality(UpTo(P, p)) \in 1 .. n
  <2> TAKE p \in P
  <2>1. UpTo(P, p) \in SUBSET P /\ p \in UpTo(P, p)
    BY DEF UpTo
  <2>2. IsFiniteSet(UpTo(P, p)) /\ Cardinality(UpTo(P, p)) <= n
    BY <2>1, FS_Subset
  <2>3. Cardinality(UpTo(P, p)) \in Nat /\ Cardinality(UpTo(P, p)) # 0
    BY <2>1, <2>2, FS_CardinalityType, FS_EmptySet
  <2> QED
    BY <1>1, <2>2, <2>3
<1>3. \A p, q \in P : p < q
        => Cardinality(UpTo(P, p)) < Cardinality(UpTo(P, q))
  <2> SUFFICES ASSUME NEW p \in P, NEW q \in P, p < q
               PROVE  Cardinality(UpTo(P, p)) < Cardinality(UpTo(P, q))
    OBVIOUS
  <2>0. p \in Int /\ q \in Int /\ \A r \in P : r \in Int
    OBVIOUS
  <2>1. UpTo(P, p) \in SUBSET UpTo(P, q) /\ q \in UpTo(P, q) \ UpTo(P, p)
    <3>1. \A r \in P : r <= p => r <= q
      BY <2>0
    <3>2. q <= q /\ ~(q <= p)
      BY <2>0
    <3> QED
      BY <3>1, <3>2 DEF UpTo
  <2>2. /\ Cardinality(UpTo(P, p)) <= Cardinality(UpTo(P, q))
        /\ Cardinality(UpTo(P, p)) # Cardinality(UpTo(P, q))
    BY <1>2, <2>1, FS_Subset
  <2> QED
    BY <1>2, <2>2
<1>4. f \in Injection(P, 1 .. n)
  <2>1. f \in [P -> 1 .. n]
    BY <1>2
  <2>2. \A p, q \in P : f[p] = f[q] => p = q
    <3> SUFFICES ASSUME NEW p \in P, NEW q \in P, f[p] = f[q] PROVE p = q
      OBVIOUS
    <3>1. p \in Int /\ q \in Int
      OBVIOUS
    <3>2. f[p] \in Int /\ f[q] \in Int
      BY <1>1, <1>2
    <3>3. ~(p < q) /\ ~(q < p)
      BY <1>3, <3>2
    <3> QED
      BY <3>1, <3>3
  <2> QED
    BY <2>1, <2>2 DEF Injection, IsInjective
<1>5. IsFiniteSet(1 .. n) /\ Cardinality(1 .. n) = n
  BY <1>1, FS_Interval
<1>6. f \in Surjection(P, 1 .. n)
  BY <1>4, <1>5, FS_Injection
<1>7. \A k \in 1 .. n : \E p \in P : f[p] = k
  BY <1>6 DEF Surjection
<1> QED
  BY <1>2, <1>3, <1>7

LEMMA NthIs ==
  ASSUME NEW P, IsFiniteSet(P), P \subseteq Int, NEW k \in 1 .. Cardinality(P)
  PROVE  /\ Nth(P, k) \in P
         /\ Cardinality(UpTo(P, Nth(P, k))) = k
         /\ \A p \in P : Cardinality(UpTo(P, p)) = k => p = Nth(P, k)
<1>1. \E p \in P : Cardinality(UpTo(P, p)) = k
  BY PlacesCounted
<1>2. Nth(P, k) = CHOOSE p \in P : Cardinality(UpTo(P, p)) = k
  BY DEF Nth, UpTo
<1>3. Nth(P, k) \in P /\ Cardinality(UpTo(P, Nth(P, k))) = k
  BY <1>1, <1>2
<1>4. \A p, q \in P : Cardinality(UpTo(P, p)) = Cardinality(UpTo(P, q))
        => p = q
  <2> SUFFICES ASSUME NEW p \in P, NEW q \in P,
                      Cardinality(UpTo(P, p)) = Cardinality(UpTo(P, q))
               PROVE  p = q
    OBVIOUS
  <2>1. p \in Int /\ q \in Int
    OBVIOUS
  <2>2. Cardinality(UpTo(P, p)) \in Int /\ Cardinality(UpTo(P, q)) \in Int
    <3>1. UpTo(P, p) \in SUBSET P /\ UpTo(P, q) \in SUBSET P
      BY DEF UpTo
    <3> QED
      BY <3>1, FS_Subset, FS_CardinalityType
  <2>3. ~(p < q) /\ ~(q < p)
    <3>1. /\ p < q => Cardinality(UpTo(P, p)) < Cardinality(UpTo(P, q))
          /\ q < p => Cardinality(UpTo(P, q)) < Cardinality(UpTo(P, p))
      BY PlacesCounted
    <3> QED
      BY <2>2, <3>1
  <2> QED
    BY <2>1, <2>3
<1> QED
  BY <1>3, <1>4

LEMMA SeqOfInterval ==
  ASSUME NEW S, NEW n \in Nat, NEW s \in [1 .. n -> S]
  PROVE  s \in Seq(S) /\ Len(s) = n
<1>1. s \in Seq(S)
  BY SeqDef
<1>2. Len(s) \in Nat /\ DOMAIN s = 1 .. Len(s)
  BY <1>1, LenProperties
<1>3. DOMAIN s = 1 .. n
  OBVIOUS
<1>4. 1 .. n = 1 .. Len(s)
  BY <1>2, <1>3
<1>5. Len(s) = n
  <2>1. CASE Len(s) < n
    <3>1. n \in 1 .. n /\ n \notin 1 .. Len(s)
      BY <1>2, <2>1
    <3> QED
      BY <1>4, <3>1
  <2>2. CASE n < Len(s)
    <3>1. Len(s) \in 1 .. Len(s) /\ Len(s) \notin 1 .. n
      BY <1>2, <2>2
    <3> QED
      BY <1>4, <3>1
  <2> QED
    BY <1>2, <2>1, <2>2
<1> QED
  BY <1>1, <1>5

LEMMA AtIs ==
  \A s, P : \A k \in 1 .. Cardinality(P) : At(s, P)[k] = s[Nth(P, k)]
  BY DEF At

LEMMA AtTyped ==
  \A S, s, P :
    IsFiniteSet(P) /\ P \subseteq Int /\ (\A p \in P : s[p] \in S)
    => At(s, P) \in Seq(S) /\ Len(At(s, P)) = Cardinality(P)
<1> SUFFICES ASSUME NEW S, NEW s, NEW P, IsFiniteSet(P), P \subseteq Int,
                    \A p \in P : s[p] \in S
             PROVE  At(s, P) \in Seq(S) /\ Len(At(s, P)) = Cardinality(P)
  OBVIOUS
<1>1. Cardinality(P) \in Nat
  BY FS_CardinalityType
<1>2. \A k \in 1 .. Cardinality(P) : Nth(P, k) \in P
  BY NthIs
<1>3. At(s, P) \in [1 .. Cardinality(P) -> S]
  BY <1>2 DEF At
<1> QED
  BY <1>1, <1>3, SeqOfInterval

LEMMA AtNowhere == \A s : At(s, {}) = <<>>
<1> TAKE s
<1>1. At(s, {}) \in Seq({}) /\ Len(At(s, {})) = 0
  BY AtTyped, FS_EmptySet
<1> QED
  BY <1>1, EmptySeq

LEMMA AtSame ==
  ASSUME NEW s, NEW t, NEW P, IsFiniteSet(P), P \subseteq Int,
         \A p \in P : s[p] = t[p]
  PROVE  At(s, P) = At(t, P)
<1>1. \A k \in 1 .. Cardinality(P) : Nth(P, k) \in P
  BY NthIs
<1> QED
  BY <1>1 DEF At

(* The first K of them are those at the first K places.                    *)
LEMMA FirstPlaces ==
  ASSUME NEW P, IsFiniteSet(P), P \subseteq Int, NEW K \in Nat
  PROVE  /\ IsFiniteSet(Foremost(P, K))
         /\ Cardinality(Foremost(P, K))
              = IF Cardinality(P) < K THEN Cardinality(P) ELSE K
         /\ \A k \in 1 .. Cardinality(Foremost(P, K)) :
              Nth(Foremost(P, K), k) = Nth(P, k)
<1> DEFINE Q == {p \in P : Cardinality(UpTo(P, p)) <= K}
           m == IF Cardinality(P) < K THEN Cardinality(P) ELSE K
           f == [k \in 1 .. m |-> Nth(P, k)]
<1>1. m \in Nat /\ m <= K /\ m <= Cardinality(P) /\ Cardinality(P) \in Nat
  BY FS_CardinalityType
<1>2. \A k \in 1 .. m : /\ Nth(P, k) \in Q
                        /\ Cardinality(UpTo(P, Nth(P, k))) = k
  <2> TAKE k \in 1 .. m
  <2>1. k \in 1 .. Cardinality(P) /\ k <= K
    BY <1>1
  <2> QED
    BY <2>1, NthIs
<1>3. \A p \in Q : \E k \in 1 .. m : Nth(P, k) = p
  <2> TAKE p \in Q
  <2>1. Cardinality(UpTo(P, p)) \in 1 .. Cardinality(P)
          /\ Cardinality(UpTo(P, p)) <= K
    BY PlacesCounted
  <2>2. Cardinality(UpTo(P, p)) \in 1 .. m
    BY <1>1, <2>1
  <2> QED
    BY <2>1, <2>2, NthIs
<1>4. f \in Bijection(1 .. m, Q)
  <2>1. f \in [1 .. m -> Q]
    BY <1>2
  <2>2. \A j, k \in 1 .. m : f[j] = f[k] => j = k
    BY <1>2
  <2>3. \A p \in Q : \E k \in 1 .. m : f[k] = p
    BY <1>3
  <2> QED
    BY <2>1, <2>2, <2>3 DEF Bijection, Injection, Surjection, IsInjective
<1>5. IsFiniteSet(1 .. m) /\ Cardinality(1 .. m) = m
  BY <1>1, IntervalCounted
<1>6. IsFiniteSet(Q) /\ Cardinality(Q) = m
  BY <1>4, <1>5, FS_Bijection DEF ExistsBijection
<1>7. \A k \in 1 .. m : Nth(Q, k) = Nth(P, k)
  <2> TAKE k \in 1 .. m
  <2> DEFINE p == Nth(P, k)
  <2>1. p \in Q /\ p \in P /\ Cardinality(UpTo(P, p)) = k /\ k \in Int
    BY <1>2
  <2>2. \A q \in P : q <= p => q \in Q
    <3> SUFFICES ASSUME NEW q \in P, q <= p PROVE q \in Q
      OBVIOUS
    <3>1. q \in Int /\ p \in Int
      BY <2>1
    <3>2. q = p \/ q < p
      BY <3>1
    <3>3. Cardinality(UpTo(P, q)) \in 1 .. Cardinality(P)
      BY PlacesCounted
    <3>4. Cardinality(UpTo(P, q)) <= k
      <4>1. CASE q < p
        <5>1. Cardinality(UpTo(P, q)) < Cardinality(UpTo(P, p))
          BY <2>1, <4>1, PlacesCounted
        <5> QED
          BY <1>1, <2>1, <3>3, <5>1
      <4>2. CASE q = p
        BY <1>1, <2>1, <4>2
      <4> QED
        BY <3>2, <4>1, <4>2
    <3> QED
      BY <1>1, <3>3, <3>4
  <2>3. UpTo(Q, p) = UpTo(P, p)
    BY <2>2 DEF UpTo
  <2>4. Q \subseteq Int /\ k \in 1 .. Cardinality(Q)
    BY <1>6
  <2> HIDE DEF p
  <2>5. p = Nth(Q, k)
    BY <1>6, <2>1, <2>3, <2>4, NthIs
  <2> QED
    BY <2>5 DEF p
<1> QED
  BY <1>6, <1>7 DEF Foremost

LEMMA FirstOfIs ==
  ASSUME NEW S, NEW s \in Seq(S), NEW K \in Nat
  PROVE  /\ FirstOf(s, K) \in Seq(S)
         /\ Len(FirstOf(s, K)) = IF Len(s) < K THEN Len(s) ELSE K
         /\ \A k \in 1 .. Len(FirstOf(s, K)) :
              k \in 1 .. Len(s) /\ FirstOf(s, K)[k] = s[k]
<1> DEFINE m == IF Len(s) < K THEN Len(s) ELSE K
<1>1. Len(s) \in Nat /\ m \in Nat /\ m <= Len(s)
  BY LenProperties
<1>2. \A k \in 1 .. m : k \in 1 .. Len(s) /\ s[k] \in S
  BY <1>1, ElementOfSeq
<1>3. /\ SubSeq(s, 1, m) \in Seq(S)
      /\ Len(SubSeq(s, 1, m)) = IF 1 <= m THEN m - 1 + 1 ELSE 0
      /\ \A k \in 1 .. m - 1 + 1 : SubSeq(s, 1, m)[k] = s[1 + k - 1]
  BY <1>1, <1>2, SubSeqProperties
<1>4. FirstOf(s, K) = SubSeq(s, 1, m)
  BY DEF FirstOf
<1>5. Len(SubSeq(s, 1, m)) = m
  BY <1>1, <1>3
<1>6. \A k \in 1 .. m : SubSeq(s, 1, m)[k] = s[k]
  BY <1>1, <1>3
<1> QED
  BY <1>2, <1>3, <1>4, <1>5, <1>6

LEMMA PlacesOf ==
  ASSUME NEW S, NEW s \in Seq(S)
  PROVE  /\ DOMAIN s = 1 .. Len(s) /\ Len(s) \in Nat
         /\ IsFiniteSet(DOMAIN s) /\ Cardinality(DOMAIN s) = Len(s)
         /\ \A m \in DOMAIN s : m \in Int /\ s[m] \in S
<1>1. DOMAIN s = 1 .. Len(s) /\ Len(s) \in Nat
  BY LenProperties
<1>2. IsFiniteSet(DOMAIN s) /\ Cardinality(DOMAIN s) = Len(s)
  BY <1>1, IntervalCounted
<1>3. \A m \in DOMAIN s : m \in Int /\ s[m] \in S
  BY <1>1, ElementOfSeq
<1> QED
  BY <1>1, <1>2, <1>3

LEMMA AtOfSeq ==
  ASSUME NEW S, NEW s \in Seq(S), NEW P \in SUBSET DOMAIN s
  PROVE  /\ IsFiniteSet(P) /\ P \subseteq Int
         /\ \A m \in P : s[m] \in S
         /\ At(s, P) \in Seq(S) /\ Len(At(s, P)) = Cardinality(P)
<1>1. IsFiniteSet(P) /\ P \subseteq Int /\ \A m \in P : s[m] \in S
  BY PlacesOf, FS_Subset
<1> QED
  BY <1>1, AtTyped

(* A place after all others comes last.                                    *)
LEMMA AtOneMore ==
  ASSUME NEW S, NEW s \in Seq(S), NEW P \in SUBSET DOMAIN s,
         NEW x \in DOMAIN s, \A p \in P : p < x
  PROVE  At(s, P \cup {x}) = Append(At(s, P), s[x])
<1> DEFINE n == Cardinality(P)
           Q == P \cup {x}
<1>0. /\ IsFiniteSet(P) /\ P \subseteq Int /\ \A p \in P : s[p] \in S
      /\ x \in Int /\ s[x] \in S
  BY AtOfSeq, PlacesOf
<1>1. x \notin P
  BY <1>0
<1>2. IsFiniteSet(Q) /\ Cardinality(Q) = n + 1 /\ n \in Nat
  BY <1>0, <1>1, FS_AddElement, FS_CardinalityType
<1>3. Q \subseteq Int /\ Q \in SUBSET DOMAIN s
  BY <1>0
<1>q. /\ \A p : p \in Q <=> p \in P \/ p = x
      /\ n = Cardinality(P)
  OBVIOUS
<1> HIDE DEF Q, n
<1>4. \A k \in 1 .. n : Nth(Q, k) = Nth(P, k)
  <2> TAKE k \in 1 .. n
  <2>1. Nth(P, k) \in P /\ Cardinality(UpTo(P, Nth(P, k))) = k
    BY <1>0, <1>q, NthIs
  <2>2. UpTo(Q, Nth(P, k)) = UpTo(P, Nth(P, k))
    <3>1. ~(x <= Nth(P, k))
      <4>1. Nth(P, k) < x /\ Nth(P, k) \in Int
        BY <1>0, <2>1
      <4> QED
        BY <4>1
    <3> QED
      BY <1>q, <3>1 DEF UpTo
  <2>3. k \in 1 .. Cardinality(Q)
    BY <1>2
  <2>4. Nth(P, k) \in Q /\ Cardinality(UpTo(Q, Nth(P, k))) = k
    BY <1>q, <2>1, <2>2
  <2>5. \A p \in Q : Cardinality(UpTo(Q, p)) = k => p = Nth(Q, k)
    BY <1>2, <1>3, <2>3, NthIs
  <2> QED
    BY <2>4, <2>5
<1>5. Nth(Q, n + 1) = x
  <2>1. UpTo(Q, x) = Q
    <3>1. \A p \in Q : p <= x
      <4> TAKE p \in Q
      <4>1. p \in Int /\ (p < x \/ p = x)
        BY <1>0, <1>3, <1>q
      <4> QED
        BY <4>1
    <3> QED
      BY <3>1 DEF UpTo
  <2>2. n + 1 \in 1 .. Cardinality(Q)
    BY <1>2
  <2>3. x \in Q /\ Cardinality(UpTo(Q, x)) = n + 1
    BY <1>2, <1>q, <2>1
  <2>4. \A p \in Q : Cardinality(UpTo(Q, p)) = n + 1 => p = Nth(Q, n + 1)
    BY <1>2, <1>3, <2>2, NthIs
  <2> QED
    BY <2>3, <2>4
<1>6. At(s, Q) \in Seq(S) /\ Len(At(s, Q)) = n + 1
  BY <1>2, <1>3, AtOfSeq
<1>7. At(s, P) \in Seq(S) /\ Len(At(s, P)) = n
  BY <1>q, AtOfSeq
<1>8. /\ Append(At(s, P), s[x]) \in Seq(S)
      /\ Len(Append(At(s, P), s[x])) = n + 1
      /\ \A k \in 1 .. n : Append(At(s, P), s[x])[k] = At(s, P)[k]
      /\ Append(At(s, P), s[x])[n + 1] = s[x]
  BY <1>0, <1>7, AppendProperties
<1>9. \A k \in 1 .. (n + 1) : At(s, Q)[k] = Append(At(s, P), s[x])[k]
  <2> TAKE k \in 1 .. (n + 1)
  <2>0. At(s, Q)[k] = s[Nth(Q, k)]
    BY <1>2, AtIs
  <2>1. CASE k \in 1 .. n
    <3>1. At(s, P)[k] = s[Nth(P, k)]
      BY <1>q, <2>1, AtIs
    <3> QED
      BY <1>4, <1>8, <2>0, <2>1, <3>1
  <2>2. CASE k = n + 1
    BY <1>5, <1>8, <2>0, <2>2
  <2>3. k \in 1 .. n \/ k = n + 1
    BY <1>2
  <2> QED
    BY <2>1, <2>2, <2>3
<1> QED
  BY <1>6, <1>8, <1>9, SeqEqual DEF Q

LEMMA FirstOfAt ==
  ASSUME NEW S, NEW s \in Seq(S), NEW P \in SUBSET DOMAIN s, NEW K \in Nat
  PROVE  FirstOf(At(s, P), K) = At(s, Foremost(P, K))
<1> DEFINE Q == Foremost(P, K)
<1>0. Q \in SUBSET DOMAIN s /\ IsFiniteSet(P) /\ P \subseteq Int
  BY AtOfSeq DEF Foremost
<1>1. /\ Cardinality(Q) = IF Cardinality(P) < K THEN Cardinality(P) ELSE K
      /\ \A k \in 1 .. Cardinality(Q) : Nth(Q, k) = Nth(P, k)
  BY <1>0, FirstPlaces
<1> HIDE DEF Q
<1>2. Cardinality(P) \in Nat
  BY <1>0, FS_CardinalityType
<1>3. /\ At(s, P) \in Seq(S) /\ Len(At(s, P)) = Cardinality(P)
      /\ \A k \in 1 .. Cardinality(P) : At(s, P)[k] = s[Nth(P, k)]
  BY AtIs, AtOfSeq
<1>4. /\ At(s, Q) \in Seq(S) /\ Len(At(s, Q)) = Cardinality(Q)
      /\ \A k \in 1 .. Cardinality(Q) : At(s, Q)[k] = s[Nth(Q, k)]
  BY <1>0, AtIs, AtOfSeq
<1>5. /\ FirstOf(At(s, P), K) \in Seq(S)
      /\ Len(FirstOf(At(s, P), K)) = Cardinality(Q)
      /\ \A k \in 1 .. Cardinality(Q) :
           k \in 1 .. Cardinality(P) /\ FirstOf(At(s, P), K)[k] = At(s, P)[k]
  BY <1>1, <1>3, FirstOfIs
<1>6. \A k \in 1 .. Cardinality(Q) : FirstOf(At(s, P), K)[k] = At(s, Q)[k]
  BY <1>1, <1>3, <1>4, <1>5
<1>7. FirstOf(At(s, P), K) = At(s, Q)
  BY <1>4, <1>5, <1>6, SeqEqual
<1> QED
  BY <1>7 DEF Q

(* The first K of all known places are among those up to n, if those are K *)
(* or all.                                                                 *)
LEMMA PrefixSuffices ==
  ASSUME NEW P, IsFiniteSet(P), P \subseteq Int, NEW n \in Int, NEW k \in Nat,
         UpTo(P, n) = P \/ Cardinality(UpTo(P, n)) >= k
  PROVE  Foremost(P, k) = Foremost(UpTo(P, n), k)
<1> DEFINE W == UpTo(P, n)
<1>1. IsFiniteSet(W) /\ Cardinality(W) \in Nat /\ W \subseteq P
  BY FS_Subset, FS_CardinalityType DEF UpTo
<1>0. \A p : p \in W <=> p \in P /\ p <= n
  BY DEF UpTo
<1> HIDE DEF W
<1>2. \A p \in W : UpTo(W, p) = UpTo(P, p)
  <2> SUFFICES ASSUME NEW p \in W PROVE UpTo(W, p) = UpTo(P, p)
    OBVIOUS
  <2>0. p \in Int /\ p <= n
    BY <1>0
  <2>1. \A q \in P : q <= p => q <= n
    BY <2>0
  <2> QED
    BY <1>0, <2>1 DEF UpTo
<1>3. ASSUME NEW p \in P, p \notin W PROVE ~(Cardinality(UpTo(P, p)) <= k)
  <2>1. p \in Int /\ p > n /\ Cardinality(W) >= k
    BY <1>0, <1>3 DEF W
  <2>2. /\ W \in SUBSET UpTo(P, p) /\ p \in UpTo(P, p)
        /\ UpTo(P, p) \in SUBSET P
    <3>1. \A q \in W : q <= p
      <4> TAKE q \in W
      <4>1. q \in Int /\ q <= n
        BY <1>0
      <4> QED
        BY <2>1, <4>1
    <3>2. p <= p
      BY <2>1
    <3> QED
      BY <1>1, <3>1, <3>2 DEF UpTo
  <2>3. IsFiniteSet(UpTo(P, p)) /\ Cardinality(UpTo(P, p)) \in Nat
    BY <2>2, FS_Subset, FS_CardinalityType
  <2>4. /\ Cardinality(W) <= Cardinality(UpTo(P, p))
        /\ Cardinality(W) # Cardinality(UpTo(P, p))
    BY <1>3, <2>2, <2>3, FS_Subset
  <2> QED
    BY <1>1, <2>1, <2>3, <2>4
<1>4. \A p : p \in Foremost(P, k) <=> p \in Foremost(W, k)
  BY <1>0, <1>2, <1>3 DEF Foremost
<1> QED
  BY <1>4, SetExtensionality DEF W

(* A search of the text index gives hits of the index.                     *)
LEMMA KeywordHitsTyped ==
  ASSUME NEW S, NEW s \in Seq(S), NEW k \in Nat
  PROVE  KeywordHits(s, k) \in Seq(S)
<1>1. k * Multiplier \in Nat
  BY FusionAssumption
<1>2. FirstOf(s, k * Multiplier) \in Seq(S)
  BY <1>1, FirstOfIs
<1>3. \A h \in Seq(S) : BestPerDoc(h) \in Seq(S)
  <2> TAKE h \in Seq(S)
  <2> DEFINE P == {m \in DOMAIN h : \A l \in 1 .. (m - 1) : h[l][1] # h[m][1]}
  <2>1. P \in SUBSET DOMAIN h
    OBVIOUS
  <2> HIDE DEF P
  <2>2. At(h, P) \in Seq(S)
    BY <2>1, AtOfSeq
  <2> QED
    BY <2>2 DEF BestPerDoc, P
<1>4. BestPerDoc(FirstOf(s, k * Multiplier)) \in Seq(S)
  BY <1>2, <1>3
<1> QED
  BY <1>4, FirstOfIs DEF KeywordHits

LEMMA RanksTyped ==
  ASSUME NEW S, NEW s \in Seq(S)
  PROVE  /\ Ranks(s) \in [ToSet(s) -> Nat]
         /\ ToSet(s) \in SUBSET S /\ IsFiniteSet(ToSet(s))
<1>1. /\ IsFiniteSet(DOMAIN s)
      /\ \A m \in DOMAIN s : s[m] \in S
  BY PlacesOf
<1>2. ToSet(s) = {s[m] : m \in DOMAIN s}
  BY DEF ToSet
<1>3. IsFiniteSet(ToSet(s))
  <2> DEFINE f == [m \in DOMAIN s |-> s[m]]
  <2>1. f \in Surjection(DOMAIN s, ToSet(s))
    BY <1>2 DEF Surjection
  <2> QED
    BY <1>1, <2>1, FS_Surjection
<1>4. ASSUME NEW c \in ToSet(s)
      PROVE  1 + Cardinality({m \in DOMAIN s : \A l \in 1 .. m :
        s[l] # c}) \in Nat
  <2> DEFINE P == {m \in DOMAIN s : \A l \in 1 .. m : s[l] # c}
  <2>1. P \in SUBSET DOMAIN s
    OBVIOUS
  <2> HIDE DEF P
  <2>2. Cardinality(P) \in Nat
    BY <1>1, <2>1, FS_Subset, FS_CardinalityType
  <2>3. 1 + Cardinality(P) \in Nat
    BY <2>2
  <2> QED
    BY <2>3 DEF P
<1>5. Ranks(s) \in [ToSet(s) -> Nat]
  BY <1>4 DEF Ranks
<1> QED
  BY <1>1, <1>2, <1>3, <1>5

-----------------------------------------------------------------------------
(* Fused.                                                                  *)

(* Ranks of ids in two lists.                                              *)
Two(t, v) == t \in [DOMAIN t -> Nat] /\ v \in [DOMAIN v -> Nat]

Beats(t, v, c, d) == AtLeast(Score(t, v, c), Score(t, v, d))

Top(t, v, rest) == {c \in rest : \A d \in rest : Beats(t, v, c, d)}

(* The lists of all ids of a set, each once, best first.                   *)
Sorted(t, v, rest) ==
  {s \in Seq(rest) :
     /\ \A m, n \in DOMAIN s : s[m] = s[n] => m = n
     /\ \A c \in rest : \E m \in DOMAIN s : s[m] = c
     /\ \A m, n \in DOMAIN s : m < n => Beats(t, v, s[m], s[n])}

Longer(f, t, v, rest) ==
  IF rest = {} THEN {<<>>}
  ELSE UNION {{<<c>> \o s : s \in f[rest \ {c}]} : c \in Top(t, v, rest)}

LEMMA ScoresCompare ==
  ASSUME NEW t, NEW v, Two(t, v), NEW c
  PROVE  Beats(t, v, c, c)
<1>0. RrfK \in Nat
  BY FusionAssumption
<1>1. ASSUME NEW D, NEW f \in [D -> Nat]
      PROVE  Reciprocal(f, c)[1] \in Int /\ Reciprocal(f, c)[2] \in Int
  <2>1. CASE c \in D
    <3>1. Reciprocal(f, c) = <<1, RrfK + f[c]>>
      BY <2>1 DEF Reciprocal
    <3>2. RrfK + f[c] \in Int
      BY <1>0, <2>1
    <3> QED
      BY <3>1, <3>2
  <2>2. CASE c \notin D
    BY <2>2 DEF Reciprocal
  <2> QED
    BY <2>1, <2>2
<1> DEFINE p == Reciprocal(t, c)
           q == Reciprocal(v, c)
<1>2. /\ p[1] \in Int /\ p[2] \in Int /\ q[1] \in Int /\ q[2] \in Int
  BY <1>1 DEF Two
<1>3. Score(t, v, c) = <<p[1] * q[2] + q[1] * p[2], p[2] * q[2]>>
  BY DEF Score
<1> HIDE DEF p, q
<1>4. p[1] * q[2] \in Int /\ q[1] * p[2] \in Int /\ p[2] * q[2] \in Int
  BY <1>2
<1>5. PICK i \in Int, j \in Int : Score(t, v, c) = <<i, j>>
  BY <1>3, <1>4
<1>6. i * j \in Int
  OBVIOUS
<1>7. i * j >= i * j
  BY <1>6
<1> QED
  BY <1>5, <1>7 DEF Beats, AtLeast

LEMMA Prepended ==
  ASSUME NEW S, NEW c \in S, NEW s \in Seq(S)
  PROVE  /\ <<c>> \o s \in Seq(S)
         /\ DOMAIN (<<c>> \o s) = 1 .. (Len(s) + 1)
         /\ (<<c>> \o s)[1] = c
         /\ \A m \in 1 .. Len(s) : (<<c>> \o s)[m + 1] = s[m]
<1>1. <<c>> \in Seq(S) /\ Len(<<c>>) = 1 /\ <<c>>[1] = c
  OBVIOUS
<1>2. Len(s) \in Nat
  BY LenProperties
<1>3. /\ <<c>> \o s \in Seq(S)
      /\ Len(<<c>> \o s) = 1 + Len(s)
      /\ \A i \in 1 .. 1 + Len(s) :
           (<<c>> \o s)[i] = IF i <= 1 THEN <<c>>[i] ELSE s[i - 1]
  BY <1>1, ConcatProperties
<1>4. DOMAIN (<<c>> \o s) = 1 .. (Len(s) + 1)
  BY <1>2, <1>3, LenProperties
<1>5. (<<c>> \o s)[1] = c
  BY <1>1, <1>2, <1>3
<1>6. ASSUME NEW m \in 1 .. Len(s) PROVE (<<c>> \o s)[m + 1] = s[m]
  <2>1. m + 1 \in 1 .. 1 + Len(s) /\ ~(m + 1 <= 1) /\ m + 1 - 1 = m
    BY <1>2
  <2> QED
    BY <1>3, <2>1
<1> QED
  BY <1>3, <1>4, <1>5, <1>6

LEMMA SortedNone ==
  ASSUME NEW t, NEW v PROVE Sorted(t, v, {}) = {<<>>}
<1>1. <<>> \in Sorted(t, v, {})
  BY EmptySeq DEF Sorted
<1>2. ASSUME NEW s \in Sorted(t, v, {}) PROVE s = <<>>
  <2>1. s \in Seq({})
    BY DEF Sorted
  <2>2. s # <<>> => 1 \in 1 .. Len(s)
    BY <2>1, EmptySeq
  <2> QED
    BY <2>1, <2>2, ElementOfSeq
<1> QED
  BY <1>1, <1>2

LEMMA SortedLonger ==
  ASSUME NEW t, NEW v, Two(t, v),
         NEW rest, rest # {}, NEW c \in Top(t, v, rest),
         NEW s \in Sorted(t, v, rest \ {c})
  PROVE  <<c>> \o s \in Sorted(t, v, rest)
<1> DEFINE l == <<c>> \o s
<1>1. /\ c \in rest /\ \A d \in rest : Beats(t, v, c, d)
  BY DEF Top
<1>2. s \in Seq(rest \ {c}) /\ s \in Seq(rest)
  BY DEF Sorted
<1>3. Len(s) \in Nat /\ DOMAIN s = 1 .. Len(s)
  BY <1>2, LenProperties
<1>4. \A m \in 1 .. Len(s) : s[m] \in rest /\ s[m] # c
  BY <1>2, ElementOfSeq
<1>5. /\ l \in Seq(rest) /\ DOMAIN l = 1 .. (Len(s) + 1)
      /\ l[1] = c /\ \A m \in 1 .. Len(s) : l[m + 1] = s[m]
  BY <1>1, <1>2, Prepended
<1> HIDE DEF l
<1>6. \A m \in DOMAIN l : m = 1 \/ (\E k \in 1 .. Len(s) : m = k + 1
        /\ l[m] = s[k])
  <2> TAKE m \in DOMAIN l
  <2>1. m = 1 \/ (m - 1 \in 1 .. Len(s) /\ m = (m - 1) + 1)
    BY <1>3, <1>5
  <2> QED
    BY <1>5, <2>1
<1>7. \A m, n \in DOMAIN l : l[m] = l[n] => m = n
  <2> SUFFICES ASSUME NEW m \in DOMAIN l, NEW n \in DOMAIN l, l[m] = l[n]
               PROVE  m = n
    OBVIOUS
  <2>1. CASE m = 1 \/ n = 1
    BY <1>4, <1>5, <1>6, <2>1
  <2>2. CASE m # 1 /\ n # 1
    <3>1. PICK k \in 1 .. Len(s) : m = k + 1 /\ l[m] = s[k]
      BY <1>6, <2>2
    <3>2. PICK j \in 1 .. Len(s) : n = j + 1 /\ l[n] = s[j]
      BY <1>6, <2>2
    <3>3. k = j
      BY <1>3, <3>1, <3>2 DEF Sorted
    <3> QED
      BY <3>1, <3>2, <3>3
  <2> QED
    BY <2>1, <2>2
<1>8. \A d \in rest : \E m \in DOMAIN l : l[m] = d
  <2> TAKE d \in rest
  <2>1. CASE d = c
    BY <1>3, <1>5, <2>1
  <2>2. CASE d # c
    <3>1. PICK k \in 1 .. Len(s) : s[k] = d
      BY <1>3, <2>2 DEF Sorted
    <3>2. k + 1 \in DOMAIN l
      BY <1>3, <1>5
    <3> QED
      BY <1>5, <3>1, <3>2
  <2> QED
    BY <2>1, <2>2
<1>9. \A m, n \in DOMAIN l : m < n => Beats(t, v, l[m], l[n])
  <2> SUFFICES ASSUME NEW m \in DOMAIN l, NEW n \in DOMAIN l, m < n
               PROVE  Beats(t, v, l[m], l[n])
    OBVIOUS
  <2>1. n # 1 /\ m \in Int /\ n \in Int
    BY <1>3, <1>5
  <2>2. PICK k \in 1 .. Len(s) : n = k + 1 /\ l[n] = s[k]
    BY <1>6, <2>1
  <2>3. CASE m = 1
    BY <1>1, <1>4, <1>5, <2>2, <2>3
  <2>4. CASE m # 1
    <3>1. PICK j \in 1 .. Len(s) : m = j + 1 /\ l[m] = s[j]
      BY <1>6, <2>4
    <3>2. j < k
      BY <1>3, <2>2, <3>1
    <3> QED
      BY <1>3, <2>2, <3>1, <3>2 DEF Sorted
  <2> QED
    BY <2>3, <2>4
<1>10. l \in Sorted(t, v, rest)
  BY <1>5, <1>7, <1>8, <1>9 DEF Sorted
<1> QED
  BY <1>10 DEF l

Splits(l, t, v, rest) ==
  \E c \in Top(t, v, rest) : \E s \in Sorted(t, v, rest \ {c}) : l = <<c>> \o s

LEMMA SortedShorter ==
  ASSUME NEW t, NEW v, Two(t, v),
         NEW rest, rest # {}, NEW l \in Sorted(t, v, rest)
  PROVE  Splits(l, t, v, rest)
<1> DEFINE c == l[1]
           s == Tail(l)
<1>1. /\ l \in Seq(rest) /\ Len(l) \in Nat /\ DOMAIN l = 1 .. Len(l)
      /\ \A m \in 1 .. Len(l) : l[m] \in rest
  BY LenProperties, ElementOfSeq DEF Sorted
<1>2. /\ \A m, n \in DOMAIN l : l[m] = l[n] => m = n
      /\ \A d \in rest : \E m \in DOMAIN l : l[m] = d
      /\ \A m, n \in DOMAIN l : m < n => Beats(t, v, l[m], l[n])
  BY DEF Sorted
<1>3. l # <<>> /\ Len(l) >= 1 /\ 1 \in DOMAIN l
  <2>1. PICK d \in rest : TRUE
    OBVIOUS
  <2>2. PICK m \in DOMAIN l : l[m] = d
    BY <1>2
  <2> QED
    BY <1>1, <2>2, EmptySeq
<1>4. c \in Top(t, v, rest)
  <2>1. c \in rest
    BY <1>1, <1>3
  <2>2. ASSUME NEW d \in rest PROVE Beats(t, v, c, d)
    <3>1. PICK m \in DOMAIN l : l[m] = d
      BY <1>2
    <3>2. CASE m = 1
      BY <3>1, <3>2, ScoresCompare
    <3>3. CASE m # 1
      <4>1. 1 < m
        BY <1>1, <3>3
      <4> QED
        BY <1>2, <1>3, <3>1, <4>1
    <3> QED
      BY <3>2, <3>3
  <2> QED
    BY <2>1, <2>2 DEF Top
<1>5. /\ s \in Seq(rest) /\ Len(s) = Len(l) - 1
      /\ \A m \in 1 .. Len(s) : s[m] = l[m + 1]
  BY <1>1, <1>3, HeadTailProperties
<1> HIDE DEF c, s
<1>6. Len(s) \in Nat /\ DOMAIN s = 1 .. Len(s)
  BY <1>5, LenProperties
<1>7. \A m \in 1 .. Len(s) : m + 1 \in DOMAIN l /\ m + 1 # 1 /\ m \in Int
  BY <1>1, <1>5, <1>6
<1>8. \A m \in 1 .. Len(s) : s[m] \in rest \ {c}
  <2> TAKE m \in 1 .. Len(s)
  <2>1. m + 1 \in DOMAIN l /\ m + 1 # 1 /\ s[m] = l[m + 1]
    BY <1>5, <1>7
  <2>2. l[m + 1] # l[1]
    BY <1>2, <1>3, <2>1
  <2>3. l[m + 1] \in rest
    BY <1>1, <2>1
  <2> QED
    BY <2>1, <2>2, <2>3 DEF c
<1>9. s \in Seq(rest \ {c})
  <2>1. s \in [1 .. Len(s) -> rest \ {c}]
    BY <1>5, <1>8, LenProperties
  <2> QED
    BY <1>6, <2>1, SeqOfInterval
<1>10. s \in Sorted(t, v, rest \ {c})
  <2>1. \A m, n \in DOMAIN s : s[m] = s[n] => m = n
    <3> SUFFICES ASSUME NEW m \in DOMAIN s, NEW n \in DOMAIN s, s[m] = s[n]
                 PROVE  m = n
      OBVIOUS
    <3>1. m + 1 = n + 1
      <4>1. s[m] = l[m + 1] /\ s[n] = l[n + 1]
        BY <1>5, <1>6
      <4>2. m + 1 \in DOMAIN l /\ n + 1 \in DOMAIN l
        BY <1>6, <1>7
      <4> QED
        BY <1>2, <4>1, <4>2
    <3> QED
      BY <1>6, <3>1
  <2>2. \A d \in rest \ {c} : \E m \in DOMAIN s : s[m] = d
    <3> TAKE d \in rest \ {c}
    <3>1. PICK m \in DOMAIN l : l[m] = d
      BY <1>2
    <3>2. m # 1
      BY <3>1 DEF c
    <3>3. m - 1 \in 1 .. Len(s) /\ (m - 1) + 1 = m
      BY <1>1, <1>5, <3>2
    <3> QED
      BY <1>5, <1>6, <3>1, <3>3
  <2>3. \A m, n \in DOMAIN s : m < n => Beats(t, v, s[m], s[n])
    <3> SUFFICES ASSUME NEW m \in DOMAIN s, NEW n \in DOMAIN s, m < n
                 PROVE  Beats(t, v, s[m], s[n])
      OBVIOUS
    <3>1. m + 1 < n + 1 /\ m + 1 \in DOMAIN l /\ n + 1 \in DOMAIN l
      BY <1>6, <1>7
    <3>2. Beats(t, v, l[m + 1], l[n + 1])
      BY <1>2, <3>1
    <3>3. s[m] = l[m + 1] /\ s[n] = l[n + 1]
      BY <1>5, <1>6
    <3> QED
      BY <3>2, <3>3
  <2> QED
    BY <1>9, <2>1, <2>2, <2>3 DEF Sorted
<1>11. l = <<c>> \o s
  <2>1. c \in rest
    BY <1>1, <1>3 DEF c
  <2>2. /\ <<c>> \o s \in Seq(rest)
        /\ DOMAIN (<<c>> \o s) = 1 .. (Len(s) + 1)
        /\ (<<c>> \o s)[1] = c
        /\ \A m \in 1 .. Len(s) : (<<c>> \o s)[m + 1] = s[m]
    BY <1>5, <2>1, Prepended
  <2>3. Len(<<c>> \o s) = Len(l)
    <3>1. /\ Len(<<c>> \o s) \in Nat
          /\ <<c>> \o s \in [1 .. Len(<<c>> \o s) -> rest]
      BY <2>2, LenProperties
    <3>2. DOMAIN (<<c>> \o s) = 1 .. Len(l)
      <4>1. Len(s) + 1 = Len(l)
        BY <1>1, <1>5
      <4> QED
        BY <2>2, <4>1
    <3>3. <<c>> \o s \in [1 .. Len(l) -> rest]
      BY <3>1, <3>2
    <3> QED
      BY <1>1, <3>3, SeqOfInterval
  <2>4. \A m \in 1 .. Len(l) : l[m] = (<<c>> \o s)[m]
    <3> TAKE m \in 1 .. Len(l)
    <3>1. CASE m = 1
      BY <2>2, <3>1 DEF c
    <3>2. CASE m # 1
      <4>1. m - 1 \in 1 .. Len(s) /\ (m - 1) + 1 = m
        BY <1>1, <1>5, <3>2
      <4> QED
        BY <1>5, <2>2, <4>1
    <3> QED
      BY <3>1, <3>2
  <2> QED
    BY <1>1, <2>2, <2>3, <2>4, SeqEqual
<1> QED
  BY <1>4, <1>10, <1>11 DEF Splits

Extends(l, g, t, v, rest) ==
  \E c \in Top(t, v, rest) : \E s \in g[rest \ {c}] : l = <<c>> \o s

LEMMA LongerIs ==
  ASSUME NEW t, NEW v, NEW rest, rest # {}, NEW g
  PROVE  \A l : l \in Longer(g, t, v, rest)
           <=> Extends(l, g, t, v, rest)
<1> TAKE l
<1>1. Longer(g, t, v, rest)
        = UNION {{<<c>> \o s : s \in g[rest \ {c}]} : c \in Top(t, v, rest)}
  BY DEF Longer
<1>2. ASSUME NEW c \in Top(t, v, rest)
      PROVE  l \in {<<c>> \o s : s \in g[rest \ {c}]}
               <=> \E s \in g[rest \ {c}] : l = <<c>> \o s
  OBVIOUS
<1>3. l \in Longer(g, t, v, rest)
        <=> \E c \in Top(t, v, rest) : l \in {<<c>> \o s : s \in g[rest \ {c}]}
  BY <1>1
<1> QED
  BY <1>2, <1>3 DEF Extends

Solves(f, t, v, ids) ==
  \A rest \in SUBSET ids : f[rest] = Longer(f, t, v, rest)

AllSorted(t, v, ids) == [rest \in SUBSET ids |-> Sorted(t, v, rest)]

LEMMA SortedRecursion ==
  ASSUME NEW t, NEW v, Two(t, v),
         NEW ids
  PROVE  Solves(AllSorted(t, v, ids), t, v, ids)
<1> DEFINE g == AllSorted(t, v, ids)
<1>0. \A rest \in SUBSET ids : g[rest] = Sorted(t, v, rest)
  BY DEF AllSorted
<1> HIDE DEF g
<1> SUFFICES ASSUME NEW rest \in SUBSET ids
             PROVE  g[rest] = Longer(g, t, v, rest)
  BY DEF Solves, g
<1>1. CASE rest = {}
  BY <1>0, <1>1, SortedNone DEF Longer
<1>2. CASE rest # {}
  <2>1. \A c \in rest : rest \ {c} \in SUBSET ids
    OBVIOUS
  <2>2. \A c \in Top(t, v, rest) : g[rest \ {c}] = Sorted(t, v, rest \ {c})
    BY <1>0, <2>1 DEF Top
  <2>3. ASSUME NEW l
        PROVE  l \in Sorted(t, v, rest) <=> Extends(l, g, t, v, rest)
    <3>1. ASSUME l \in Sorted(t, v, rest)
          PROVE  Extends(l, g, t, v, rest)
      <4>0. Splits(l, t, v, rest)
        BY <1>2, <3>1, SortedShorter
      <4>1. PICK c \in Top(t, v, rest) :
              \E s \in Sorted(t, v, rest \ {c}) : l = <<c>> \o s
        BY <4>0 DEF Splits
      <4> QED
        BY <2>2, <4>1 DEF Extends
    <3>2. ASSUME NEW c \in Top(t, v, rest), NEW s \in g[rest \ {c}],
                 l = <<c>> \o s
          PROVE  l \in Sorted(t, v, rest)
      <4>1. s \in Sorted(t, v, rest \ {c})
        BY <2>2
      <4> QED
        BY <1>2, <3>2, <4>1, SortedLonger
    <3> QED
      BY <3>1, <3>2 DEF Extends
  <2>4. \A l : l \in g[rest] <=> l \in Longer(g, t, v, rest)
    <3>1. \A l : l \in Longer(g, t, v, rest) <=> Extends(l, g, t, v, rest)
      BY <1>2, LongerIs
    <3>2. g[rest] = Sorted(t, v, rest)
      BY <1>0
    <3> QED
      BY <2>3, <3>1, <3>2
  <2> QED
    BY <2>4, SetExtensionality
<1> QED
  BY <1>1, <1>2

(* Only one function is so computed.                                       *)
LEMMA RecursionUnique ==
  ASSUME NEW t, NEW v, NEW ids, IsFiniteSet(ids), NEW f, NEW g,
         Solves(f, t, v, ids), Solves(g, t, v, ids)
  PROVE  \A rest \in SUBSET ids : f[rest] = g[rest]
<1> DEFINE T == {rest \in SUBSET ids : f[rest] # g[rest]}
<1>1. SUFFICES ASSUME T # {} PROVE FALSE
  OBVIOUS
<1>2. T \subseteq FiniteSubsetsOf(ids)
  BY FS_Subset DEF FiniteSubsetsOf
<1> HIDE DEF T
<1>3. PICK rest \in T : \A y \in T :
        ~(<<y, rest>> \in StrictSubsetOrdering(ids))
  BY <1>1, <1>2, WFMin, FS_StrictSubsetOrderingWellFounded
<1>4. rest \in SUBSET ids /\ f[rest] # g[rest]
  BY DEF T
<1>5. \A c \in rest : f[rest \ {c}] = g[rest \ {c}]
  <2> TAKE c \in rest
  <2>1. rest \ {c} \in SUBSET ids
    BY <1>4
  <2>2. <<rest \ {c}, rest>> \in StrictSubsetOrdering(ids)
    BY <1>4, <2>1 DEF StrictSubsetOrdering
  <2> QED
    BY <1>3, <2>1, <2>2 DEF T
<1>6. Longer(f, t, v, rest) = Longer(g, t, v, rest)
  <2>1. \A c \in Top(t, v, rest) : f[rest \ {c}] = g[rest \ {c}]
    BY <1>5 DEF Top
  <2>2. CASE rest = {}
    BY <2>2 DEF Longer
  <2>3. CASE rest # {}
    <3>1. \A l : l \in Longer(f, t, v, rest) <=> Extends(l, f, t, v, rest)
      BY <2>3, LongerIs
    <3>2. \A l : l \in Longer(g, t, v, rest) <=> Extends(l, g, t, v, rest)
      BY <2>3, LongerIs
    <3>3. \A l : l \in Longer(f, t, v, rest) <=> l \in Longer(g, t, v, rest)
      BY <2>1, <3>1, <3>2 DEF Extends
    <3> QED
      BY <3>3, SetExtensionality
  <2> QED
    BY <2>2, <2>3
<1> QED
  BY <1>4, <1>6 DEF Solves

Recursion(f, t, v, ids) ==
  [rest \in SUBSET ids |-> Longer(f, t, v, rest)]

LEMMA FusedIs ==
  ASSUME NEW t, NEW v, Two(t, v), IsFiniteSet(DOMAIN t), IsFiniteSet(DOMAIN v)
  PROVE  Fused(t, v) = Sorted(t, v, DOMAIN t \cup DOMAIN v)
<1> DEFINE ids == DOMAIN t \cup DOMAIN v
           f == CHOOSE h : h = Recursion(h, t, v, ids)
           g == AllSorted(t, v, ids)
<1>1. IsFiniteSet(ids)
  BY FS_Union
<1>2. Fused(t, v) = f[ids]
  BY DEF Fused, Recursion, Longer, Top, Beats
<1> HIDE DEF ids
<1>4. Solves(g, t, v, ids)
  BY SortedRecursion
<1>5. g = [rest \in SUBSET ids |-> g[rest]] /\ g[ids] = Sorted(t, v, ids)
  BY DEF AllSorted
<1> HIDE DEF g
<1>6. g = Recursion(g, t, v, ids)
  BY <1>4, <1>5 DEF Recursion, Solves
<1>7. f = Recursion(f, t, v, ids)
  BY <1>6
<1> HIDE DEF f
<1>8. Solves(f, t, v, ids)
  BY <1>7 DEF Recursion, Solves
<1>9. f[ids] = g[ids]
  BY <1>1, <1>4, <1>8, RecursionUnique
<1>10. Fused(t, v) = Sorted(t, v, ids)
  BY <1>2, <1>5, <1>9
<1> QED
  BY <1>10 DEF ids

(* What is fused is sorted: any list of all the ids, each of them once, the*)
(* score of one nowhere below that of a later one, and nothing else.       *)
THEOREM FusedIsSorted ==
  ASSUME NEW A, NEW B, IsFiniteSet(A), IsFiniteSet(B),
         NEW t \in [A -> Nat], NEW v \in [B -> Nat]
  PROVE  Fused(t, v) =
           {s \in Seq(A \cup B) :
              /\ \A m, n \in DOMAIN s : s[m] = s[n] => m = n
              /\ \A c \in A \cup B : \E m \in DOMAIN s : s[m] = c
              /\ \A m, n \in DOMAIN s : m < n =>
                   AtLeast(Score(t, v, s[m]), Score(t, v, s[n]))}
<1>1. DOMAIN t = A /\ DOMAIN v = B /\ Two(t, v)
  BY DEF Two
<1>2. Fused(t, v) = Sorted(t, v, A \cup B)
  BY <1>1, FusedIs
<1> QED
  BY <1>2 DEF Sorted, Beats

-----------------------------------------------------------------------------
(* Walks over a ranking, and windows.                                      *)

(* No id comes twice.                                                      *)
Distinct(s) == \A m, n \in DOMAIN s : s[m] = s[n] => m = n

LEMMA FusedTyped ==
  ASSUME NEW S, NEW h \in Seq(S), NEW i \in Seq(S),
         NEW s \in Fused(Ranks(h), Ranks(i))
  PROVE  s \in Seq(S) /\ Distinct(s)
<1> DEFINE t == Ranks(h)
           v == Ranks(i)
           A == ToSet(h)
           B == ToSet(i)
<1>1. /\ t \in [A -> Nat] /\ A \in SUBSET S /\ IsFiniteSet(A)
      /\ v \in [B -> Nat] /\ B \in SUBSET S /\ IsFiniteSet(B)
  BY RanksTyped
<1>2. s \in Fused(t, v)
  OBVIOUS
<1> HIDE DEF t, v, A, B
<1>3. s \in Seq(A \cup B) /\ Distinct(s)
  <2>1. Two(t, v) /\ DOMAIN t = A /\ DOMAIN v = B
    BY <1>1 DEF Two
  <2>2. s \in Sorted(t, v, A \cup B)
    BY <1>1, <1>2, <2>1, FusedIs
  <2> QED
    BY <2>2 DEF Sorted, Distinct
<1>4. \A m \in 1 .. Len(s) : s[m] \in S
  BY <1>1, <1>3, ElementOfSeq
<1>5. s \in [1 .. Len(s) -> S] /\ Len(s) \in Nat
  BY <1>3, <1>4, LenProperties
<1> QED
  BY <1>3, <1>5, SeqOfInterval

(* Places of s at which it has an element of K.                            *)
PlacesIn(s, K) == {m \in DOMAIN s : s[m] \in K}

Missing(s, K) == {c \in ToSet(s) : c \notin K}

LEMMA MissesCounted ==
  ASSUME NEW S, NEW s \in Seq(S), Distinct(s), NEW K
  PROVE  /\ IsFiniteSet(PlacesIn(s, K)) /\ IsFiniteSet(Missing(s, K))
         /\ Cardinality(PlacesIn(s, K)) \in Nat
         /\ Cardinality(Missing(s, K)) \in Nat
         /\ Cardinality(PlacesIn(s, K)) + Cardinality(Missing(s, K)) = Len(s)
<1> DEFINE P == PlacesIn(s, K)
           M == DOMAIN s \ P
           f == [m \in M |-> s[m]]
<1>1. P \in SUBSET DOMAIN s /\ M \in SUBSET DOMAIN s
  BY DEF PlacesIn
<1>2. IsFiniteSet(DOMAIN s) /\ Cardinality(DOMAIN s) = Len(s)
  BY PlacesOf
<1>3. IsFiniteSet(P) /\ IsFiniteSet(M)
  BY <1>1, <1>2, FS_Subset
<1>4. f \in Bijection(M, Missing(s, K))
  <2>1. ToSet(s) = {s[m] : m \in DOMAIN s}
    BY DEF ToSet
  <2>2. f \in [M -> Missing(s, K)]
    BY <2>1 DEF Missing, PlacesIn
  <2>3. \A m, n \in M : f[m] = f[n] => m = n
    BY DEF Distinct
  <2>4. \A c \in Missing(s, K) : \E m \in M : f[m] = c
    BY <2>1 DEF Missing, PlacesIn
  <2> QED
    BY <2>2, <2>3, <2>4 DEF Bijection, Injection, Surjection, IsInjective
<1>5. IsFiniteSet(Missing(s, K)) /\ Cardinality(Missing(s, K)) = Cardinality(M)
  BY <1>3, <1>4, FS_Bijection DEF ExistsBijection
<1>6. DOMAIN s = P \cup M /\ P \cap M = {}
  BY <1>1
<1> HIDE DEF P, M
<1>7. /\ Cardinality(P) \in Nat /\ Cardinality(M) \in Nat
      /\ Cardinality(P \cup M)
           = Cardinality(P) + Cardinality(M) - Cardinality(P \cap M)
  BY <1>3, FS_Union, FS_CardinalityType
<1>8. Cardinality(P) + Cardinality(M) = Len(s)
  <2>1. Cardinality(P \cap M) = 0
    BY <1>6, FS_EmptySet
  <2>2. Cardinality(P \cup M) = Len(s)
    BY <1>2, <1>6
  <2> QED
    BY <1>7, <2>1, <2>2
<1> QED
  BY <1>3, <1>5, <1>7, <1>8 DEF P

LEMMA WindowIs ==
  ASSUME NEW S, NEW s \in Seq(S)
  PROVE  /\ Window(s) \in Seq(S)
         /\ DOMAIN Window(s) = {m \in DOMAIN s : m <= Fetch}
         /\ \A m \in DOMAIN Window(s) : Window(s)[m] = s[m]
         /\ Len(Window(s)) = IF Len(s) < Fetch THEN Len(s) ELSE Fetch
<1>1. Fetch \in Nat
  BY FusionAssumption DEF Fetch
<1>2. /\ Window(s) \in Seq(S)
      /\ Len(Window(s)) = IF Len(s) < Fetch THEN Len(s) ELSE Fetch
      /\ \A k \in 1 .. Len(Window(s)) : k \in 1 .. Len(s)
           /\ Window(s)[k] = s[k]
  BY <1>1, FirstOfIs DEF Window
<1>3. /\ DOMAIN Window(s) = 1 .. Len(Window(s))
      /\ DOMAIN s = 1 .. Len(s) /\ Len(s) \in Nat
  BY <1>2, LenProperties
<1>4. 1 .. Len(Window(s)) = {m \in 1 .. Len(s) : m <= Fetch}
  BY <1>1, <1>2, <1>3
<1> QED
  BY <1>2, <1>3, <1>4

(* A window hydrated for K loses nothing of the first TopK, if no more than*)
(* Multiplier - 1 times TopK of it are missing.                            *)
THEOREM WindowSuffices ==
  ASSUME NEW S, NEW s \in Seq(S), Distinct(s), NEW K,
         Cardinality(Missing(Window(s), K)) <= (Multiplier - 1) * TopK
  PROVE  FirstOf(At(Window(s), PlacesIn(Window(s), K)), TopK) = InProcess(s, K)
<1> DEFINE w == Window(s)
           P == PlacesIn(s, K)
           W == PlacesIn(w, K)
<1>0. /\ TopK \in Nat /\ Multiplier \in Nat /\ Fetch = TopK * Multiplier
      /\ Fetch \in Nat
  BY FusionAssumption DEF Fetch
<1>1. /\ w \in Seq(S) /\ DOMAIN w = {m \in DOMAIN s : m <= Fetch}
      /\ \A m \in DOMAIN w : w[m] = s[m]
      /\ Len(w) = IF Len(s) < Fetch THEN Len(s) ELSE Fetch
  BY WindowIs
<1> HIDE DEF w
<1>2. \A m : m \in W <=> m \in P /\ m <= Fetch
  BY <1>1 DEF PlacesIn
<1>3. P \in SUBSET DOMAIN s /\ W \in SUBSET DOMAIN w /\ W \in SUBSET DOMAIN s
  BY <1>1 DEF PlacesIn
<1>4. Distinct(w)
  BY <1>1 DEF Distinct
<1>5. /\ Cardinality(W) \in Nat /\ Cardinality(Missing(w, K)) \in Nat
      /\ Cardinality(W) + Cardinality(Missing(w, K)) = Len(w)
  BY <1>1, <1>4, MissesCounted
<1>6. InProcess(s, K) = FirstOf(At(s, P), TopK)
  BY DEF InProcess, PlacesIn
<1>7. DOMAIN s = 1 .. Len(s) /\ Len(s) \in Nat
  BY LenProperties
<1> HIDE DEF P, W
<1>8. W = UpTo(P, Fetch)
  BY <1>2, SetExtensionality DEF UpTo
<1>9. W = P \/ Cardinality(W) >= TopK
  <2>1. CASE Len(s) < Fetch
    <3>1. \A m \in P : m <= Fetch
      BY <1>0, <1>3, <1>7, <2>1
    <3>2. \A m : m \in W <=> m \in P
      BY <1>2, <3>1
    <3> QED
      BY <3>2, SetExtensionality
  <2>2. CASE ~(Len(s) < Fetch)
    <3>1. Cardinality(Missing(w, K)) <= (Multiplier - 1) * TopK
      BY DEF w
    <3>2. (Multiplier - 1) * TopK = TopK * Multiplier - TopK
      BY <1>0
    <3>3. TopK * Multiplier \in Int
      BY <1>0
    <3> QED
      BY <1>0, <1>1, <1>5, <2>2, <3>1, <3>2, <3>3
  <2> QED
    BY <2>1, <2>2
<1>10. Foremost(P, TopK) = Foremost(W, TopK)
  <2>1. IsFiniteSet(P) /\ P \subseteq Int
    BY <1>3, AtOfSeq
  <2>2. Fetch \in Int
          /\ (UpTo(P, Fetch) = P \/ Cardinality(UpTo(P, Fetch)) >= TopK)
    BY <1>0, <1>8, <1>9
  <2>3. Foremost(P, TopK) = Foremost(UpTo(P, Fetch), TopK)
    BY <1>0, <2>1, <2>2, PrefixSuffices
  <2> QED
    BY <1>8, <2>3
<1>11. FirstOf(At(s, P), TopK) = At(s, Foremost(P, TopK))
  BY <1>0, <1>3, FirstOfAt
<1>12. FirstOf(At(w, W), TopK) = At(w, Foremost(W, TopK))
  BY <1>0, <1>1, <1>3, FirstOfAt
<1>13. At(w, Foremost(W, TopK)) = At(s, Foremost(W, TopK))
  <2> DEFINE V == Foremost(W, TopK)
  <2>1. V \in SUBSET DOMAIN w
    BY <1>3 DEF Foremost
  <2> HIDE DEF V
  <2>2. IsFiniteSet(V) /\ V \subseteq Int /\ \A p \in V : w[p] = s[p]
    BY <1>1, <2>1, AtOfSeq
  <2>3. At(w, V) = At(s, V)
    BY <2>2, AtSame
  <2> QED
    BY <2>3 DEF V
<1>14. FirstOf(At(w, W), TopK) = InProcess(s, K)
  BY <1>6, <1>10, <1>11, <1>12, <1>13
<1> QED
  BY <1>14 DEF w, W

-----------------------------------------------------------------------------
(* The invariant.                                                          *)

Shaped(j) ==
  j = [req |-> j.req, task |-> j.task, at |-> j.at, todo |-> j.todo,
       doc |-> j.doc, chunks |-> j.chunks, then |-> j.then, out |-> j.out]

JobsShaped ==
  /\ job = [t \in Actor |-> job[t]]
  /\ \A t \in Actor : Shaped(job[t])

(* Where a thread is that has not come to its task yet.                    *)
Entry == {"ensure", "lock", "load", "flag", "client"}

(* Who is loading holds the lock, and the flag, the client and the count   *)
(* of loads go together whenever nobody is.                                *)
LoadInv ==
  /\ \A t \in Actor :
       /\ job[t].at \in Entry => t \in Thread
       /\ job[t].at \in {"load", "flag"} <=> initLock = t
       /\ job[t].at = "load" => ~rrfFlag /\ client = "none" /\ loads = 0
       /\ job[t].at = "flag" => ~rrfFlag /\ client = "configured" /\ loads = 1
       /\ job[t].at = "client" => rrfFlag
       /\ t \in Thread /\ job[t].at = "run" => rrfFlag
  /\ initLock = None \/ initLock \in Actor
  /\ initLock = None /\ ~rrfFlag => client = "none" /\ loads = 0
  /\ rrfFlag => client = "configured" /\ loads = 1

(* A document about to be cached is the one the index answered with.       *)
HeldFor(t) ==
  \/ job[t].at = "docput"
  \/ job[t].at \in {"chunkget", "chunkput"} /\ job[t].then = "docput"
  => job[t].doc = DocOf(Wanted(t))

HeldInv == \A t \in Actor : HeldFor(t)

IInv == TypeOK /\ JobsShaped /\ LoadInv /\ HeldInv /\ EntriesTruthful

-----------------------------------------------------------------------------
(* Steps of a thread that leave the client and its lock alone.             *)

Elsewhere(t) ==
  /\ job' = [job EXCEPT ![t] = job'[t]]
  /\ Shaped(job'[t])
  /\ job[t].at \notin {"load", "flag"}
  /\ job'[t].at \in Places \ (Entry \cup {"run"})
  /\ job'[t].then \in {"docput", "sample", "use"}
  /\ HeldFor(t)'

(* What Go makes of a job.                                                 *)
Sent(j, at, todo, doc, out) ==
  [j EXCEPT !.todo = todo, !.out = out, !.chunks = <<>>, !.then = "use",
            !.doc = doc, !.at = at]

LEMMA SentShape ==
  \A j, at, todo, doc, out :
    Shaped(j) => /\ Shaped(Sent(j, at, todo, doc, out))
                 /\ Sent(j, at, todo, doc, out).req = j.req
                 /\ Sent(j, at, todo, doc, out).task = j.task
                 /\ Sent(j, at, todo, doc, out).at = at
                 /\ Sent(j, at, todo, doc, out).todo = todo
                 /\ Sent(j, at, todo, doc, out).doc = doc
                 /\ Sent(j, at, todo, doc, out).chunks = <<>>
                 /\ Sent(j, at, todo, doc, out).then = "use"
                 /\ Sent(j, at, todo, doc, out).out = out
<1> TAKE j, at, todo, doc, out
<1> HAVE Shaped(j)
<1> DEFINE k == [req |-> j.req, task |-> j.task, at |-> at, todo |-> todo,
                 doc |-> doc, chunks |-> <<>>, then |-> "use", out |-> out]
<1>1. ASSUME NEW n, n = Sent(j, at, todo, doc, out) PROVE n = k
  BY <1>1 DEF Shaped, Sent
<1>2. /\ Shaped(k)
      /\ k.req = j.req /\ k.task = j.task /\ k.at = at /\ k.todo = todo
      /\ k.doc = doc /\ k.chunks = <<>> /\ k.then = "use" /\ k.out = out
  BY DEF Shaped
<1> QED
  BY <1>1, <1>2

LEMMA GoShape ==
  ASSUME JobsShaped, NEW t \in Actor, NEW out, NEW todo, Go(t, out, todo),
         job[t].at \notin {"load", "flag"}
  PROVE  Elsewhere(t)
<1>0. PICK at \in {"finish", "chunkget", "docget"} : \E doc :
        job' = [job EXCEPT ![t] = Sent(job[t], at, todo, doc, out)]
  BY DEF Go, Sent
<1>1. PICK doc :
        job' = [job EXCEPT ![t] = Sent(job[t], at, todo, doc, out)]
  BY <1>0
<1>2. job'[t] = Sent(job[t], at, todo, doc, out)
  BY <1>1 DEF JobsShaped
<1>3. Shaped(job[t])
  BY DEF JobsShaped
<1>4. Shaped(job'[t]) /\ job'[t].at = at /\ job'[t].then = "use"
  BY <1>2, <1>3, SentShape
<1>5. job' = [job EXCEPT ![t] = job'[t]]
  BY <1>1, <1>2
<1> QED
  BY <1>4, <1>5 DEF Elsewhere, Places, Entry, HeldFor

LEMMA IdleShape ==
  ASSUME JobsShaped, NEW t \in Actor, job' = [job EXCEPT ![t] = Idle]
  PROVE  /\ job' = [job EXCEPT ![t] = job'[t]]
         /\ Shaped(job'[t])
         /\ job'[t].at = "idle" /\ job'[t].then = "use"
  BY DEF JobsShaped, Idle, Shaped

LEMMA GotoShape ==
  ASSUME JobsShaped, NEW t \in Actor, NEW place, Goto(t, place)
  PROVE  /\ job' = [job EXCEPT ![t] = job'[t]]
         /\ Shaped(job'[t])
         /\ job'[t].at = place /\ job'[t].then = job[t].then
         /\ job'[t].todo = job[t].todo /\ job'[t].doc = job[t].doc
         /\ job'[t].task = job[t].task
<1>1. Shaped(job[t])
  BY DEF JobsShaped
<1>2. job'[t] = [job[t] EXCEPT !.at = place]
  BY DEF JobsShaped, Goto
<1>3. job' = [job EXCEPT ![t] = job'[t]]
  BY <1>2 DEF JobsShaped, Goto
<1> QED
  BY <1>1, <1>2, <1>3 DEF Shaped
(* What Found, Random and DocGet, when its cache has nothing, make of one. *)
Looking(j, at, doc, then) ==
  [j EXCEPT !.doc = doc, !.then = then, !.at = at]

LEMMA LookingShape ==
  \A j, at, doc, then :
    Shaped(j) => /\ Shaped(Looking(j, at, doc, then))
                 /\ Looking(j, at, doc, then).at = at
                 /\ Looking(j, at, doc, then).then = then
                 /\ Looking(j, at, doc, then).doc = doc
                 /\ Looking(j, at, doc, then).todo = j.todo
                 /\ Looking(j, at, doc, then).req = j.req
                 /\ Looking(j, at, doc, then).task = j.task
                 /\ Looking(j, at, doc, then).chunks = j.chunks
                 /\ Looking(j, at, doc, then).out = j.out
<1> TAKE j, at, doc, then
<1> HAVE Shaped(j)
<1> DEFINE k == [req |-> j.req, task |-> j.task, at |-> at, todo |-> j.todo,
                 doc |-> doc, chunks |-> j.chunks, then |-> then,
                 out |-> j.out]
<1>1. ASSUME NEW n, n = Looking(j, at, doc, then) PROVE n = k
  BY <1>1 DEF Shaped, Looking
<1>2. /\ Shaped(k)
      /\ k.at = at /\ k.then = then /\ k.doc = doc /\ k.todo = j.todo
      /\ k.req = j.req /\ k.task = j.task /\ k.chunks = j.chunks
      /\ k.out = j.out
  BY DEF Shaped
<1> QED
  BY <1>1, <1>2

LEMMA FoundShape ==
  ASSUME JobsShaped, NEW t \in Actor, NEW d, Found(t, d),
         job[t].at \notin {"load", "flag"}
  PROVE  Elsewhere(t)
<1>1. PICK at \in {"use", "chunkget"} :
        job' = [job EXCEPT ![t] = Looking(job[t], at, d, "use")]
  BY DEF Found, Looking
<1>2. job'[t] = Looking(job[t], at, d, "use")
  BY <1>1 DEF JobsShaped
<1>3. Shaped(job[t])
  BY DEF JobsShaped
<1>4. Shaped(job'[t]) /\ job'[t].at = at /\ job'[t].then = "use"
  BY <1>2, <1>3, LookingShape
<1>5. job' = [job EXCEPT ![t] = job'[t]]
  BY <1>1, <1>2
<1> QED
  BY <1>4, <1>5 DEF Elsewhere, Places, Entry, HeldFor

LEMMA ChunksShape ==
  ASSUME JobsShaped, NEW t \in Actor, NEW chunks, GotChunks(t, chunks),
         job[t].at \in {"chunkget", "chunkput"},
         job[t].then \in {"docput", "sample", "use"}, HeldFor(t)
  PROVE  Elsewhere(t)
<1>1. Shaped(job[t])
  BY DEF JobsShaped
<1>2. job'[t] = [job[t] EXCEPT !.chunks = chunks, !.at = job[t].then]
  BY DEF JobsShaped, GotChunks
<1>3. job' = [job EXCEPT ![t] = job'[t]]
  BY <1>2 DEF JobsShaped, GotChunks
<1>4. /\ Shaped(job'[t])
      /\ job'[t].at = job[t].then /\ job'[t].then = job[t].then
      /\ job'[t].doc = job[t].doc /\ job'[t].todo = job[t].todo
  BY <1>1, <1>2 DEF Shaped
<1> QED
  BY <1>3, <1>4 DEF Elsewhere, Places, Entry, HeldFor, Wanted

-----------------------------------------------------------------------------
(* They keep the invariant of jobs, lock and client.                       *)

LEMMA JobChanges ==
  ASSUME JobsShaped, NEW t \in Actor, job' = [job EXCEPT ![t] = job'[t]],
         Shaped(job'[t])
  PROVE  /\ JobsShaped'
         /\ \A u \in Actor \ {t} : job'[u] = job[u]
<1>1. \A u \in Actor \ {t} : job'[u] = job[u]
  BY DEF JobsShaped
<1>2. job' = [u \in Actor |-> job'[u]]
  BY DEF JobsShaped
<1> QED
  BY <1>1, <1>2 DEF JobsShaped, Shaped

LEMMA ElsewhereKeeps ==
  ASSUME TypeOK, JobsShaped, LoadInv, HeldInv, NEW t \in Actor, Elsewhere(t),
         UNCHANGED <<rrfFlag, initLock, client, loads>>
  PROVE  /\ JobsShaped' /\ LoadInv' /\ HeldInv'
         /\ \A u \in Actor : /\ job'[u].at \in Places
                             /\ job'[u].then \in {"docput", "sample", "use"}
<1>1. JobsShaped' /\ \A u \in Actor \ {t} : job'[u] = job[u]
  BY JobChanges DEF Elsewhere
<1>2. HeldInv'
  BY <1>1 DEF HeldInv, HeldFor, Elsewhere, Wanted
<1>3. LoadInv'
  BY <1>1 DEF LoadInv, Elsewhere, Entry
<1> QED
  BY <1>1, <1>2, <1>3 DEF Elsewhere, TypeOK

-----------------------------------------------------------------------------
(* Steps that change nothing but the job and the request.                  *)

Quiet(t) == Elsewhere(t) /\ UNCHANGED <<kind, queue, initVars, caches>>

LEMMA IdleElsewhere ==
  ASSUME JobsShaped, NEW t \in Actor, job' = [job EXCEPT ![t] = Idle],
         job[t].at \notin {"load", "flag"}
  PROVE  Elsewhere(t)
  BY IdleShape DEF Elsewhere, Places, Entry, HeldFor

LEMMA RandomQuiet ==
  ASSUME JobsShaped, NEW t \in Actor, Random(t) PROVE Quiet(t)
<1>1. PICK d \in Doc :
        job' = [job EXCEPT ![t] = [@ EXCEPT !.at = "chunkget", !.doc = d,
                                            !.then = "sample"]]
  BY DEF Random
<1>2. job'[t] = [job[t] EXCEPT !.at = "chunkget", !.doc = d, !.then = "sample"]
  BY <1>1 DEF JobsShaped
<1>3. Shaped(job[t])
  BY DEF JobsShaped
<1>4. /\ Shaped(job'[t])
      /\ job'[t].at = "chunkget" /\ job'[t].then = "sample"
  BY <1>2, <1>3 DEF Shaped
<1>5. job' = [job EXCEPT ![t] = job'[t]]
  BY <1>1, <1>2
<1>6. job[t].at = "run"
  BY DEF Random, Running
<1> QED
  BY <1>4, <1>5, <1>6
  DEF Elsewhere, Places, Entry, HeldFor, Quiet, Random, reqVars

LEMMA RunQuiet ==
  ASSUME JobsShaped, NEW t \in Actor,
         \/ TextCandidates(t) \/ VecCandidates(t) \/ EmbedFails(t)
         \/ Hydrate(t) \/ VectorSearch(t) \/ KeywordSearch(t)
         \/ TitleSearch(t) \/ Open(t)
  PROVE  Quiet(t)
<1>1. job[t].at = "run"
  BY DEF TextCandidates, VecCandidates, EmbedFails, Hydrate, VectorSearch,
         KeywordSearch, TitleSearch, Open, Running
<1>2. CASE TextCandidates(t) \/ VecCandidates(t) \/ EmbedFails(t)
  <2>1. job' = [job EXCEPT ![t] = Idle]
    BY <1>2 DEF TextCandidates, VecCandidates, EmbedFails, Raise
  <2>2. UNCHANGED <<kind, queue, initVars, caches>>
    BY <1>2 DEF TextCandidates, VecCandidates, EmbedFails, Raise
  <2> QED
    BY <1>1, <2>1, <2>2, IdleElsewhere DEF Quiet
<1>3. CASE Hydrate(t) \/ VectorSearch(t) \/ KeywordSearch(t)
           \/ TitleSearch(t) \/ Open(t)
  <2>1. \E out, todo : Go(t, out, todo)
    BY <1>3 DEF Hydrate, VectorSearch, KeywordSearch, TitleSearch, Open
  <2>2. UNCHANGED <<kind, queue, initVars, caches>>
    BY <1>3 DEF Hydrate, VectorSearch, KeywordSearch, TitleSearch, Open,
                reqVars
  <2>3. PICK out, todo : Go(t, out, todo)
    BY <2>1
  <2>4. Elsewhere(t)
    BY <1>1, <2>3, GoShape
  <2> QED
    BY <2>2, <2>4 DEF Quiet
<1> QED
  BY <1>2, <1>3

LEMMA UseQuiet ==
  ASSUME JobsShaped, NEW t \in Actor,
         \/ Sample(t) \/ UseLine(t) \/ ByTitle(t) \/ WholePage(t)
         \/ Opened(t) \/ Finish(t)
  PROVE  Quiet(t)
<1>1. job[t].at \in {"sample", "use", "finish"}
  BY DEF Sample, UseLine, ByTitle, WholePage, Opened, Finish
<1>2. CASE Opened(t) \/ Finish(t)
  <2>1. job' = [job EXCEPT ![t] = Idle]
    BY <1>2 DEF Opened, Finish, Answer
  <2>2. UNCHANGED <<kind, queue, initVars, caches>>
    BY <1>2 DEF Opened, Finish, Answer
  <2> QED
    BY <1>1, <2>1, <2>2, IdleElsewhere DEF Quiet
<1>3. CASE Sample(t) \/ UseLine(t) \/ ByTitle(t) \/ WholePage(t)
  <2>1. \E out, todo : Go(t, out, todo)
    BY <1>3 DEF Sample, UseLine, ByTitle, WholePage
  <2>2. UNCHANGED <<kind, queue, initVars, caches>>
    BY <1>3 DEF Sample, UseLine, ByTitle, WholePage, reqVars
  <2>3. PICK out, todo : Go(t, out, todo)
    BY <2>1
  <2>4. Elsewhere(t)
    BY <1>1, <2>3, GoShape
  <2> QED
    BY <2>2, <2>4 DEF Quiet
<1> QED
  BY <1>2, <1>3

LEMMA DocGetQuiet ==
  ASSUME JobsShaped, NEW t \in Actor, DocGet(t) PROVE Quiet(t)
<1> DEFINE cached == docCache[ProcessOf(t)][Wanted(t)]
<1>1. job[t].at = "docget" /\ UNCHANGED <<kind, queue, initVars, caches>>
  BY DEF DocGet, reqVars
<1>2. CASE cached # Absent
  <2>1. Found(t, cached)
    BY <1>2 DEF DocGet
  <2>2. Elsewhere(t)
    BY <1>1, <2>1, FoundShape
  <2> QED
    BY <1>1, <2>2 DEF Quiet
<1>3. CASE cached = Absent
  <2>1. PICK at \in {"chunkget", "docput"} :
          job' = [job EXCEPT ![t] =
                    Looking(job[t], at, DocOf(Wanted(t)), "docput")]
    <3> DEFINE at == IF Wanted(t) \in Doc THEN "chunkget" ELSE "docput"
               d == DocOf(Wanted(t))
    <3>1. job' = [job EXCEPT ![t].doc = d, ![t].at = at, ![t].then = "docput"]
      BY <1>3 DEF DocGet
    <3> HIDE DEF d
    <3>2. job' = [job EXCEPT ![t] =
                    [job[t] EXCEPT !.doc = d, !.at = at, !.then = "docput"]]
      BY <3>1 DEF JobsShaped
    <3>3. Shaped(job[t])
      BY DEF JobsShaped
    <3>4. [job[t] EXCEPT !.doc = d, !.at = at, !.then = "docput"]
            = Looking(job[t], at, d, "docput")
      BY <3>3 DEF Shaped, Looking
    <3> QED
      BY <3>2, <3>4 DEF d
  <2>2. job'[t] = Looking(job[t], at, DocOf(Wanted(t)), "docput")
    BY <2>1 DEF JobsShaped
  <2>3. Shaped(job[t])
    BY DEF JobsShaped
  <2>4. /\ Shaped(job'[t])
        /\ job'[t].at = at /\ job'[t].then = "docput"
        /\ job'[t].doc = DocOf(Wanted(t)) /\ job'[t].todo = job[t].todo
    BY <2>2, <2>3, LookingShape
  <2>5. job' = [job EXCEPT ![t] = job'[t]]
    BY <2>1, <2>2
  <2> QED
    BY <1>1, <2>4, <2>5
    DEF Quiet, Elsewhere, Places, Entry, HeldFor, Wanted, DocOf
<1> QED
  BY <1>2, <1>3

LEMMA ChunkGetQuiet ==
  ASSUME TypeOK, JobsShaped, HeldInv, NEW t \in Actor, ChunkGet(t)
  PROVE  Quiet(t)
<1> DEFINE cached == chunkCache[ProcessOf(t)][job[t].doc]
<1>1. job[t].at = "chunkget" /\ UNCHANGED <<kind, queue, initVars, caches>>
  BY DEF ChunkGet, reqVars
<1>2. CASE cached # Absent
  <2>1. GotChunks(t, cached)
    BY <1>2 DEF ChunkGet
  <2>2. Elsewhere(t)
    BY <1>1, <2>1, ChunksShape DEF TypeOK, HeldInv
  <2> QED
    BY <1>1, <2>2 DEF Quiet
<1>3. CASE cached = Absent
  <2>1. Goto(t, "chunkput")
    BY <1>3 DEF ChunkGet
  <2>2. Elsewhere(t)
    BY <1>1, <2>1, GotoShape
    DEF Elsewhere, Places, Entry, HeldInv, HeldFor, Wanted, TypeOK
  <2> QED
    BY <1>1, <2>2 DEF Quiet
<1> QED
  BY <1>2, <1>3

(* An unchanged cache keeps its entries.                                   *)
LEMMA QuietKeeps ==
  ASSUME IInv, NEW t \in Actor, Quiet(t) PROVE IInv'
<1>1. /\ JobsShaped' /\ LoadInv' /\ HeldInv'
      /\ \A u \in Actor : /\ job'[u].at \in Places
                          /\ job'[u].then \in {"docput", "sample", "use"}
  BY ElsewhereKeeps DEF IInv, Quiet, initVars
<1>2. TypeOK'
  BY <1>1 DEF IInv, TypeOK, Quiet, initVars, caches
<1>3. EntriesTruthful'
  BY DEF IInv, EntriesTruthful, Quiet, caches
<1> QED
  BY <1>1, <1>2, <1>3 DEF IInv

-----------------------------------------------------------------------------
(* Steps that fill a cache.                                                *)

Cache(K, V) == [K -> V \cup {Absent}]

(* What an entry of a cache after a put can be.                            *)
LEMMA PutEntries ==
  \A K, V, k, v : \A cache \in Cache(K, V) : \A c \in Put(cache, k, v) :
    (k \in K => v \in V)
    => /\ c \in Cache(K, V)
       /\ \A l \in K : c[l] \in {cache[l], Absent} \/ (l = k /\ c[l] = v)
<1> TAKE K, V, k, v
<1> TAKE cache \in Cache(K, V)
<1> TAKE c \in Put(cache, k, v)
<1> HAVE k \in K => v \in V
<1> DEFINE put == [cache EXCEPT ![k] = v]
<1>1. /\ put \in Cache(K, V)
      /\ \A l \in K : put[l] = cache[l] \/ (l = k /\ put[l] = v)
  BY DEF Cache
<1>2. c = put \/ \E l \in K : c = [put EXCEPT ![l] = Absent]
  BY DEF Put, Cache
<1> HIDE DEF put
<1> QED
  BY <1>1, <1>2 DEF Cache

LEMMA ProcessTyped == ASSUME NEW t \in Actor PROVE ProcessOf(t) \in Process
  BY DEF ProcessOf, Process

LEMMA DocPutKeeps ==
  ASSUME IInv, NEW t \in Actor, DocPut(t) PROVE IInv'
<1> DEFINE p == ProcessOf(t)
           d == job[t].doc
           k == IF d = None THEN Wanted(t) ELSE d
           D == Doc \cup {None}
<1>1. job[t].at = "docput" /\ d = DocOf(Wanted(t))
  BY DEF DocPut, IInv, HeldInv, HeldFor
<1>2. d \in D /\ DocOf(k) = d
  BY <1>1, SearchAssumption DEF DocOf, Key
<1>3. PICK c \in Put(docCache[p], k, d) :
        docCache' = [docCache EXCEPT ![p] = c]
  BY DEF DocPut
<1>4. p \in Process
  BY ProcessTyped
<1>5. docCache \in [Process -> Cache(Key, D)]
  BY DEF IInv, TypeOK, Cache
<1>6. docCache[p] \in Cache(Key, D)
  BY <1>4, <1>5
<1> HIDE DEF p, d, k, D
<1>7. /\ c \in Cache(Key, D)
      /\ \A l \in Key : c[l] \in {docCache[p][l], Absent} \/ (l = k
           /\ c[l] = d)
  BY <1>2, <1>3, <1>6, PutEntries
<1>8. /\ docCache' \in [Process -> Cache(Key, D)]
      /\ docCache'[p] = c
      /\ \A q \in Process \ {p} : docCache'[q] = docCache[q]
  BY <1>3, <1>4, <1>5, <1>7
<1>9. EntriesTruthful'
  <2>1. \A q \in Process : \A l \in Key :
          docCache'[q][l] \in {Absent, DocOf(l)}
    BY <1>2, <1>7, <1>8 DEF IInv, EntriesTruthful
  <2> QED
    BY <2>1 DEF DocPut, IInv, EntriesTruthful
<1>10. Elsewhere(t)
  BY <1>1, FoundShape DEF DocPut, IInv
<1>11. UNCHANGED <<kind, queue, initVars, chunkCache>>
  BY DEF DocPut, reqVars
<1>12. /\ JobsShaped' /\ LoadInv' /\ HeldInv'
       /\ \A u \in Actor : /\ job'[u].at \in Places
                           /\ job'[u].then \in {"docput", "sample", "use"}
  BY <1>10, <1>11, ElsewhereKeeps DEF IInv, initVars
<1>13. TypeOK'
  BY <1>8, <1>11, <1>12 DEF IInv, TypeOK, initVars, Cache, D
<1> QED
  BY <1>9, <1>12, <1>13 DEF IInv

LEMMA ChunkPutKeeps ==
  ASSUME IInv, NEW t \in Actor, ChunkPut(t) PROVE IInv'
<1> DEFINE p == ProcessOf(t)
           d == job[t].doc
           C == Seq(Nat)
<1>1. PICK c \in Put(chunkCache[p], d, Chunks[d]) :
        chunkCache' = [chunkCache EXCEPT ![p] = c]
  BY DEF ChunkPut
<1>2. p \in Process
  BY ProcessTyped
<1>3. chunkCache \in [Process -> Cache(Doc, C)]
  BY DEF IInv, TypeOK, Cache
<1>4. chunkCache[p] \in Cache(Doc, C)
  BY <1>2, <1>3
<1>5. d \in Doc => Chunks[d] \in C
  BY SearchAssumption
<1> HIDE DEF p, d, C
<1>6. /\ c \in Cache(Doc, C)
      /\ \A l \in Doc :
           c[l] \in {chunkCache[p][l], Absent} \/ (l = d /\ c[l] = Chunks[d])
  BY <1>1, <1>4, <1>5, PutEntries
<1>7. /\ chunkCache' \in [Process -> Cache(Doc, C)]
      /\ chunkCache'[p] = c
      /\ \A q \in Process \ {p} : chunkCache'[q] = chunkCache[q]
  BY <1>1, <1>2, <1>3, <1>6
<1>8. EntriesTruthful'
  <2>1. \A q \in Process : \A l \in Doc :
          chunkCache'[q][l] \in {Absent, Chunks[l]}
    BY <1>6, <1>7 DEF IInv, EntriesTruthful
  <2> QED
    BY <2>1 DEF ChunkPut, IInv, EntriesTruthful
<1>9. Elsewhere(t)
  BY ChunksShape DEF ChunkPut, IInv, HeldInv, TypeOK
<1>10. UNCHANGED <<kind, queue, initVars, docCache>>
  BY DEF ChunkPut, reqVars
<1>11. /\ JobsShaped' /\ LoadInv' /\ HeldInv'
       /\ \A u \in Actor : /\ job'[u].at \in Places
                           /\ job'[u].then \in {"docput", "sample", "use"}
  BY <1>9, <1>10, ElsewhereKeeps DEF IInv, initVars
<1>12. TypeOK'
  BY <1>7, <1>10, <1>11 DEF IInv, TypeOK, initVars, Cache, C
<1> QED
  BY <1>8, <1>11, <1>12 DEF IInv

-----------------------------------------------------------------------------
(* Steps on the way to a task: the lock, the flag and the client.          *)

(* What of the invariant such a step need not look at: it leaves the caches*)
(* alone, and no thread on this way holds a document.                      *)
LEMMA EntryKeeps ==
  ASSUME IInv, NEW t \in Actor, job' = [job EXCEPT ![t] = job'[t]],
         Shaped(job'[t]), UNCHANGED caches,
         job'[t].at \in Entry \cup {"idle", "run"},
         job'[t].then \in {"docput", "sample", "use"}
  PROVE  /\ JobsShaped' /\ HeldInv' /\ EntriesTruthful'
         /\ \A u \in Actor \ {t} : job'[u] = job[u]
         /\ \A u \in Actor : /\ job'[u].at \in Places
                             /\ job'[u].then \in {"docput", "sample", "use"}
<1>1. JobsShaped' /\ \A u \in Actor \ {t} : job'[u] = job[u]
  BY JobChanges DEF IInv
<1>2. HeldInv'
  BY <1>1 DEF IInv, HeldInv, HeldFor, Wanted, Entry
<1>3. EntriesTruthful'
  BY DEF IInv, EntriesTruthful, caches
<1> QED
  BY <1>1, <1>2, <1>3 DEF IInv, TypeOK, Entry, Places

LEMMA EnsureKeeps == ASSUME IInv, NEW t \in Actor, Ensure(t) PROVE IInv'
<1> DEFINE at == IF rrfFlag THEN "client" ELSE "lock"
<1>1. JobsShaped /\ Goto(t, at)
  BY DEF IInv, Ensure
<1>2. /\ job' = [job EXCEPT ![t] = job'[t]] /\ Shaped(job'[t])
      /\ job'[t].at = at /\ job'[t].then = job[t].then
  BY <1>1, GotoShape
<1>3. /\ JobsShaped' /\ HeldInv' /\ EntriesTruthful'
      /\ \A u \in Actor \ {t} : job'[u] = job[u]
      /\ \A u \in Actor : /\ job'[u].at \in Places
                          /\ job'[u].then \in {"docput", "sample", "use"}
  BY <1>2, EntryKeeps DEF Ensure, IInv, TypeOK, Entry
<1>4. LoadInv'
  BY <1>2, <1>3 DEF Ensure, IInv, LoadInv, Entry, initVars
<1>5. TypeOK'
  BY <1>3 DEF Ensure, IInv, TypeOK, initVars, caches, reqVars
<1> QED
  BY <1>3, <1>4, <1>5 DEF IInv

LEMMA LockKeeps == ASSUME IInv, NEW t \in Actor, Lock(t) PROVE IInv'
<1> DEFINE at == IF rrfFlag THEN "client" ELSE "load"
<1>1. JobsShaped /\ Goto(t, at)
  BY DEF IInv, Lock
<1>2. /\ job' = [job EXCEPT ![t] = job'[t]] /\ Shaped(job'[t])
      /\ job'[t].at = at /\ job'[t].then = job[t].then
  BY <1>1, GotoShape
<1>3. /\ JobsShaped' /\ HeldInv' /\ EntriesTruthful'
      /\ \A u \in Actor \ {t} : job'[u] = job[u]
      /\ \A u \in Actor : /\ job'[u].at \in Places
                          /\ job'[u].then \in {"docput", "sample", "use"}
  BY <1>2, EntryKeeps DEF Lock, IInv, TypeOK, Entry
<1>4. t \in Thread /\ t # None /\ initLock = None
  BY SearchAssumption DEF Lock, IInv, LoadInv, Entry
<1>5. LoadInv'
  <2>1. CASE rrfFlag
    BY <1>2, <1>3, <1>4, <2>1 DEF Lock, IInv, LoadInv, Entry
  <2>2. CASE ~rrfFlag
    <3>1. /\ initLock' = t /\ job'[t].at = "load"
          /\ UNCHANGED <<rrfFlag, client, loads>>
          /\ client = "none" /\ loads = 0
      BY <1>2, <1>4, <2>2 DEF Lock, IInv, LoadInv
    <3>2. \A u \in Actor : job[u].at \notin {"load", "flag"}
      BY <1>4, SearchAssumption DEF IInv, LoadInv
    <3> QED
      BY <1>3, <1>4, <2>2, <3>1, <3>2 DEF IInv, LoadInv, Entry
  <2> QED
    BY <2>1, <2>2
<1>6. TypeOK'
  BY <1>3, <1>4 DEF Lock, IInv, TypeOK, caches, reqVars
<1> QED
  BY <1>3, <1>5, <1>6 DEF IInv

LEMMA LoadKeeps == ASSUME IInv, NEW t \in Actor, Load(t) PROVE IInv'
<1>1. JobsShaped /\ Goto(t, "flag")
  BY DEF IInv, Load
<1>2. /\ job' = [job EXCEPT ![t] = job'[t]] /\ Shaped(job'[t])
      /\ job'[t].at = "flag" /\ job'[t].then = job[t].then
  BY <1>1, GotoShape
<1>3. /\ JobsShaped' /\ HeldInv' /\ EntriesTruthful'
      /\ \A u \in Actor \ {t} : job'[u] = job[u]
      /\ \A u \in Actor : /\ job'[u].at \in Places
                          /\ job'[u].then \in {"docput", "sample", "use"}
  BY <1>2, EntryKeeps DEF Load, IInv, TypeOK, Entry
<1>4. initLock = t /\ ~rrfFlag /\ loads = 0
  BY DEF Load, IInv, LoadInv
<1>5. LoadInv'
  BY <1>2, <1>3, <1>4, SearchAssumption DEF Load, IInv, LoadInv, Entry
<1>6. TypeOK'
  BY <1>3, <1>4 DEF Load, IInv, TypeOK, caches, reqVars
<1> QED
  BY <1>3, <1>5, <1>6 DEF IInv

LEMMA LoadFailsKeeps == ASSUME IInv, NEW t \in Actor, LoadFails(t) PROVE IInv'
<1>1. JobsShaped /\ job' = [job EXCEPT ![t] = Idle]
  BY DEF IInv, LoadFails, Raise
<1>2. /\ job' = [job EXCEPT ![t] = job'[t]] /\ Shaped(job'[t])
      /\ job'[t].at = "idle" /\ job'[t].then = "use"
  BY <1>1, IdleShape
<1>3. /\ JobsShaped' /\ HeldInv' /\ EntriesTruthful'
      /\ \A u \in Actor \ {t} : job'[u] = job[u]
      /\ \A u \in Actor : /\ job'[u].at \in Places
                          /\ job'[u].then \in {"docput", "sample", "use"}
  BY <1>2, EntryKeeps DEF LoadFails, Raise, IInv, TypeOK, Entry
<1>4. initLock = t /\ initLock' = None /\ client = "none" /\ loads = 0
  BY DEF LoadFails, IInv, LoadInv
<1>5. LoadInv'
  BY <1>2, <1>3, <1>4, SearchAssumption DEF LoadFails, IInv, LoadInv, Entry
<1>6. TypeOK'
  <2>1. failures' \in 0 .. MaxFailures
    BY SearchAssumption DEF LoadFails, IInv, TypeOK
  <2> QED
    BY <1>3, <1>4, <2>1 DEF LoadFails, Raise, IInv, TypeOK, caches
<1> QED
  BY <1>3, <1>5, <1>6 DEF IInv

LEMMA SetFlagKeeps == ASSUME IInv, NEW t \in Actor, SetFlag(t) PROVE IInv'
<1>1. JobsShaped /\ Goto(t, "client")
  BY DEF IInv, SetFlag
<1>2. /\ job' = [job EXCEPT ![t] = job'[t]] /\ Shaped(job'[t])
      /\ job'[t].at = "client" /\ job'[t].then = job[t].then
  BY <1>1, GotoShape
<1>3. /\ JobsShaped' /\ HeldInv' /\ EntriesTruthful'
      /\ \A u \in Actor \ {t} : job'[u] = job[u]
      /\ \A u \in Actor : /\ job'[u].at \in Places
                          /\ job'[u].then \in {"docput", "sample", "use"}
  BY <1>2, EntryKeeps DEF SetFlag, IInv, TypeOK, Entry
<1>4. initLock = t /\ client = "configured" /\ loads = 1
  BY DEF SetFlag, IInv, LoadInv
<1>5. LoadInv'
  BY <1>2, <1>3, <1>4, SearchAssumption DEF SetFlag, IInv, LoadInv, Entry
<1>6. TypeOK'
  BY <1>3 DEF SetFlag, IInv, TypeOK, caches, reqVars
<1> QED
  BY <1>3, <1>5, <1>6 DEF IInv

LEMMA GetClientKeeps == ASSUME IInv, NEW t \in Actor, GetClient(t) PROVE IInv'
<1>1. JobsShaped /\ Goto(t, "run")
  BY DEF IInv, GetClient
<1>2. /\ job' = [job EXCEPT ![t] = job'[t]] /\ Shaped(job'[t])
      /\ job'[t].at = "run" /\ job'[t].then = job[t].then
  BY <1>1, GotoShape
<1>3. /\ JobsShaped' /\ HeldInv' /\ EntriesTruthful'
      /\ \A u \in Actor \ {t} : job'[u] = job[u]
      /\ \A u \in Actor : /\ job'[u].at \in Places
                          /\ job'[u].then \in {"docput", "sample", "use"}
  BY <1>2, EntryKeeps DEF GetClient, IInv, TypeOK, Entry
<1>4. rrfFlag /\ client = "configured" /\ UNCHANGED <<client, loads>>
  BY DEF GetClient, IInv, LoadInv
<1>5. LoadInv'
  BY <1>2, <1>3, <1>4 DEF GetClient, IInv, LoadInv, Entry
<1>6. TypeOK'
  BY <1>3, <1>4 DEF GetClient, IInv, TypeOK, caches, reqVars
<1> QED
  BY <1>3, <1>5, <1>6 DEF IInv

LEMMA TakeKeeps == ASSUME IInv, NEW t \in Actor, Take(t) PROVE IInv'
<1> DEFINE at == IF t \in Thread THEN "ensure" ELSE "run"
<1>1. PICK q \in queue :
        /\ queue' = queue \ {q}
        /\ job' = [job EXCEPT ![t] =
                      [Idle EXCEPT !.req = q[1], !.task = q[2], !.at = at]]
  BY DEF Take
<1>2. /\ job' = [job EXCEPT ![t] = job'[t]] /\ Shaped(job'[t])
      /\ job'[t].at = at /\ job'[t].then = "use"
  BY <1>1 DEF IInv, JobsShaped, Idle, Shaped
<1>3. /\ JobsShaped' /\ HeldInv' /\ EntriesTruthful'
      /\ \A u \in Actor \ {t} : job'[u] = job[u]
      /\ \A u \in Actor : /\ job'[u].at \in Places
                          /\ job'[u].then \in {"docput", "sample", "use"}
  BY <1>2, EntryKeeps DEF Take, IInv, Entry
<1>4. LoadInv'
  BY <1>2, <1>3 DEF Take, IInv, LoadInv, Entry, initVars
<1>5. TypeOK'
  BY <1>1, <1>3 DEF Take, IInv, TypeOK, initVars, caches, reqVars
<1> QED
  BY <1>3, <1>4, <1>5 DEF IInv

-----------------------------------------------------------------------------
(* The invariant is inductive.                                             *)

LEMMA InitInv == Init => IInv
<1> SUFFICES ASSUME Init PROVE IInv
  OBVIOUS
<1>1. \A t \in Actor : job[t] = Idle
  BY DEF Init
<1>2. JobsShaped
  BY DEF Init, JobsShaped, Idle, Shaped
<1>3. LoadInv
  BY <1>1, SearchAssumption DEF Init, LoadInv, Idle, Entry
<1>4. HeldInv
  BY <1>1 DEF HeldInv, HeldFor, Idle
<1>5. EntriesTruthful
  BY DEF Init, EntriesTruthful
<1>6. TypeOK
  <2>1. failures \in 0 .. MaxFailures
    BY SearchAssumption DEF Init
  <2> QED
    BY <1>1, <2>1 DEF Init, TypeOK, Idle, Places
<1> QED
  BY <1>2, <1>3, <1>4, <1>5, <1>6 DEF IInv

LEMMA ServerKeeps ==
  ASSUME IInv, NEW r \in Request, Submit(r) \/ Fuse(r) PROVE IInv'
<1>1. UNCHANGED <<job, initVars, caches>>
  BY DEF Submit, Fuse
<1>2. JobsShaped' /\ LoadInv' /\ HeldInv' /\ EntriesTruthful'
  BY <1>1 DEF IInv, JobsShaped, Shaped, LoadInv, HeldInv, HeldFor, Wanted,
              EntriesTruthful, initVars, caches
<1>3. /\ kind' \in [Request -> Kinds \cup {None}]
      /\ queue' \subseteq Request \X (ServerTasks \cup TextTasks)
  <2>1. CASE Submit(r)
    <3>1. PICK k \in Kinds :
            /\ kind' = [kind EXCEPT ![r] = k]
            /\ queue' = queue \cup (IF k = "rrf"
                                    THEN {<<r, "text">>, <<r, "vec">>}
                                    ELSE {<<r, k>>})
      BY <2>1 DEF Submit
    <3>2. k = "rrf" \/ k \in ServerTasks \cup TextTasks
      BY DEF Kinds, SearchKinds, ServerTasks, TextTasks
    <3> QED
      BY <3>1, <3>2 DEF IInv, TypeOK, ServerTasks, TextTasks
  <2>2. CASE Fuse(r)
    BY <2>2 DEF Fuse, IInv, TypeOK, TextTasks
  <2> QED
    BY <2>1, <2>2
<1>4. TypeOK'
  BY <1>1, <1>3 DEF IInv, TypeOK, initVars, caches
<1> QED
  BY <1>2, <1>4 DEF IInv

LEMMA NextInv == IInv /\ [Next]_vars => IInv'
<1> SUFFICES ASSUME IInv, [Next]_vars PROVE IInv'
  OBVIOUS
<1>1. CASE UNCHANGED vars
  BY <1>1 DEF vars, reqVars, initVars, caches, IInv, TypeOK, JobsShaped,
     Shaped,
              LoadInv, HeldInv, HeldFor, Wanted, EntriesTruthful
<1>2. CASE \E r \in Request : Submit(r) \/ Fuse(r)
  BY <1>2, ServerKeeps
<1>3. ASSUME NEW t \in Actor, Take(t) \/ Step(t) PROVE IInv'
  <2>1. CASE Take(t)
    BY <2>1, TakeKeeps
  <2>2. CASE \/ Ensure(t) \/ Lock(t) \/ Load(t) \/ LoadFails(t) \/ SetFlag(t)
             \/ GetClient(t)
    BY <2>2, EnsureKeeps, LockKeeps, LoadKeeps, LoadFailsKeeps, SetFlagKeeps,
       GetClientKeeps
  <2>3. CASE DocPut(t) \/ ChunkPut(t)
    BY <2>3, DocPutKeeps, ChunkPutKeeps
  <2>4. CASE \/ TextCandidates(t) \/ VecCandidates(t) \/ EmbedFails(t)
             \/ Hydrate(t) \/ VectorSearch(t) \/ KeywordSearch(t)
             \/ TitleSearch(t) \/ Open(t)
    BY <2>4, RunQuiet, QuietKeeps DEF IInv
  <2>5. CASE \/ Sample(t) \/ UseLine(t) \/ ByTitle(t) \/ WholePage(t)
             \/ Opened(t) \/ Finish(t)
    BY <2>5, UseQuiet, QuietKeeps DEF IInv
  <2>6. CASE Random(t) \/ DocGet(t) \/ ChunkGet(t)
    BY <2>6, RandomQuiet, DocGetQuiet, ChunkGetQuiet, QuietKeeps DEF IInv
  <2> QED
    BY <1>3, <2>1, <2>2, <2>3, <2>4, <2>5, <2>6 DEF Step
<1> QED
  BY <1>1, <1>2, <1>3 DEF Next

LEMMA Inductive == Spec => []IInv
<1> QED
  BY InitInv, NextInv, PTL DEF Spec

-----------------------------------------------------------------------------
(* Theorems                                                                *)

(* Every variable of the search server stays in its set.                   *)
THEOREM TypeCorrect == Spec => []TypeOK
<1>1. IInv => TypeOK
  BY DEF IInv
<1> QED
  BY <1>1, Inductive, PTL

(* Every entry of every cache (LRUCache) is what the index answers for its *)
(* key, for any number of threads, whatever is evicted.                    *)
THEOREM CachesHoldTheIndex == Spec => []EntriesTruthful
<1>1. IInv => EntriesTruthful
  BY DEF IInv
<1> QED
  BY <1>1, Inductive, PTL

(* No thread searches another client than the configured one, however many *)
(* loads fail first (ensure_rrf_inited, get_client).                       *)
THEOREM OnlyTheConfiguredClient == Spec => []ConfiguredClient
<1>1. IInv => ConfiguredClient
  <2> SUFFICES ASSUME IInv PROVE ConfiguredClient
    OBVIOUS
  <2>1. Thread \subseteq Actor
    BY DEF Actor
  <2>2. client # "default"
    <3>1. CASE initLock = None
      BY <3>1 DEF IInv, LoadInv
    <3>2. CASE initLock \in Actor
      BY <3>2 DEF IInv, LoadInv
    <3> QED
      BY <3>1, <3>2 DEF IInv, LoadInv
  <2> QED
    BY <2>1, <2>2 DEF IInv, LoadInv, ConfiguredClient
<1> QED
  BY <1>1, Inductive, PTL

(* However many threads find the client missing, one loads it, once.       *)
THEOREM TheClientIsLoadedOnce == Spec => []LoadedOnce
<1>1. IInv => LoadedOnce
  <2> SUFFICES ASSUME IInv PROVE LoadedOnce
    OBVIOUS
  <2>1. CASE initLock = None
    BY <2>1 DEF IInv, LoadInv, LoadedOnce
  <2>2. CASE initLock \in Actor
    BY <2>2 DEF IInv, LoadInv, LoadedOnce
  <2> QED
    BY <2>1, <2>2 DEF IInv, LoadInv
<1> QED
  BY <1>1, Inductive, PTL

-----------------------------------------------------------------------------
(* Requests, tasks and what threads carry.                                 *)

(* What an index may list, and what may be looked up for a title.          *)
Hits == Key \X Nat
GoodHits == {c \in Doc \X Nat : Whole(c[1]) => c \in InIndex}

(* What the ids are of that a task looks up.                               *)
Stock(task) ==
  CASE task \in {"hydrate", "vector"} -> Hits
    [] task = "keywords" -> GoodHits
    [] task = "title" -> Doc \X {0}
    [] OTHER -> Key \X Int

(* Where a thread is before it looks up anything.                          *)
Before == {"idle", "ensure", "lock", "load", "flag", "client", "run"}

(* A document has been asked for, or is about to be.                       *)
OnWay(j) ==
  \/ j.at \in {"docget", "docput", "use"}
  \/ j.at \in {"chunkget", "chunkput"} /\ j.then # "sample"

(* What is left to look up, the document and the chunks in hand fit the    *)
(* task and the place in the code.                                         *)
Carries(t) ==
  LET j == job[t]
  IN  /\ j.todo \in Seq(Stock(j.task))
      /\ j.at \in Before =>
           j.todo = <<>> /\ j.chunks = <<>> /\ j.out = <<>> /\ j.then = "use"
      /\ j.task \in {"text", "vec"} => j.at \in Before
      /\ j.task = "title" => j.at \notin {"docget", "docput"} /\ j.then = "use"
      /\ j.at = "sample" \/ j.then = "sample" => j.task = "random"
      /\ OnWay(j) => /\ j.todo # <<>>
                     /\ j.at = "docget" \/ j.doc = DocOf(Wanted(t))
      /\ j.at \in {"chunkget", "chunkput", "sample"} => j.doc \in Doc
      /\ j.chunks # <<>> => j.doc \in Doc /\ j.chunks = Chunks[j.doc]
      /\ j.at \in {"docget", "finish"} => j.chunks = <<>>
      /\ j.at = "sample" => j.chunks # <<>>
      /\ j.at = "finish" => j.task \notin {"open", "random"}
      /\ j.at = "use" /\ j.doc # None /\ j.task # "keywords"
           /\ j.todo[1][2] # Page
           => j.chunks # <<>>

(* Every request has its entries, and a ranking lists no id twice.         *)
ReqsShaped ==
  /\ DOMAIN arg = Request /\ DOMAIN result = Request
  /\ DOMAIN text = Request /\ DOMAIN vec = Request /\ DOMAIN ranked = Request

RankedInv ==
  \A r \in Request :
    /\ text[r] \in Seq(Hits) \cup {None}
    /\ vec[r] \in Seq(Hits) \cup {None}
    /\ ranked[r] # None => ranked[r] \in Seq(Hits) /\ Distinct(ranked[r])

TasksOf(k) == IF k = "rrf" THEN {"text", "vec", "hydrate"} ELSE {k}

Alive(t) == job[t].at # "idle"

(* A task is one of its request's, which has no answer yet (one half of an *)
(* rrf search may fail before the other).                                  *)
Pending(r, task) ==
  /\ r \in Request
  /\ kind[r] \in Kinds
  /\ task \in TasksOf(kind[r])
  /\ task = "hydrate" => ranked[r] # None
  /\ kind[r] # "rrf" => result[r] = None

TaskOf(t) == <<job[t].req, job[t].task>>

(* Every task is in the queue or with one thread.                          *)
TasksInv ==
  /\ \A r \in Request : /\ kind[r] = None => result[r] = None
                             /\ ranked[r] = None
                        /\ kind[r] = "open" => arg[r] \in Links
  /\ \A q \in queue : Pending(q[1], q[2])
  /\ \A t \in Actor : Alive(t) =>
       Pending(job[t].req, job[t].task) /\ TaskOf(t) \notin queue
  /\ \A t, u \in Actor : Alive(t) /\ Alive(u) /\ TaskOf(t) = TaskOf(u) => t = u

(* LinksOpen for one line.                                                 *)
GoodLine(r, line) ==
  LET d == line.hit[1]
      leads == arg[r] = "wikiid" \/ LeadsTo(Title[d]) = d
  IN  Whole(d) => /\ line.shown = line.hit
                  /\ leads => Opens(line.link) = line.hit

GoodLines(r) ==
  {l \in [hit : Doc \X Nat, link : Key \X Nat, shown : Doc \X Nat] :
    GoodLine(r, l)}

(* The lines a thread has so far are good ones.                            *)
OutInv(t) == job[t].out \in Seq(GoodLines(job[t].req))

(* An opening looks for the document its link leads to and for the part of *)
(* it the link names.                                                      *)
OpenWalk(t) ==
  LET link == arg[job[t].req]
      id == Wanted(t)
      n == job[t].todo[1][2]
  IN  job[t].task = "open" /\ OnWay(job[t]) =>
        /\ LeadsTo(id) = LeadsTo(link[1])
        /\ n = Body => id \in Doc /\ link[2] <= 0
        /\ n = Page => link[2] <= 0
        /\ n \notin {Page, Body} => link[2] > 0 /\ n = link[2] - 1

HitsIn(out) == [m \in DOMAIN out |-> out[m].hit]

(* Chunks that are there by their place in the document.                   *)
Showing == {c \in Hits : c[1] \in Doc /\ c[2] < Len(Chunks[c[1]])}

(* The elements of K among the first n of s.                               *)
FoundIn(s, n, K) == At(s, {m \in 1 .. n : s[m] \in K})

(* todo is what is left of s after n of it.                                *)
Left(todo, s, n) ==
  /\ Len(todo) = Len(s) - n
  /\ \A m \in 1 .. Len(todo) : todo[m] = s[n + m]

(* Some of s is walked over, and the lines are of what is known in it.     *)
Walked(j, s, known) ==
  \E n \in 0 .. Len(s) :
    /\ Left(j.todo, s, n)
    /\ HitsIn(j.out) = FoundIn(s, n, known)

(* Vector search and hydration walk over the ranking and over its window;  *)
(* the walk stops at TopK lines or at the end.                             *)
Walking(t) ==
  LET j == job[t]
  IN  j.at \notin Before =>
        /\ j.task = "vector" =>
             /\ ranked[j.req] # None
             /\ Walked(j, ranked[j.req], InIndex)
             /\ Len(j.out) <= TopK
             /\ j.todo # <<>> => (j.at = "finish" <=> Len(j.out) = TopK)
        /\ j.task = "hydrate" =>
             /\ Walked(j, Window(ranked[j.req]), Showing)
             /\ j.at = "finish" => j.todo = <<>>

ThreadInv(t) == Carries(t) /\ OutInv(t) /\ OpenWalk(t) /\ Walking(t)
ThreadsInv == \A t \in Actor : ThreadInv(t)

(* Answers, in the terms of the walks that made them.                      *)
AnswerInv(r) ==
    /\ Answered(r, {"rrf"}) =>
         LET w == Window(ranked[r])
         IN  /\ ranked[r] # None
             /\ HitsOf(r) = FirstOf(At(w, {m \in DOMAIN w :
                  w[m] \in Showing}), TopK)
    /\ Answered(r, {"vector"}) =>
         /\ ranked[r] # None
         /\ HitsOf(r) = InProcess(ranked[r], InIndex)
    /\ Answered(r, {"open"}) => result[r] = Opens(arg[r])
    /\ Answered(r, SearchKinds) => result[r] \in Seq(GoodLines(r))
AnswersInv == \A r \in Request : AnswerInv(r)

-----------------------------------------------------------------------------
(* One more place.                                                         *)
LEMMA OneMorePlace ==
  ASSUME NEW S, NEW s \in Seq(S), NEW n \in Nat, n + 1 \in DOMAIN s,
         NEW P \in SUBSET (1 .. n)
  PROVE  At(s, P \cup {n + 1}) = Append(At(s, P), s[n + 1])
<1>1. DOMAIN s = 1 .. Len(s) /\ Len(s) \in Nat
  BY LenProperties
<1>2. P \in SUBSET DOMAIN s /\ IsFiniteSet(P) /\ P \subseteq Int
  <2>1. P \in SUBSET DOMAIN s
    BY <1>1
  <2> QED
    BY <2>1, AtOfSeq
<1>3. \A p \in P : s[p] \in S /\ p < n + 1
  BY <1>1, <1>2, ElementOfSeq
<1>4. s[n + 1] \in S /\ n + 1 \in Int
  BY <1>1, ElementOfSeq
<1> QED
  BY <1>2, <1>3, <1>4, AtOneMore

LEMMA WalkOn ==
  ASSUME NEW S, NEW s \in Seq(S), NEW n \in Nat, n + 1 \in DOMAIN s, NEW K
  PROVE  FoundIn(s, n + 1, K)
           = IF s[n + 1] \in K THEN Append(FoundIn(s, n, K), s[n + 1])
                               ELSE FoundIn(s, n, K)
<1> DEFINE P == {m \in 1 .. n : s[m] \in K}
           Q == {m \in 1 .. n + 1 : s[m] \in K}
<1>1. P \in SUBSET (1 .. n)
  OBVIOUS
<1>2. CASE s[n + 1] \in K
  <2>1. Q = P \cup {n + 1}
    BY <1>2
  <2> HIDE DEF P, Q
  <2>2. At(s, Q) = Append(At(s, P), s[n + 1])
    BY <1>1, <2>1, OneMorePlace
  <2> QED
    BY <1>2, <2>2 DEF P, Q, FoundIn
<1>3. CASE s[n + 1] \notin K
  <2>1. Q = P
    BY <1>3
  <2> QED
    BY <1>3, <2>1 DEF FoundIn
<1> QED
  BY <1>2, <1>3

LEMMA AllFirst ==
  ASSUME NEW P, IsFiniteSet(P), P \subseteq Int,
         NEW k \in Nat, Cardinality(P) <= k
  PROVE  Foremost(P, k) = P
<1>1. Cardinality(P) \in Nat
  BY FS_CardinalityType
<1>2. \A p \in P : Cardinality(UpTo(P, p)) \in 1 .. Cardinality(P)
  BY PlacesCounted
<1>3. \A p \in P : Cardinality(UpTo(P, p)) <= k
  BY <1>1, <1>2
<1> QED
  BY <1>3 DEF Foremost

(* A walk that ended with TopK hits, or at the end, found what InProcess is*)
Enough(s, n, K) ==
  /\ Len(FoundIn(s, n, K)) <= TopK
  /\ n = Len(s) \/ Len(FoundIn(s, n, K)) = TopK

LEMMA WalkEnds ==
  ASSUME NEW S, NEW s \in Seq(S), NEW n \in 0 .. Len(s), NEW K,
         Enough(s, n, K)
  PROVE  FoundIn(s, n, K) = InProcess(s, K)
<1>0. TopK \in Nat
  BY FusionAssumption
<1>1. DOMAIN s = 1 .. Len(s) /\ Len(s) \in Nat
  BY LenProperties
<1>n. n \in Int /\ n <= Len(s)
  BY <1>1
<1> DEFINE P == PlacesIn(s, K)
           W == {m \in 1 .. n : s[m] \in K}
<1>2. /\ P \in SUBSET DOMAIN s /\ W \in SUBSET DOMAIN s
      /\ W = UpTo(P, n)
      /\ n = Len(s) => W = P
  <2>1. \A m : m \in P <=> m \in 1 .. Len(s) /\ s[m] \in K
    BY <1>1 DEF PlacesIn
  <2>2. \A m : m \in UpTo(P, n) <=> m \in P /\ m <= n
    BY DEF UpTo
  <2>3. \A m : m \in 1 .. n <=> m \in 1 .. Len(s) /\ m <= n
    <3> TAKE m
    <3>2. CASE m \in Int
      BY <1>1, <1>n, <3>2
    <3>3. CASE m \notin Int
      BY <3>3
    <3> QED
      BY <3>2, <3>3
  <2>4. \A m : m \in W <=> m \in UpTo(P, n)
    BY <2>1, <2>2, <2>3
  <2>5. W = UpTo(P, n)
    BY <2>4, SetExtensionality
  <2>6. n = Len(s) => W = P
    BY <2>1
  <2>7. P \in SUBSET DOMAIN s /\ W \in SUBSET DOMAIN s
    BY <1>1, <2>1, <2>3
  <2> QED
    BY <2>5, <2>6, <2>7
<1> HIDE DEF P, W
<1>3. /\ IsFiniteSet(P) /\ P \subseteq Int
      /\ IsFiniteSet(W) /\ W \subseteq Int
      /\ Len(At(s, W)) = Cardinality(W)
  BY <1>2, AtOfSeq
<1>4. Cardinality(W) <= TopK /\ (W = P \/ Cardinality(W) >= TopK)
  <2>1. Len(At(s, W)) <= TopK /\ (n = Len(s) \/ Len(At(s, W)) = TopK)
    BY DEF Enough, W, FoundIn
  <2> QED
    BY <1>0, <1>2, <1>3, <2>1
<1>5. Foremost(P, TopK) = Foremost(W, TopK)
  BY <1>0, <1>n, <1>2, <1>3, <1>4, PrefixSuffices
<1>6. Foremost(W, TopK) = W
  BY <1>0, <1>3, <1>4, AllFirst
<1>7. FirstOf(At(s, P), TopK) = At(s, W)
  BY <1>0, <1>2, <1>5, <1>6, FirstOfAt
<1> QED
  BY <1>7 DEF InProcess, PlacesIn, FoundIn, P, W

-----------------------------------------------------------------------------
(* The hits of lines.                                                      *)

LEMMA HitsOfNone == HitsIn(<<>>) = <<>>
  BY DEF HitsIn

LEMMA HitsTyped ==
  ASSUME NEW S, NEW out \in Seq(S)
  PROVE  /\ HitsIn(out) \in Seq({l.hit : l \in S})
         /\ Len(HitsIn(out)) = Len(out)
         /\ \A m \in 1 .. Len(out) : HitsIn(out)[m] = out[m].hit
<1>1. DOMAIN out = 1 .. Len(out) /\ Len(out) \in Nat
  BY LenProperties
<1>2. HitsIn(out) \in [1 .. Len(out) -> {l.hit : l \in S}]
  BY <1>1, ElementOfSeq DEF HitsIn
<1> QED
  BY <1>1, <1>2, SeqOfInterval DEF HitsIn

LEMMA HitsOfMore ==
  ASSUME NEW S, NEW out \in Seq(S), NEW line \in S
  PROVE  HitsIn(out \o <<line>>) = Append(HitsIn(out), line.hit)
<1> DEFINE H == {l.hit : l \in S}
           more == out \o <<line>>
<1>1. /\ <<line>> \in Seq(S) /\ Len(<<line>>) = 1 /\ <<line>>[1] = line
      /\ Len(out) \in Nat
  BY LenProperties
<1>2. /\ more \in Seq(S)
      /\ Len(more) = Len(out) + 1
      /\ \A m \in 1 .. Len(out) + 1 :
           more[m] = IF m <= Len(out) THEN out[m] ELSE <<line>>[m - Len(out)]
  BY <1>1, ConcatProperties
<1> HIDE DEF more
<1>3. /\ HitsIn(more) \in Seq(H) /\ Len(HitsIn(more)) = Len(out) + 1
      /\ \A m \in 1 .. Len(out) + 1 : HitsIn(more)[m] = more[m].hit
  BY <1>2, HitsTyped
<1>4. /\ HitsIn(out) \in Seq(H) /\ Len(HitsIn(out)) = Len(out)
      /\ \A m \in 1 .. Len(out) : HitsIn(out)[m] = out[m].hit
      /\ line.hit \in H
  BY HitsTyped
<1> HIDE DEF H
<1>5. /\ Append(HitsIn(out), line.hit) \in Seq(H)
      /\ Len(Append(HitsIn(out), line.hit)) = Len(out) + 1
      /\ \A m \in 1 .. Len(out) :
           Append(HitsIn(out), line.hit)[m] = HitsIn(out)[m]
      /\ Append(HitsIn(out), line.hit)[Len(out) + 1] = line.hit
  BY <1>4, AppendProperties
<1>6. \A m \in 1 .. Len(out) + 1 :
        HitsIn(more)[m] = Append(HitsIn(out), line.hit)[m]
  <2> TAKE m \in 1 .. Len(out) + 1
  <2>1. CASE m \in 1 .. Len(out)
    BY <1>1, <1>2, <1>3, <1>4, <1>5, <2>1
  <2>2. CASE m = Len(out) + 1
    <3>1. more[m] = line
      BY <1>1, <1>2, <2>2
    <3> QED
      BY <1>1, <1>3, <1>5, <2>2, <3>1
  <2>3. m \in 1 .. Len(out) \/ m = Len(out) + 1
    BY <1>1
  <2> QED
    BY <2>1, <2>2, <2>3
<1>7. HitsIn(more) = Append(HitsIn(out), line.hit)
  BY <1>3, <1>5, <1>6, SeqEqual
<1> QED
  BY <1>7 DEF more

LEMMA HitsOfFirst ==
  ASSUME NEW S, NEW out \in Seq(S), NEW k \in Nat
  PROVE  HitsIn(FirstOf(out, k)) = FirstOf(HitsIn(out), k)
<1> DEFINE H == {l.hit : l \in S}
           few == FirstOf(out, k)
           n == IF Len(out) < k THEN Len(out) ELSE k
<1>1. /\ few \in Seq(S) /\ Len(few) = n
      /\ \A m \in 1 .. n : m \in 1 .. Len(out) /\ few[m] = out[m]
  BY FirstOfIs
<1> HIDE DEF few
<1>2. /\ HitsIn(few) \in Seq(H) /\ Len(HitsIn(few)) = n
      /\ \A m \in 1 .. n : HitsIn(few)[m] = few[m].hit
  BY <1>1, HitsTyped
<1>3. /\ HitsIn(out) \in Seq(H) /\ Len(HitsIn(out)) = Len(out)
      /\ \A m \in 1 .. Len(out) : HitsIn(out)[m] = out[m].hit
  BY HitsTyped
<1> HIDE DEF H
<1>4. /\ FirstOf(HitsIn(out), k) \in Seq(H)
      /\ Len(FirstOf(HitsIn(out), k)) = n
      /\ \A m \in 1 .. n : FirstOf(HitsIn(out), k)[m] = HitsIn(out)[m]
  BY <1>3, FirstOfIs
<1>5. \A m \in 1 .. n : HitsIn(few)[m] = FirstOf(HitsIn(out), k)[m]
  BY <1>1, <1>2, <1>3, <1>4
<1>6. HitsIn(few) = FirstOf(HitsIn(out), k)
  BY <1>2, <1>4, <1>5, SeqEqual
<1> QED
  BY <1>6 DEF few

-----------------------------------------------------------------------------
(* What the steps of a thread make of its job.                             *)

Moves(t) == job' = [job EXCEPT ![t] = job'[t]] /\ Shaped(job'[t])

Looks(t, at, doc, then) ==
  /\ Moves(t)
  /\ job'[t].req = job[t].req /\ job'[t].task = job[t].task
  /\ job'[t].todo = job[t].todo /\ job'[t].out = job[t].out
  /\ job'[t].chunks = job[t].chunks
  /\ job'[t].at = at /\ job'[t].doc = doc /\ job'[t].then = then

Goes(t, at, doc, out, todo) ==
  /\ Moves(t)
  /\ job'[t].req = job[t].req /\ job'[t].task = job[t].task
  /\ job'[t].todo = todo /\ job'[t].out = out
  /\ job'[t].chunks = <<>> /\ job'[t].then = "use"
  /\ job'[t].at = at /\ job'[t].doc = doc

Done(t, out, todo) == todo = <<>> \/ (job[t].task = "vector"
  /\ Len(out) >= TopK)

LEMMA GoFields ==
  ASSUME JobsShaped, NEW t \in Actor, NEW out, NEW todo, Go(t, out, todo)
  PROVE  \E at, doc :
           /\ Goes(t, at, doc, out, todo)
           /\ at = IF Done(t, out, todo) THEN "finish"
                   ELSE IF job[t].task = "title" THEN "chunkget" ELSE "docget"
           /\ at = "chunkget" => doc = todo[1][1]
<1> DEFINE at == IF Done(t, out, todo) THEN "finish"
                 ELSE IF job[t].task = "title" THEN "chunkget" ELSE "docget"
           doc == IF job[t].task = "title" /\ ~Done(t, out, todo)
                  THEN todo[1][1] ELSE None
<1>1. job' = [job EXCEPT ![t] = Sent(job[t], at, todo, doc, out)]
  BY DEF Go, Sent, Done
<1>2. at = "chunkget" => doc = todo[1][1]
  OBVIOUS
<1>3. /\ at = IF Done(t, out, todo) THEN "finish"
              ELSE IF job[t].task = "title" THEN "chunkget" ELSE "docget"
  OBVIOUS
<1> HIDE DEF at, doc
<1>4. job'[t] = Sent(job[t], at, todo, doc, out)
  BY <1>1 DEF JobsShaped
<1>5. Shaped(job[t])
  BY DEF JobsShaped
<1>7. job' = [job EXCEPT ![t] = job'[t]]
  BY <1>1, <1>4
<1>8. /\ Shaped(job'[t])
      /\ job'[t].req = job[t].req /\ job'[t].task = job[t].task
      /\ job'[t].at = at /\ job'[t].todo = todo /\ job'[t].doc = doc
      /\ job'[t].chunks = <<>> /\ job'[t].then = "use" /\ job'[t].out = out
  BY <1>4, <1>5, SentShape
<1>6. Goes(t, at, doc, out, todo)
  BY <1>7, <1>8 DEF Goes, Moves
<1> QED
  BY <1>2, <1>3, <1>6

LEMMA LookingFields ==
  ASSUME JobsShaped, NEW t \in Actor, NEW at, NEW doc, NEW then,
         job' = [job EXCEPT ![t] = Looking(job[t], at, doc, then)]
  PROVE  Looks(t, at, doc, then)
<1>1. job'[t] = Looking(job[t], at, doc, then)
  BY DEF JobsShaped
<1>2. Shaped(job[t])
  BY DEF JobsShaped
<1>3. job' = [job EXCEPT ![t] = job'[t]]
  BY <1>1
<1>4. /\ Shaped(job'[t])
      /\ job'[t].req = job[t].req /\ job'[t].task = job[t].task
      /\ job'[t].at = at /\ job'[t].todo = job[t].todo /\ job'[t].doc = doc
      /\ job'[t].chunks = job[t].chunks /\ job'[t].then = then
      /\ job'[t].out = job[t].out
  BY <1>1, <1>2, LookingShape
<1> QED
  BY <1>3, <1>4 DEF Looks, Moves

LEMMA FoundFields ==
  ASSUME JobsShaped, NEW t \in Actor, NEW d, Found(t, d)
  PROVE  \E at : /\ Looks(t, at, d, "use")
                 /\ at = IF \/ d = None \/ job[t].task = "keywords"
                            \/ job[t].todo[1][2] = Page
                         THEN "use" ELSE "chunkget"
<1> DEFINE at == IF \/ d = None \/ job[t].task = "keywords"
                    \/ job[t].todo[1][2] = Page
                 THEN "use" ELSE "chunkget"
<1>1. job' = [job EXCEPT ![t] = Looking(job[t], at, d, "use")]
  BY DEF Found, Looking
<1>2. Looks(t, at, d, "use")
  BY <1>1, LookingFields
<1> QED
  BY <1>2

LEMMA GotoFields ==
  ASSUME JobsShaped, NEW t \in Actor, NEW place, Goto(t, place)
  PROVE  Looks(t, place, job[t].doc, job[t].then)
<1>1. Shaped(job[t])
  BY DEF JobsShaped
<1>2. job'[t] = [job[t] EXCEPT !.at = place]
  BY DEF JobsShaped, Goto
<1>3. job' = [job EXCEPT ![t] = job'[t]]
  BY <1>2 DEF JobsShaped, Goto
<1> QED
  BY <1>1, <1>2, <1>3 DEF Shaped, Looks, Moves

LEMMA RandomFields ==
  ASSUME JobsShaped, NEW t \in Actor, Random(t)
  PROVE  \E d \in Doc : Looks(t, "chunkget", d, "sample")
<1>1. PICK d \in Doc :
        job' = [job EXCEPT ![t] = [@ EXCEPT !.at = "chunkget", !.doc = d,
                                            !.then = "sample"]]
  BY DEF Random
<1>2. job'[t] = [job[t] EXCEPT !.at = "chunkget", !.doc = d, !.then = "sample"]
  BY <1>1 DEF JobsShaped
<1>3. Shaped(job[t])
  BY DEF JobsShaped
<1>4. job' = [job EXCEPT ![t] = job'[t]]
  BY <1>1, <1>2
<1>5. Looks(t, "chunkget", d, "sample")
  BY <1>2, <1>3, <1>4 DEF Shaped, Looks, Moves
<1> QED
  BY <1>5

LEMMA MissFields ==
  ASSUME JobsShaped, NEW t \in Actor, DocGet(t),
         docCache[ProcessOf(t)][Wanted(t)] = Absent
  PROVE  \E at : /\ Looks(t, at, DocOf(Wanted(t)), "docput")
                 /\ at = IF Wanted(t) \in Doc THEN "chunkget" ELSE "docput"
<1> DEFINE at == IF Wanted(t) \in Doc THEN "chunkget" ELSE "docput"
           d == DocOf(Wanted(t))
<1>1. job' = [job EXCEPT ![t].doc = d, ![t].at = at, ![t].then = "docput"]
  BY DEF DocGet
<1> HIDE DEF d
<1>2. job' = [job EXCEPT ![t] =
                [job[t] EXCEPT !.doc = d, !.at = at, !.then = "docput"]]
  BY <1>1 DEF JobsShaped
<1>3. Shaped(job[t])
  BY DEF JobsShaped
<1>4. [job[t] EXCEPT !.doc = d, !.at = at, !.then = "docput"]
        = Looking(job[t], at, d, "docput")
  BY <1>3 DEF Shaped, Looking
<1>5. Looks(t, at, d, "docput")
  BY <1>2, <1>4, LookingFields
<1> QED
  BY <1>5 DEF d

LEMMA ChunksFields ==
  ASSUME JobsShaped, NEW t \in Actor, NEW chunks, GotChunks(t, chunks)
  PROVE  /\ Moves(t)
         /\ job'[t].req = job[t].req /\ job'[t].task = job[t].task
         /\ job'[t].todo = job[t].todo /\ job'[t].out = job[t].out
         /\ job'[t].chunks = chunks
         /\ job'[t].at = job[t].then
         /\ job'[t].doc = job[t].doc /\ job'[t].then = job[t].then
<1>1. Shaped(job[t])
  BY DEF JobsShaped
<1>2. job'[t] = [job[t] EXCEPT !.chunks = chunks, !.at = job[t].then]
  BY DEF JobsShaped, GotChunks
<1>3. job' = [job EXCEPT ![t] = job'[t]]
  BY <1>2 DEF JobsShaped, GotChunks
<1> QED
  BY <1>1, <1>2, <1>3 DEF Shaped, Moves

LEMMA IdleFields ==
  ASSUME JobsShaped, NEW t \in Actor, job' = [job EXCEPT ![t] = Idle]
  PROVE  Moves(t) /\ job'[t] = Idle
<1>1. job'[t] = Idle
  BY DEF JobsShaped
<1> QED
  BY <1>1, IdleShape DEF Moves

LEMMA TakeFields ==
  ASSUME JobsShaped, NEW t \in Actor, Take(t)
  PROVE  \E q \in queue :
           /\ queue' = queue \ {q}
           /\ Moves(t)
           /\ job'[t].req = q[1] /\ job'[t].task = q[2]
           /\ job'[t].at \in {"ensure", "run"}
           /\ job'[t].todo = <<>> /\ job'[t].out = <<>>
           /\ job'[t].chunks = <<>> /\ job'[t].then = "use"
<1> DEFINE at == IF t \in Thread THEN "ensure" ELSE "run"
<1>1. PICK q \in queue :
        /\ queue' = queue \ {q}
        /\ job' = [job EXCEPT ![t] =
                      [Idle EXCEPT !.req = q[1], !.task = q[2], !.at = at]]
  BY DEF Take
<1>2. job'[t] = [Idle EXCEPT !.req = q[1], !.task = q[2], !.at = at]
  BY <1>1 DEF JobsShaped
<1>3. job' = [job EXCEPT ![t] = job'[t]]
  BY <1>1, <1>2
<1> DEFINE new == [req |-> q[1], task |-> q[2], at |-> at, todo |-> <<>>,
                   doc |-> None, chunks |-> <<>>, then |-> "use", out |-> <<>>]
<1>4. job'[t] = new
  BY <1>2 DEF Idle
<1>5. at \in {"ensure", "run"}
  OBVIOUS
<1> HIDE DEF at
<1>6. /\ Shaped(new) /\ new.req = q[1] /\ new.task = q[2] /\ new.at = at
      /\ new.todo = <<>> /\ new.out = <<>> /\ new.chunks = <<>>
      /\ new.then = "use"
  BY DEF Shaped
<1> QED
  BY <1>1, <1>3, <1>4, <1>5, <1>6 DEF Moves

-----------------------------------------------------------------------------
(* What the other threads, and the other requests, see of a step.          *)

Steady(u) ==
  /\ job'[u] = job[u]
  /\ job[u].at \notin Before =>
       /\ arg'[job[u].req] = arg[job[u].req]
       /\ ranked'[job[u].req] = ranked[job[u].req]

LEMMA SteadyKeeps ==
  ASSUME NEW u \in Actor, ThreadInv(u), Steady(u) PROVE ThreadInv(u)'
<1>1. Carries(u)'
  BY DEF Steady, ThreadInv, Carries, Wanted, OnWay
<1>2. OutInv(u)'
  <2>1. CASE job[u].at \in Before
    <3>1. job'[u].out = <<>>
      BY <2>1 DEF Steady, ThreadInv, Carries
    <3> QED
      BY <3>1, EmptySeq DEF OutInv
  <2>2. CASE job[u].at \notin Before
    BY <2>2 DEF Steady, ThreadInv, OutInv, GoodLines, GoodLine
  <2> QED
    BY <2>1, <2>2
<1>3. OpenWalk(u)'
  <2>1. CASE job[u].at \in Before
    BY <2>1 DEF Steady, OpenWalk, Before, OnWay
  <2>2. CASE job[u].at \notin Before
    BY <2>2 DEF Steady, ThreadInv, OpenWalk, OnWay, Wanted
  <2> QED
    BY <2>1, <2>2
<1>4. Walking(u)'
  <2>1. CASE job[u].at \in Before
    BY <2>1 DEF Steady, Walking
  <2>2. CASE job[u].at \notin Before
    BY <2>2 DEF Steady, ThreadInv, Walking
  <2> QED
    BY <2>1, <2>2
<1> QED
  BY <1>1, <1>2, <1>3, <1>4 DEF ThreadInv

LEMMA BeforeKeeps ==
  ASSUME NEW t \in Actor, job'[t].at \in Before,
         job'[t].todo = <<>>, job'[t].chunks = <<>>, job'[t].out = <<>>,
         job'[t].then = "use"
  PROVE  ThreadInv(t)'
<1>1. Carries(t)'
  <2>1. <<>> \in Seq(Stock(job'[t].task))
    BY EmptySeq
  <2> QED
    BY <2>1 DEF Carries, Before, OnWay
<1>2. OutInv(t)'
  BY EmptySeq DEF OutInv
<1>3. OpenWalk(t)' /\ Walking(t)'
  BY DEF OpenWalk, Walking, Before, OnWay
<1> QED
  BY <1>1, <1>2, <1>3 DEF ThreadInv

(* A request of which nothing changed, or that has no answer yet.          *)
LEMMA SameAnswer ==
  ASSUME NEW r \in Request, AnswerInv(r),
         result'[r] = result[r],
         \/ result[r] \in {None, Failed}
         \/ /\ kind'[r] = kind[r] /\ arg'[r] = arg[r]
            /\ ranked'[r] = ranked[r]
  PROVE  AnswerInv(r)'
<1>1. CASE result[r] \in {None, Failed}
  BY <1>1 DEF AnswerInv, Answered
<1>2. CASE kind'[r] = kind[r] /\ arg'[r] = arg[r] /\ ranked'[r] = ranked[r]
  <2>1. HitsOf(r)' = HitsOf(r) /\ GoodLines(r)' = GoodLines(r)
    BY <1>2 DEF HitsOf, GoodLines, GoodLine
  <2>2. \A k : Answered(r, k)' <=> Answered(r, k)
    BY <1>2 DEF Answered
  <2> QED
    BY <1>2, <2>1, <2>2 DEF AnswerInv
<1> QED
  BY <1>1, <1>2

LEMMA NoAnswer ==
  ASSUME NEW r \in Request, result'[r] \in {None, Failed} PROVE AnswerInv(r)'
  BY DEF AnswerInv, Answered

-----------------------------------------------------------------------------
(* Every task is in the queue or in the hands of one thread.               *)

RequestsInv == TasksInv /\ ReqsShaped /\ RankedInv

(* A step of a thread in the middle of its task.                           *)
Continues(t) ==
  /\ Moves(t) /\ Alive(t) /\ job'[t].at # "idle"
  /\ job'[t].req = job[t].req /\ job'[t].task = job[t].task
  /\ UNCHANGED <<kind, arg, result, queue>>

(* The last step of a task.                                                *)
Ends(t) ==
  /\ Moves(t) /\ Alive(t) /\ job'[t] = Idle
  /\ UNCHANGED <<kind, arg, ranked, queue>>

LEMMA ContinuesKeeps ==
  ASSUME JobsShaped, TasksInv, NEW t \in Actor, Continues(t),
         \A r \in Request : ranked[r] # None => ranked'[r] # None,
         \A r \in Request : kind[r] = None => ranked'[r] = ranked[r]
  PROVE  TasksInv'
<1>1. \A u \in Actor \ {t} : job'[u] = job[u]
  BY JobChanges DEF Continues, Moves
<1>2. \A u \in Actor : /\ job'[u].req = job[u].req
                            /\ job'[u].task = job[u].task
                       /\ Alive(u)' <=> Alive(u)
  BY <1>1 DEF Continues, Alive
<1>3. \A u \in Actor : TaskOf(u)' = TaskOf(u)
  BY <1>2 DEF TaskOf
<1>4. \A r, task : Pending(r, task) => Pending(r, task)'
  BY DEF Pending, Continues
<1>5. \A u \in Actor : Alive(u)' =>
        Pending(job[u].req, job[u].task)' /\ TaskOf(u)' \notin queue'
  BY <1>2, <1>3, <1>4 DEF TasksInv, Continues
<1>6. \A u, v \in Actor :
        (Alive(u) /\ Alive(v) /\ TaskOf(u) = TaskOf(v))' => u = v
  BY <1>2, <1>3 DEF TasksInv
<1>7. \A q \in queue' : Pending(q[1], q[2])'
  BY <1>4 DEF TasksInv, Continues
<1>8. \A r \in Request : /\ kind'[r] = None => result'[r] = None
                              /\ ranked'[r] = None
                         /\ kind'[r] = "open" => arg'[r] \in Links
  BY DEF TasksInv, Continues
<1> QED
  BY <1>5, <1>6, <1>7, <1>8 DEF TasksInv

LEMMA EndsKeeps ==
  ASSUME JobsShaped, TasksInv, NEW t \in Actor, Ends(t),
         \A r \in Request \ {job[t].req} : result'[r] = result[r],
         queue \subseteq Request \X (ServerTasks \cup TextTasks)
  PROVE  TasksInv'
<1>1. \A u \in Actor \ {t} : job'[u] = job[u]
  BY JobChanges DEF Ends, Moves
<1>2. ~Alive(t)'
  BY DEF Ends, Idle, Alive
<1>3. \A u \in Actor : Alive(u)' => u # t /\ Alive(u) /\ TaskOf(u)' = TaskOf(u)
  BY <1>1, <1>2 DEF Alive, TaskOf
<1>0. Pending(job[t].req, job[t].task) /\ TaskOf(t) \notin queue /\ Alive(t)
  BY DEF TasksInv, Ends
<1>4. \A r, task : Pending(r, task) /\ <<r, task>> # TaskOf(t)
                     => Pending(r, task)'
  <2> TAKE r, task
  <2> HAVE Pending(r, task) /\ <<r, task>> # TaskOf(t)
  <2>1. CASE r # job[t].req
    BY <2>1 DEF Pending, Ends
  <2>2. CASE r = job[t].req
    <3>1. task # job[t].task
      BY <2>2 DEF TaskOf
    <3>2. kind[r] = "rrf"
      BY <1>0, <2>2, <3>1 DEF Pending, TasksOf
    <3> QED
      BY <3>2 DEF Pending, Ends
  <2> QED
    BY <2>1, <2>2
<1>5. \A u \in Actor : Alive(u)' =>
        Pending(job[u].req, job[u].task)' /\ TaskOf(u)' \notin queue'
  <2> TAKE u \in Actor
  <2> HAVE Alive(u)'
  <2>1. u # t /\ Alive(u) /\ TaskOf(u)' = TaskOf(u) /\ job'[u] = job[u]
    BY <1>1, <1>3
  <2>2. Pending(job[u].req, job[u].task) /\ TaskOf(u) \notin queue
    BY <2>1 DEF TasksInv
  <2>3. TaskOf(u) # TaskOf(t)
    BY <1>0, <2>1 DEF TasksInv
  <2>4. Pending(job[u].req, job[u].task)'
    <3> DEFINE r == job[u].req
               task == job[u].task
    <3>1. <<r, task>> # TaskOf(t) /\ Pending(r, task)
      BY <2>2, <2>3 DEF TaskOf
    <3>2. job'[u].req = r /\ job'[u].task = task
      BY <2>1
    <3> QED
      BY <1>4, <3>1, <3>2
  <2> QED
    BY <2>1, <2>2, <2>4 DEF Ends
<1>6. \A u, v \in Actor :
        (Alive(u) /\ Alive(v) /\ TaskOf(u) = TaskOf(v))' => u = v
  BY <1>3 DEF TasksInv
<1>7. \A q \in queue' : Pending(q[1], q[2])'
  <2> TAKE q \in queue'
  <2>1. q \in queue /\ Pending(q[1], q[2])
    BY DEF TasksInv, Ends
  <2>2. <<q[1], q[2]>> = q
    BY <2>1
  <2> QED
    BY <1>0, <1>4, <2>1, <2>2
<1>8. \A r \in Request : /\ kind'[r] = None => result'[r] = None
                              /\ ranked'[r] = None
                         /\ kind'[r] = "open" => arg'[r] \in Links
  <2>1. None \notin Kinds
    BY SearchAssumption
  <2>2. kind[job[t].req] # None
    BY <1>0, <2>1 DEF Pending
  <2> QED
    BY <2>2 DEF TasksInv, Ends
<1> QED
  BY <1>5, <1>6, <1>7, <1>8 DEF TasksInv

LEMMA TakeTasks ==
  ASSUME JobsShaped, TasksInv, NEW t \in Actor, NEW q \in queue, Moves(t),
         ~Alive(t), job'[t].at # "idle",
         job'[t].req = q[1], job'[t].task = q[2], queue' = queue \ {q},
         queue \subseteq Request \X (ServerTasks \cup TextTasks),
         UNCHANGED <<kind, arg, result, ranked>>
  PROVE  TasksInv'
<1>1. \A u \in Actor \ {t} : job'[u] = job[u]
  BY JobChanges DEF Moves
<1>2. q = <<q[1], q[2]>> /\ TaskOf(t)' = q
  BY DEF TaskOf
<1>3. \A r, task : Pending(r, task) => Pending(r, task)'
  BY DEF Pending
<1>4. \A u \in Actor : Alive(u)' /\ u # t => Alive(u) /\ TaskOf(u)' = TaskOf(u)
  BY <1>1 DEF Alive, TaskOf
<1>5. \A u \in Actor : Alive(u)' =>
        Pending(job[u].req, job[u].task)' /\ TaskOf(u)' \notin queue'
  <2> TAKE u \in Actor
  <2> HAVE Alive(u)'
  <2>1. CASE u = t
    <3>1. Pending(q[1], q[2])'
      BY <1>3 DEF TasksInv
    <3> QED
      BY <1>2, <2>1, <3>1
  <2>2. CASE u # t
    <3>1. Pending(job[u].req, job[u].task) /\ TaskOf(u) \notin queue
      BY <1>4, <2>2 DEF TasksInv
    <3>2. job'[u] = job[u]
      BY <1>1, <2>2
    <3> QED
      BY <1>3, <1>4, <2>2, <3>1, <3>2
  <2> QED
    BY <2>1, <2>2
<1>6. \A u \in Actor : Alive(u)' /\ u # t => TaskOf(u)' # TaskOf(t)'
  BY <1>2, <1>4 DEF TasksInv
<1>7. \A u, v \in Actor :
        (Alive(u) /\ Alive(v) /\ TaskOf(u) = TaskOf(v))' => u = v
  BY <1>4, <1>6 DEF TasksInv
<1>8. \A p \in queue' : Pending(p[1], p[2])'
  BY <1>3 DEF TasksInv
<1> QED
  BY <1>5, <1>7, <1>8 DEF TasksInv

(* The tasks a request brings, or its fused ranking.                       *)
LEMMA MoreTasks ==
  ASSUME TasksInv, NEW r \in Request, NEW tasks,
         UNCHANGED job, queue' = queue \cup tasks,
         \A q \in tasks : /\ q = <<r, q[2]>> /\ Pending(r, q[2])'
                          /\ ~Pending(r, q[2]),
         \A s, task : Pending(s, task) => Pending(s, task)',
         \A s \in Request : /\ kind'[s] = None
                               => result'[s] = None /\ ranked'[s] = None
                            /\ kind'[s] = "open" => arg'[s] \in Links
  PROVE  TasksInv'
<1>1. \A u \in Actor : /\ Alive(u)' <=> Alive(u)
                       /\ TaskOf(u)' = TaskOf(u)
  BY DEF Alive, TaskOf
<1>2. \A u \in Actor : Alive(u)' =>
        Pending(job[u].req, job[u].task)' /\ TaskOf(u)' \notin queue'
  <2> TAKE u \in Actor
  <2> HAVE Alive(u)'
  <2>1. Pending(job[u].req, job[u].task) /\ TaskOf(u) \notin queue
    BY <1>1 DEF TasksInv
  <2>2. TaskOf(u) \notin tasks
    <3> SUFFICES ASSUME TaskOf(u) \in tasks PROVE FALSE
      OBVIOUS
    <3> DEFINE q == TaskOf(u)
    <3>1. q = <<r, q[2]>> /\ ~Pending(r, q[2])
      OBVIOUS
    <3>2. q[1] = job[u].req /\ q[2] = job[u].task
      BY DEF TaskOf
    <3>3. q[1] = r
      <4> HIDE DEF q
      <4> QED
        BY <3>1
    <3> QED
      BY <2>1, <3>1, <3>2, <3>3
  <2> QED
    BY <1>1, <2>1, <2>2
<1>3. \A u, v \in Actor :
        (Alive(u) /\ Alive(v) /\ TaskOf(u) = TaskOf(v))' => u = v
  BY <1>1 DEF TasksInv
<1>4. \A q \in queue' : Pending(q[1], q[2])'
  BY DEF TasksInv
<1> QED
  BY <1>2, <1>3, <1>4 DEF TasksInv

-----------------------------------------------------------------------------
(* Steps that look something up.                                           *)

LEMMA FirstIn ==
  ASSUME NEW S, NEW s \in Seq(S), s # <<>>
  PROVE  /\ s[1] \in S /\ Tail(s) \in Seq(S) /\ Len(s) \in Nat \ {0}
         /\ Len(Tail(s)) = Len(s) - 1
         /\ \A m \in 1 .. Len(Tail(s)) : Tail(s)[m] = s[m + 1]
<1>1. Len(s) \in Nat \ {0}
  BY LenProperties, EmptySeq
<1>2. s[1] \in S
  BY <1>1, ElementOfSeq
<1> QED
  BY <1>1, <1>2, HeadTailProperties

(* The ids, the lines and the request of a job stay.                       *)
Stays(t) ==
  /\ Moves(t)
  /\ job'[t].req = job[t].req /\ job'[t].task = job[t].task
  /\ job'[t].todo = job[t].todo /\ job'[t].out = job[t].out
  /\ UNCHANGED <<arg, ranked>>

LEMMA StaysKeeps ==
  ASSUME NEW t \in Actor, ThreadInv(t), Stays(t),
         job[t].at \notin Before \cup {"finish"},
         job'[t].at \notin Before \cup {"finish"},
         OnWay(job'[t]) => OnWay(job[t])
  PROVE  (OutInv(t) /\ OpenWalk(t) /\ Walking(t))'
<1>1. OutInv(t)'
  BY DEF Stays, ThreadInv, OutInv, GoodLines, GoodLine
<1>2. OpenWalk(t)'
  <2> HIDE DEF OnWay
  <2> QED
    BY DEF Stays, ThreadInv, OpenWalk, Wanted
<1>3. Walking(t)'
  BY DEF Stays, ThreadInv, Walking, Walked
<1> QED
  BY <1>1, <1>2, <1>3

LEMMA DocOfIs ==
  ASSUME NEW k PROVE DocOf(k) # None => DocOf(k) \in Doc /\ DocOf(k) = k
  BY DEF DocOf

LEMMA FoundKeeps ==
  ASSUME JobsShaped, NEW t \in Actor, ThreadInv(t), NEW d, Found(t, d),
         job[t].at \in {"docget", "docput"}, d = DocOf(Wanted(t)),
         UNCHANGED <<arg, ranked>>
  PROVE  ThreadInv(t)' /\ Stays(t) /\ job'[t].at \in {"use", "chunkget"}
<1>1. PICK at : /\ Looks(t, at, d, "use")
                /\ at = IF \/ d = None \/ job[t].task = "keywords"
                           \/ job[t].todo[1][2] = Page
                        THEN "use" ELSE "chunkget"
  BY FoundFields
<1>2. Stays(t)
  BY <1>1 DEF Stays, Looks
<1>3. /\ job'[t].at = at /\ job'[t].doc = d /\ job'[t].then = "use"
      /\ job'[t].chunks = job[t].chunks
      /\ job'[t].todo = job[t].todo /\ job'[t].task = job[t].task
      /\ job'[t].out = job[t].out
  BY <1>1 DEF Looks
<1>4. at \in {"use", "chunkget"}
  BY <1>1
<1>5. OnWay(job'[t]) /\ OnWay(job[t])
  BY <1>3, <1>4 DEF OnWay
<1>6. Carries(t)
  BY DEF ThreadInv
<1>7. job[t].chunks # <<>> => d = job[t].doc
  BY <1>5, <1>6 DEF Carries
<1>8. Wanted(t)' = Wanted(t)
  BY <1>3 DEF Wanted
<1>9. Carries(t)'
  <2>1. job'[t].todo \in Seq(Stock(job'[t].task)) /\ job'[t].todo # <<>>
    BY <1>3, <1>5, <1>6 DEF Carries
  <2>2. job'[t].at \notin Before
    BY <1>3, <1>4 DEF Before
  <2>3. job'[t].task \notin {"text", "vec", "title"}
    BY <1>3, <1>6 DEF Carries, Before
  <2>4. job'[t].doc = DocOf(Wanted(t)')
    BY <1>3, <1>8
  <2>5. job'[t].at = "chunkget" => job'[t].doc \in Doc
    BY <1>1, <1>3, DocOfIs
  <2>6. job'[t].chunks # <<>> => job'[t].doc \in Doc
          /\ job'[t].chunks = Chunks[job'[t].doc]
    BY <1>3, <1>6, <1>7 DEF Carries
  <2>7. job'[t].at = "use" => \/ job'[t].doc = None
                                   \/ job'[t].task = "keywords"
                              \/ job'[t].todo[1][2] = Page
    BY <1>1, <1>3
  <2> QED
    BY <1>3, <1>4, <1>5, <2>1, <2>2, <2>3, <2>4, <2>5, <2>6, <2>7
       DEF Carries, OnWay
<1>10. job[t].at \notin Before \cup {"finish"}
         /\ job'[t].at \notin Before \cup {"finish"}
  BY <1>3, <1>4 DEF Before
<1> QED
  BY <1>2, <1>3, <1>4, <1>5, <1>9, <1>10, StaysKeeps DEF ThreadInv

LEMMA MissKeeps ==
  ASSUME JobsShaped, NEW t \in Actor, ThreadInv(t), DocGet(t),
         docCache[ProcessOf(t)][Wanted(t)] = Absent
  PROVE  ThreadInv(t)' /\ Stays(t) /\ job'[t].at \in {"docput", "chunkget"}
<1>0. job[t].at = "docget" /\ UNCHANGED <<arg, ranked>>
  BY DEF DocGet, reqVars
<1>1. PICK at : /\ Looks(t, at, DocOf(Wanted(t)), "docput")
                /\ at = IF Wanted(t) \in Doc THEN "chunkget" ELSE "docput"
  BY MissFields
<1>2. Stays(t)
  BY <1>0, <1>1 DEF Stays, Looks
<1>3. /\ job'[t].at = at /\ job'[t].doc = DocOf(Wanted(t))
      /\ job'[t].then = "docput"
      /\ job'[t].chunks = job[t].chunks
      /\ job'[t].todo = job[t].todo /\ job'[t].task = job[t].task
      /\ job'[t].out = job[t].out
  BY <1>1 DEF Looks
<1>4. at \in {"docput", "chunkget"}
  BY <1>1
<1>5. OnWay(job'[t]) /\ OnWay(job[t])
  BY <1>0, <1>3, <1>4 DEF OnWay
<1>6. Carries(t)
  BY DEF ThreadInv
<1>8. Wanted(t)' = Wanted(t)
  BY <1>3 DEF Wanted
<1>9. Carries(t)'
  <2>1. job'[t].todo \in Seq(Stock(job'[t].task)) /\ job'[t].todo # <<>>
    BY <1>3, <1>5, <1>6 DEF Carries
  <2>2. job'[t].at \notin Before
    BY <1>3, <1>4 DEF Before
  <2>3. job'[t].task \notin {"text", "vec", "title"}
    BY <1>0, <1>3, <1>6 DEF Carries, Before
  <2>4. job'[t].doc = DocOf(Wanted(t)')
    BY <1>3, <1>8
  <2>5. job'[t].at = "chunkget" => job'[t].doc \in Doc
    BY <1>1, <1>3 DEF DocOf
  <2>6. job'[t].chunks = <<>>
    BY <1>0, <1>3, <1>6 DEF Carries
  <2> QED
    BY <1>3, <1>4, <1>5, <2>1, <2>2, <2>3, <2>4, <2>5, <2>6 DEF Carries, OnWay
<1>10. job[t].at \notin Before \cup {"finish"}
         /\ job'[t].at \notin Before \cup {"finish"}
  BY <1>0, <1>3, <1>4 DEF Before
<1> QED
  BY <1>2, <1>3, <1>4, <1>5, <1>9, <1>10, StaysKeeps DEF ThreadInv

LEMMA ChunksKeeps ==
  ASSUME JobsShaped,
         NEW t \in Actor, ThreadInv(t), GotChunks(t, Chunks[job[t].doc]),
         job[t].at \in {"chunkget", "chunkput"},
         job[t].then \in {"docput", "sample", "use"},
         UNCHANGED <<arg, ranked>>
  PROVE  ThreadInv(t)' /\ Stays(t)
    /\ job'[t].at \in {"docput", "sample", "use"}
<1>1. /\ Moves(t)
      /\ job'[t].req = job[t].req /\ job'[t].task = job[t].task
      /\ job'[t].todo = job[t].todo /\ job'[t].out = job[t].out
      /\ job'[t].chunks = Chunks[job[t].doc]
      /\ job'[t].at = job[t].then
      /\ job'[t].doc = job[t].doc /\ job'[t].then = job[t].then
  BY ChunksFields
<1>2. Stays(t)
  BY <1>1 DEF Stays
<1>3. Carries(t)
  BY DEF ThreadInv
<1>4. OnWay(job'[t]) => OnWay(job[t])
  BY <1>1 DEF OnWay
<1>5. job'[t].doc \in Doc /\ job'[t].chunks = Chunks[job'[t].doc]
      /\ job'[t].chunks # <<>>
  BY <1>1, <1>3, SearchAssumption DEF Carries
<1>6. Wanted(t)' = Wanted(t)
  BY <1>1 DEF Wanted
<1>7. Carries(t)'
  <2>1. job'[t].todo \in Seq(Stock(job'[t].task))
    BY <1>1, <1>3 DEF Carries
  <2>2. job'[t].at \notin Before \cup {"docget", "finish", "chunkget",
          "chunkput"}
    BY <1>1 DEF Before
  <2>3. job'[t].task \notin {"text", "vec"}
    BY <1>1, <1>3 DEF Carries, Before
  <2>4. job'[t].task = "title" => job'[t].at \notin {"docget", "docput"}
                                  /\ job'[t].then = "use"
    BY <1>1, <1>3 DEF Carries
  <2>5. job'[t].at = "sample" \/ job'[t].then = "sample"
          => job'[t].task = "random"
    BY <1>1, <1>3 DEF Carries
  <2>6. OnWay(job'[t]) => job'[t].todo # <<>>
          /\ job'[t].doc = DocOf(Wanted(t)')
    BY <1>1, <1>3, <1>4, <1>6 DEF Carries
  <2> QED
    BY <1>5, <2>1, <2>2, <2>3, <2>4, <2>5, <2>6 DEF Carries
<1>8. job[t].at \notin Before \cup {"finish"}
        /\ job'[t].at \notin Before \cup {"finish"}
  BY <1>1 DEF Before
<1> QED
  BY <1>1, <1>2, <1>4, <1>7, <1>8, StaysKeeps DEF ThreadInv

LEMMA AskKeeps ==
  ASSUME JobsShaped, NEW t \in Actor, ThreadInv(t), Goto(t, "chunkput"),
         job[t].at = "chunkget", UNCHANGED <<arg, ranked>>
  PROVE  ThreadInv(t)' /\ Stays(t) /\ job'[t].at = "chunkput"
<1>1. Looks(t, "chunkput", job[t].doc, job[t].then)
  BY GotoFields
<1>2. Stays(t)
  BY <1>1 DEF Looks, Stays
<1>3. /\ job'[t].at = "chunkput" /\ job'[t].doc = job[t].doc
      /\ job'[t].then = job[t].then /\ job'[t].chunks = job[t].chunks
      /\ job'[t].todo = job[t].todo /\ job'[t].task = job[t].task
      /\ job'[t].out = job[t].out
  BY <1>1 DEF Looks
<1>4. OnWay(job'[t]) <=> OnWay(job[t])
  BY <1>3 DEF OnWay
<1>5. Carries(t) /\ Wanted(t)' = Wanted(t)
  BY <1>3 DEF ThreadInv, Wanted
<1>6. Carries(t)'
  BY <1>3, <1>4, <1>5 DEF Carries, Before
<1>7. job[t].at \notin Before \cup {"finish"}
        /\ job'[t].at \notin Before \cup {"finish"}
  BY <1>3 DEF Before
<1> QED
  BY <1>2, <1>3, <1>4, <1>6, <1>7, StaysKeeps DEF ThreadInv

LEMMA RandomKeeps ==
  ASSUME JobsShaped, NEW t \in Actor, ThreadInv(t), Random(t)
  PROVE  /\ ThreadInv(t)' /\ Moves(t) /\ job'[t].at = "chunkget"
         /\ job'[t].req = job[t].req /\ job'[t].task = job[t].task
<1>1. PICK d \in Doc : Looks(t, "chunkget", d, "sample")
  BY RandomFields
<1>2. Carries(t) /\ job[t].at = "run" /\ job[t].task = "random"
  BY DEF ThreadInv, Random, Running
<1>3. /\ job'[t].at = "chunkget" /\ job'[t].doc = d
      /\ job'[t].then = "sample" /\ job'[t].chunks = <<>>
      /\ job'[t].todo = job[t].todo /\ job'[t].task = "random"
      /\ job'[t].out = <<>>
  BY <1>1, <1>2 DEF Looks, Carries, Before
<1>4. ~OnWay(job'[t])
  BY <1>3 DEF OnWay
<1>5. Carries(t)'
  BY <1>2, <1>3, <1>4 DEF Carries, Before
<1>6. OutInv(t)' /\ OpenWalk(t)' /\ Walking(t)'
  BY <1>3, <1>4, EmptySeq DEF OutInv, OpenWalk, Walking
<1> QED
  BY <1>1, <1>2, <1>3, <1>5, <1>6 DEF ThreadInv, Looks

-----------------------------------------------------------------------------
(* Steps that go on to the next id.                                        *)

Went(t, out, todo) ==
  /\ Moves(t)
  /\ job'[t].req = job[t].req /\ job'[t].task = job[t].task
  /\ job'[t].todo = todo /\ job'[t].out = out
  /\ job'[t].at \in {"finish", "chunkget", "docget"}
  /\ job'[t].at = "finish" <=> Done(t, out, todo)
  /\ Carries(t)'

LEMMA GoWent ==
  ASSUME JobsShaped, NEW t \in Actor, NEW out, NEW todo, Go(t, out, todo),
         todo \in Seq(Stock(job[t].task)),
         job[t].task \notin {"text", "vec"},
         job[t].task \in {"open", "random"} => todo # <<>>
  PROVE  Went(t, out, todo)
<1>1. PICK at, doc :
        /\ Goes(t, at, doc, out, todo)
        /\ at = IF Done(t, out, todo) THEN "finish"
                ELSE IF job[t].task = "title" THEN "chunkget" ELSE "docget"
        /\ at = "chunkget" => doc = todo[1][1]
  BY GoFields
<1>2. /\ job'[t].at = at /\ job'[t].doc = doc
      /\ job'[t].then = "use" /\ job'[t].chunks = <<>>
      /\ job'[t].todo = todo /\ job'[t].task = job[t].task
      /\ job'[t].out = out
  BY <1>1 DEF Goes
<1>3. at \in {"finish", "chunkget", "docget"}
        /\ (at = "finish" <=> Done(t, out, todo))
  BY <1>1
<1>4. at # "finish" => todo # <<>>
  BY <1>1 DEF Done
<1>5. at = "chunkget" => /\ job[t].task = "title"
                         /\ doc \in Doc /\ doc = DocOf(todo[1][1])
  <2> SUFFICES ASSUME at = "chunkget"
               PROVE  job[t].task = "title" /\ doc \in Doc
                 /\ doc = DocOf(todo[1][1])
    OBVIOUS
  <2>1. job[t].task = "title" /\ todo # <<>> /\ doc = todo[1][1]
    BY <1>1, <1>4
  <2>2. todo \in Seq(Doc \X {0})
    BY <2>1 DEF Stock
  <2>3. todo[1] \in Doc \X {0}
    BY <2>1, <2>2, FirstIn
  <2> QED
    BY <2>1, <2>3 DEF DocOf
<1>6. at = "docget" => job[t].task # "title"
  BY <1>1
<1>7. at = "finish" => job[t].task \notin {"open", "random"}
  BY <1>1 DEF Done
<1>8. Wanted(t)' = todo[1][1]
  BY <1>2 DEF Wanted
<1>9. Carries(t)'
  BY <1>2, <1>3, <1>4, <1>5, <1>6, <1>7, <1>8 DEF Carries, Before, OnWay
<1> QED
  BY <1>1, <1>2, <1>3, <1>9 DEF Went, Goes

(* The start of a walk over a ranking.                                     *)
LEMMA WalkStarts ==
  ASSUME NEW S, NEW s \in Seq(S), NEW K, NEW j, j.todo = s, j.out = <<>>
  PROVE  Walked(j, s, K)
<1>1. Len(s) \in Nat
  BY LenProperties
<1>2. Left(s, s, 0)
  BY <1>1 DEF Left
<1>3. {m \in 1 .. 0 : s[m] \in K} = {}
  OBVIOUS
<1>4. FoundIn(s, 0, K) = <<>>
  BY <1>3, AtNowhere DEF FoundIn
<1>5. 0 \in 0 .. Len(s)
  BY <1>1
<1> QED
  BY <1>2, <1>4, <1>5, HitsOfNone DEF Walked

LEMMA HydrateKeeps ==
  ASSUME JobsShaped, RequestsInv, NEW t \in Actor, ThreadInv(t), Hydrate(t)
  PROVE  ThreadInv(t)' /\ \E todo : Went(t, <<>>, todo)
<1> DEFINE s == Window(ranked[job[t].req])
<1>1. /\ job[t].at = "run" /\ job[t].task = "hydrate" /\ Go(t, <<>>, s)
      /\ UNCHANGED reqVars
  BY DEF Hydrate, Running
<1>2. job[t].req \in Request /\ ranked[job[t].req] # None
  BY <1>1 DEF RequestsInv, TasksInv, Alive, Pending
<1>3. ranked[job[t].req] \in Seq(Hits)
  BY <1>2 DEF RequestsInv, RankedInv
<1>4. s \in Seq(Hits)
  BY <1>3, WindowIs
<1>5. Stock("hydrate") = Hits
  BY DEF Stock
<1>6. Went(t, <<>>, s)
  BY <1>1, <1>4, <1>5, GoWent
<1>7. OutInv(t)' /\ OpenWalk(t)'
  BY <1>1, <1>6, EmptySeq DEF Went, OutInv, OpenWalk
<1>8. Walked(job'[t], s, Showing)
  BY <1>4, <1>6, WalkStarts DEF Went
<1>9. ranked'[job'[t].req] = ranked[job[t].req]
  BY <1>1, <1>6 DEF Went, reqVars
<1>10. job'[t].at = "finish" => job'[t].todo = <<>>
  BY <1>1, <1>6 DEF Went, Done
<1>11. job'[t].task = "hydrate"
  BY <1>1, <1>6 DEF Went
<1>12. Walking(t)'
  BY <1>8, <1>9, <1>10, <1>11 DEF Walking
<1> QED
  BY <1>6, <1>7, <1>12 DEF ThreadInv, Went

LEMMA VectorKeeps ==
  ASSUME JobsShaped, RequestsInv,
         NEW t \in Actor, ThreadInv(t), VectorSearch(t)
  PROVE  /\ ThreadInv(t)' /\ \E todo : Went(t, <<>>, todo)
         /\ \E s \in Seq(Hits) : /\ Distinct(s)
                                 /\ ranked' = [ranked EXCEPT ![job[t].req] = s]
<1>1. PICK n \in Neighbours :
        \E s \in Fused(Ranks(<<>>), Ranks(FirstOf(n, Fetch))) :
        ranked' = [ranked EXCEPT ![job[t].req] = s] /\ Go(t, <<>>, s)
  BY DEF VectorSearch
<1>2. PICK s \in Fused(Ranks(<<>>), Ranks(FirstOf(n, Fetch))) :
        ranked' = [ranked EXCEPT ![job[t].req] = s] /\ Go(t, <<>>, s)
  BY <1>1
<1>3. n \in Seq(Hits) /\ Fetch \in Nat
  BY RankingsAssumption, FusionAssumption DEF Hits, Fetch
<1>4. FirstOf(n, Fetch) \in Seq(Hits) /\ <<>> \in Seq(Hits)
  BY <1>3, FirstOfIs, EmptySeq
<1>5. s \in Seq(Hits) /\ Distinct(s)
  BY <1>2, <1>4, FusedTyped
<1>6. job[t].at = "run" /\ job[t].task = "vector"
        /\ UNCHANGED <<kind, arg, result, text, vec>>
  BY DEF VectorSearch, Running
<1>7. Stock("vector") = Hits
  BY DEF Stock
<1>8. Went(t, <<>>, s)
  BY <1>2, <1>5, <1>6, <1>7, GoWent
<1>9. job[t].req \in Request
  BY <1>6 DEF RequestsInv, TasksInv, Alive, Pending
<1>10. OutInv(t)' /\ OpenWalk(t)'
  BY <1>6, <1>8, EmptySeq DEF Went, OutInv, OpenWalk
<1>11. Walked(job'[t], s, InIndex)
  BY <1>5, <1>8, WalkStarts DEF Went
<1>12. ranked'[job'[t].req] = s
  BY <1>2, <1>8, <1>9 DEF Went, RequestsInv, ReqsShaped
<1>13. Len(job'[t].out) = 0 /\ TopK \in Nat \ {0} /\ job'[t].task = "vector"
  BY <1>6, <1>8, EmptySeq, FusionAssumption DEF Went
<1>14. job'[t].todo # <<>> => job'[t].at # "finish"
  BY <1>8, <1>13 DEF Went, Done
<1>15. Walking(t)'
  <2>1. Len(job'[t].out) <= TopK /\ Len(job'[t].out) # TopK
    BY <1>13
  <2> QED
    BY <1>5, <1>11, <1>12, <1>13, <1>14, <2>1, SearchAssumption
       DEF Walking, Hits
<1> QED
  BY <1>2, <1>5, <1>8, <1>10, <1>15 DEF ThreadInv, Went

(* A task that neither walks over a ranking nor opens a link.              *)
LEMMA ListKeeps ==
  ASSUME JobsShaped, NEW t \in Actor, NEW todo, Went(t, <<>>, todo),
         job[t].task \notin {"hydrate", "vector", "open"}
  PROVE  ThreadInv(t)'
<1>1. job'[t].task \notin {"hydrate", "vector", "open"} /\ job'[t].out = <<>>
  BY DEF Went
<1> QED
  BY <1>1, EmptySeq DEF Went, ThreadInv, OutInv, OpenWalk, Walking

LEMMA KeywordKeeps ==
  ASSUME JobsShaped, NEW t \in Actor, KeywordSearch(t)
  PROVE  ThreadInv(t)' /\ \E todo : Went(t, <<>>, todo)
<1>1. PICK m \in Matches : Go(t, <<>>, KeywordHits(m, TopK))
  BY DEF KeywordSearch
<1>2. m \in Seq(GoodHits)
  <2>1. m \in Seq(Doc \X Nat)
          /\ \A c \in ToSet(m) : Whole(c[1]) => c \in InIndex
    BY RankingsAssumption
  <2>2. Len(m) \in Nat /\ m \in [1 .. Len(m) -> Doc \X Nat]
          /\ DOMAIN m = 1 .. Len(m)
    BY <2>1, LenProperties
  <2>3. \A k \in 1 .. Len(m) : m[k] \in ToSet(m)
    BY <2>2 DEF ToSet
  <2> HIDE DEF InIndex
  <2>4. \A k \in 1 .. Len(m) : m[k] \in GoodHits
    BY <2>1, <2>2, <2>3 DEF GoodHits
  <2> QED
    BY <2>2, <2>4, SeqOfInterval
<1>3. KeywordHits(m, TopK) \in Seq(GoodHits)
  BY <1>2, KeywordHitsTyped, FusionAssumption
<1>4. job[t].task = "keywords" /\ Stock("keywords") = GoodHits
  BY DEF KeywordSearch, Running, Stock
<1>5. Went(t, <<>>, KeywordHits(m, TopK))
  BY <1>1, <1>3, <1>4, GoWent
<1> QED
  BY <1>4, <1>5, ListKeeps

LEMMA TitleKeeps ==
  ASSUME JobsShaped, NEW t \in Actor, TitleSearch(t)
  PROVE  ThreadInv(t)' /\ \E todo : Went(t, <<>>, todo)
<1>1. PICK h \in TitleHits :
        Go(t, <<>>, [m \in DOMAIN FirstOf(h, TopK) |-> <<h[m], 0>>])
  BY DEF TitleSearch
<1> DEFINE todo == [m \in DOMAIN FirstOf(h, TopK) |-> <<h[m], 0>>]
<1>2. h \in Seq(Doc) /\ TopK \in Nat
  BY RankingsAssumption, FusionAssumption
<1>3. /\ FirstOf(h, TopK) \in Seq(Doc)
      /\ \A k \in 1 .. Len(FirstOf(h, TopK)) : k \in 1 .. Len(h)
  BY <1>2, FirstOfIs
<1>4. /\ DOMAIN FirstOf(h, TopK) = 1 .. Len(FirstOf(h, TopK))
      /\ Len(FirstOf(h, TopK)) \in Nat
  BY <1>3, LenProperties
<1>5. todo \in Seq(Doc \X {0})
  <2>1. \A k \in 1 .. Len(FirstOf(h, TopK)) : h[k] \in Doc
    BY <1>2, <1>3, ElementOfSeq
  <2>2. todo \in [1 .. Len(FirstOf(h, TopK)) -> Doc \X {0}]
    BY <1>4, <2>1
  <2> QED
    BY <1>4, <2>2, SeqOfInterval
<1>6. job[t].task = "title" /\ Stock("title") = Doc \X {0}
  BY DEF TitleSearch, Running, Stock
<1> HIDE DEF todo
<1>7. Went(t, <<>>, todo)
  BY <1>1, <1>5, <1>6, GoWent DEF todo
<1> QED
  BY <1>6, <1>7, ListKeeps

-----------------------------------------------------------------------------
(* One id, of a link or of a sampled document.                             *)

LEMMA OneId ==
  ASSUME NEW S, NEW c \in S
  PROVE  <<c>> \in Seq(S) /\ <<c>> # <<>> /\ <<c>>[1] = c
  OBVIOUS

LEMMA OpenWent ==
  ASSUME JobsShaped, NEW t \in Actor, NEW k \in Key, NEW n \in Int,
         Go(t, <<>>, <<<<k, n>>>>), job[t].task \in {"open", "random"},
         UNCHANGED reqVars,
         job[t].task = "open" =>
           /\ LeadsTo(k) = LeadsTo(arg[job[t].req][1])
           /\ n = Body => k \in Doc /\ arg[job[t].req][2] <= 0
           /\ n = Page => arg[job[t].req][2] <= 0
           /\ n \notin {Page, Body} => arg[job[t].req][2] > 0
                /\ n = arg[job[t].req][2] - 1
  PROVE  ThreadInv(t)' /\ \E todo : Went(t, <<>>, todo)
<1> DEFINE todo == <<<<k, n>>>>
<1>1. Stock(job[t].task) = Key \X Int
  BY DEF Stock
<1>2. todo \in Seq(Key \X Int) /\ todo # <<>> /\ todo[1] = <<k, n>>
  BY OneId
<1> HIDE DEF todo
<1>3. Went(t, <<>>, todo)
  BY <1>1, <1>2, GoWent DEF todo
<1>4. /\ job'[t].todo = todo /\ job'[t].task = job[t].task
      /\ job'[t].req = job[t].req /\ job'[t].out = <<>>
      /\ arg' = arg /\ Carries(t)'
  BY <1>3 DEF Went, reqVars
<1>5. Wanted(t)' = k /\ job'[t].todo[1][2] = n
  BY <1>2, <1>4 DEF Wanted
<1>6. OpenWalk(t)'
  BY <1>4, <1>5 DEF OpenWalk
<1>7. OutInv(t)' /\ Walking(t)'
  BY <1>4, EmptySeq DEF OutInv, Walking
<1> QED
  BY <1>3, <1>4, <1>6, <1>7 DEF ThreadInv

LEMMA OpenKeeps ==
  ASSUME JobsShaped, RequestsInv, NEW t \in Actor, Open(t)
  PROVE  ThreadInv(t)' /\ \E todo : Went(t, <<>>, todo)
<1> DEFINE link == arg[job[t].req]
           n == IF link[2] > 0 THEN link[2] - 1 ELSE Page
<1>1. /\ job[t].at = "run" /\ job[t].task = "open" /\ UNCHANGED reqVars
      /\ Go(t, <<>>, <<<<link[1], n>>>>)
  BY DEF Open, Running
<1>2. Pending(job[t].req, "open")
  BY <1>1 DEF RequestsInv, TasksInv, Alive
<1>3. kind[job[t].req] = "open"
  BY <1>2 DEF Pending, TasksOf
<1>4. link \in Key \X Int
  BY <1>2, <1>3, RankingsAssumption DEF RequestsInv, TasksInv, Pending
<1> HIDE DEF link
<1>5. link[1] \in Key /\ link[2] \in Int /\ Page \in Int /\ Page = -1
        /\ Body = -2
  BY <1>4 DEF Page, Body
<1>6. /\ n \in Int /\ n # Body /\ (n = Page => link[2] <= 0)
      /\ n # Page => link[2] > 0 /\ n = link[2] - 1
  BY <1>5
<1> HIDE DEF n
<1> QED
  BY <1>1, <1>5, <1>6, OpenWent DEF link

LEMMA SampleKeeps ==
  ASSUME JobsShaped, NEW t \in Actor, ThreadInv(t), Sample(t)
  PROVE  ThreadInv(t)' /\ \E todo : Went(t, <<>>, todo)
<1>1. job[t].at = "sample" /\ UNCHANGED reqVars
  BY DEF Sample
<1>2. PICK n \in 0 .. (Len(job[t].chunks) - 1) \cup {Page} :
        Go(t, <<>>, <<<<job[t].doc, n>>>>)
  BY DEF Sample
<1>3. /\ job[t].task = "random" /\ job[t].doc \in Doc
      /\ job[t].chunks = Chunks[job[t].doc]
  BY <1>1 DEF ThreadInv, Carries
<1>4. Len(job[t].chunks) \in Nat
  BY <1>3, SearchAssumption, LenProperties
<1>5. n \in Int /\ job[t].doc \in Key
  BY <1>2, <1>3, <1>4 DEF Page, Key
<1> QED
  BY <1>1, <1>2, <1>3, <1>5, OpenWent

LEMMA UsedId ==
  ASSUME NEW t \in Actor, ThreadInv(t), job[t].at = "use",
         job[t].task \in {"open", "random"}
  PROVE  /\ job[t].todo[1] \in Key \X Int
         /\ Wanted(t) \in Key /\ job[t].todo[1][2] \in Int
         /\ job[t].doc = DocOf(Wanted(t))
<1>1. /\ job[t].todo # <<>> /\ job[t].doc = DocOf(Wanted(t))
      /\ job[t].todo \in Seq(Stock(job[t].task))
  BY DEF ThreadInv, Carries, OnWay
<1>2. Stock(job[t].task) = Key \X Int
  BY DEF Stock
<1>3. job[t].todo[1] \in Key \X Int
  BY <1>1, <1>2, FirstIn
<1> QED
  BY <1>1, <1>3 DEF Wanted

LEMMA ByTitleKeeps ==
  ASSUME JobsShaped, NEW t \in Actor, ThreadInv(t), ByTitle(t)
  PROVE  ThreadInv(t)' /\ \E todo : Went(t, <<>>, todo)
<1> DEFINE k == TopHit[Wanted(t)]
           n == job[t].todo[1][2]
<1>1. /\ job[t].at = "use" /\ job[t].task \in {"open", "random"}
      /\ job[t].doc = None /\ k # None /\ UNCHANGED reqVars
      /\ Go(t, <<>>, <<<<k, n>>>>)
  BY DEF ByTitle, Wanted
<1>2. Wanted(t) \in Key /\ n \in Int /\ job[t].doc = DocOf(Wanted(t))
  BY <1>1, UsedId
<1>3. Wanted(t) \notin Doc /\ Wanted(t) \in Name
  BY <1>1, <1>2, SearchAssumption DEF DocOf, Key
<1>4. k \in Doc /\ k \in Key
  BY <1>1, <1>3, SearchAssumption DEF Key
<1>5. LeadsTo(k) = k /\ LeadsTo(Wanted(t)) = k
  BY <1>3, <1>4 DEF LeadsTo
<1>6. OpenWalk(t) /\ OnWay(job[t])
  BY <1>1 DEF ThreadInv, OnWay
<1>7. job[t].task = "open" =>
        /\ LeadsTo(k) = LeadsTo(arg[job[t].req][1])
        /\ n = Body => k \in Doc /\ arg[job[t].req][2] <= 0
        /\ n = Page => arg[job[t].req][2] <= 0
        /\ n \notin {Page, Body} => /\ arg[job[t].req][2] > 0
                                    /\ n = arg[job[t].req][2] - 1
  BY <1>4, <1>5, <1>6 DEF OpenWalk
<1> HIDE DEF k, n
<1> QED
  BY <1>1, <1>2, <1>4, <1>7, OpenWent

LEMMA WholePageKeeps ==
  ASSUME JobsShaped, NEW t \in Actor, ThreadInv(t), WholePage(t)
  PROVE  ThreadInv(t)' /\ \E todo : Went(t, <<>>, todo)
<1> DEFINE k == job[t].doc
<1>1. /\ job[t].at = "use" /\ job[t].task \in {"open", "random"}
      /\ k # None /\ job[t].todo[1][2] = Page /\ UNCHANGED reqVars
      /\ Go(t, <<>>, <<<<k, Body>>>>)
  BY DEF WholePage
<1>2. Wanted(t) \in Key /\ k = DocOf(Wanted(t))
  BY <1>1, UsedId
<1>3. k = Wanted(t) /\ k \in Doc /\ k \in Key
  BY <1>1, <1>2 DEF DocOf, Key
<1>4. OpenWalk(t) /\ OnWay(job[t])
  BY <1>1 DEF ThreadInv, OnWay
<1>5. Body \in Int /\ Body # Page
  BY DEF Body, Page
<1>6. job[t].task = "open" =>
        /\ LeadsTo(k) = LeadsTo(arg[job[t].req][1])
        /\ k \in Doc /\ arg[job[t].req][2] <= 0
  BY <1>1, <1>3, <1>4 DEF OpenWalk
<1> HIDE DEF k
<1> QED
  BY <1>1, <1>3, <1>5, <1>6, OpenWent

-----------------------------------------------------------------------------
(* The line of a chunk that is there.                                      *)

LEMMA ChunksTyped ==
  ASSUME NEW d \in Doc
  PROVE  /\ Chunks[d] \in Seq(Nat) /\ Chunks[d] # <<>>
         /\ Len(Chunks[d]) \in Nat \ {0}
              /\ DOMAIN Chunks[d] = 1 .. Len(Chunks[d])
         /\ \A m \in 1 .. Len(Chunks[d]) : Chunks[d][m] \in Nat
<1>1. Chunks[d] \in Seq(Nat) /\ Chunks[d] # <<>>
  BY SearchAssumption
<1>2. Len(Chunks[d]) \in Nat /\ DOMAIN Chunks[d] = 1 .. Len(Chunks[d])
  BY <1>1, LenProperties
<1>3. Len(Chunks[d]) # 0
  BY <1>1, EmptySeq
<1> QED
  BY <1>1, <1>2, <1>3, ElementOfSeq

LEMMA WholeIs ==
  ASSUME NEW d \in Doc, Whole(d), NEW n \in Nat, n < Len(Chunks[d])
  PROVE  Chunks[d][n + 1] = n
<1>1. n + 1 \in DOMAIN Chunks[d] /\ (n + 1) - 1 = n
  BY ChunksTyped
<1> QED
  BY <1>1 DEF Whole

LEMMA WholeHas ==
  ASSUME NEW d \in Doc, Whole(d), NEW n \in ToSet(Chunks[d])
  PROVE  n < Len(Chunks[d])
<1>1. PICK m \in DOMAIN Chunks[d] : n = Chunks[d][m]
  BY DEF ToSet
<1>2. n = m - 1
  BY <1>1 DEF Whole
<1> QED
  BY <1>2, ChunksTyped

LEMMA HitIn ==
  ASSUME NEW c \in Key \X Nat
  PROVE  /\ c \in InIndex <=> c[1] \in Doc /\ c[2] \in ToSet(Chunks[c[1]])
         /\ c \in Showing <=> c[1] \in Doc /\ c[2] < Len(Chunks[c[1]])
<1>1. ASSUME c \in InIndex PROVE c[1] \in Doc /\ c[2] \in ToSet(Chunks[c[1]])
  <2>1. PICK d \in Doc : c \in {d} \X ToSet(Chunks[d])
    BY <1>1 DEF InIndex
  <2> QED
    BY <2>1
<1>2. ASSUME c[1] \in Doc, c[2] \in ToSet(Chunks[c[1]]) PROVE c \in InIndex
  <2>1. c \in {c[1]} \X ToSet(Chunks[c[1]])
    BY <1>2
  <2> QED
    BY <1>2, <2>1 DEF InIndex
<1>3. c \in Showing <=> c[1] \in Doc /\ c[2] < Len(Chunks[c[1]])
  BY DEF Showing, Hits
<1> QED
  BY <1>1, <1>2, <1>3

LEMMA GoodLineIs ==
  ASSUME NEW r, NEW c \in Doc \X Nat, NEW shown \in Doc \X Nat,
         Whole(c[1]) => c[2] < Len(Chunks[c[1]]) /\ shown = c
  PROVE  /\ Line(r, c, shown) \in GoodLines(r)
         /\ Line(r, c, shown).hit = c
<1> DEFINE l == Line(r, c, shown)
           d == c[1]
           id == IF arg[r] = "title" THEN Title[d] ELSE d
<1>1. d \in Doc /\ d \in Key /\ c[2] \in Nat /\ Title[d] \in Key /\ d # None
  BY SearchAssumption DEF Key
<1>2. /\ l.hit = c /\ l.shown = shown /\ l.link = <<id, c[2] + 1>>
      /\ l = [hit |-> c, link |-> <<id, c[2] + 1>>, shown |-> shown]
  BY DEF Line, Link
<1> HIDE DEF l
<1>3. l \in [hit : Doc \X Nat, link : Key \X Nat, shown : Doc \X Nat]
  BY <1>1, <1>2
<1>4. ASSUME Whole(d), arg[r] = "wikiid" \/ LeadsTo(Title[d]) = d
      PROVE  Opens(l.link) = c
  <2>1. LeadsTo(id) = d
    BY <1>1, <1>4 DEF LeadsTo
  <2>2. l.link[1] = id /\ l.link[2] = c[2] + 1
    BY <1>2
  <2>3. c[2] < Len(Chunks[d]) /\ Len(Chunks[d]) \in Nat
    BY <1>1, <1>4, ChunksTyped
  <2>4. ~(c[2] + 1 <= 0) /\ ~(c[2] + 1 > Len(Chunks[d]))
    BY <1>1, <2>3
  <2>5. Opens(l.link) = <<d, Chunks[d][c[2] + 1]>>
    BY <1>1, <2>1, <2>2, <2>4 DEF Opens
  <2>6. Chunks[d][c[2] + 1] = c[2]
    BY <1>1, <1>4, <2>3, WholeIs
  <2> QED
    BY <2>5, <2>6
<1>5. GoodLine(r, l)
  BY <1>2, <1>4 DEF GoodLine
<1>6. l \in GoodLines(r)
  BY <1>3, <1>5 DEF GoodLines
<1> QED
  BY <1>2, <1>6 DEF l

(* What a thread holds when it makes a line.                               *)
LEMMA LineHeld ==
  ASSUME NEW t \in Actor, ThreadInv(t), job[t].at = "use",
         job[t].task \in {"hydrate", "vector", "keywords", "title"}
  PROVE  LET c == job[t].todo[1]
         IN  /\ job[t].todo # <<>> /\ job[t].todo \in Seq(Stock(job[t].task))
             /\ c \in Key \X Nat
             /\ job[t].task = "keywords" => c \in GoodHits
             /\ job[t].task = "title" => c \in Doc \X {0}
             /\ job[t].doc = IF c[1] \in Doc THEN c[1] ELSE None
             /\ c[1] \in Doc /\ job[t].task # "keywords"
                  => job[t].chunks = Chunks[c[1]]
<1> DEFINE c == job[t].todo[1]
<1>1. /\ job[t].todo # <<>> /\ job[t].todo \in Seq(Stock(job[t].task))
      /\ job[t].doc = IF c[1] \in Doc THEN c[1] ELSE None
  BY DEF ThreadInv, Carries, OnWay, Wanted, DocOf
<1>2. c \in Stock(job[t].task)
  BY <1>1, FirstIn
<1> HIDE DEF c
<1>3. /\ c \in Key \X Nat
      /\ job[t].task = "keywords" => c \in GoodHits
      /\ job[t].task = "title" => c \in Doc \X {0}
  BY <1>2 DEF Stock, Hits, GoodHits, Key
<1>4. c[1] \in Doc /\ job[t].task # "keywords" => job[t].chunks = Chunks[c[1]]
  <2> SUFFICES ASSUME c[1] \in Doc, job[t].task # "keywords"
               PROVE  job[t].chunks = Chunks[c[1]]
    OBVIOUS
  <2>1. job[t].doc = c[1] /\ job[t].doc # None
    BY <1>1, SearchAssumption DEF Key
  <2>2. c[2] # Page
    BY <1>3 DEF Page
  <2>3. job[t].chunks # <<>>
    BY <2>1, <2>2 DEF ThreadInv, Carries, c
  <2> QED
    BY <2>1, <2>3 DEF ThreadInv, Carries
<1> QED
  BY <1>1, <1>3, <1>4 DEF c

(* Which of the ids of a walk give a line, and which line.                 *)
Fine(r, c, shown) ==
  /\ Line(r, c, shown) \in GoodLines(r)
  /\ Line(r, c, shown).hit = c

LEMMA FineIs ==
  \A r, c, shown :
    /\ c \in Doc \X Nat /\ shown \in Doc \X Nat
    /\ Whole(c[1]) => c[2] < Len(Chunks[c[1]])
    /\ Whole(c[1]) => shown = c
    => Fine(r, c, shown)
  BY GoodLineIs DEF Fine

LEMMA LineMade ==
  ASSUME NEW t \in Actor, ThreadInv(t), job[t].at = "use",
         job[t].task \in {"hydrate", "vector", "keywords", "title"},
         NEW r
  PROVE  LET c == job[t].todo[1]
         IN  /\ Known(job[t], c) => Fine(r, c, Shown(job[t], c))
             /\ job[t].task = "vector" => (Known(job[t], c) <=> c \in InIndex)
             /\ job[t].task = "hydrate" => (Known(job[t], c) <=> c \in Showing)
<1> DEFINE j == job[t]
           c == job[t].todo[1]
<1>1. /\ c \in Key \X Nat
      /\ j.task = "keywords" => c \in GoodHits
      /\ j.task = "title" => c \in Doc \X {0}
      /\ j.doc = IF c[1] \in Doc THEN c[1] ELSE None
      /\ c[1] \in Doc /\ j.task # "keywords" => j.chunks = Chunks[c[1]]
  BY LineHeld
<1>2. None \notin Doc /\ (j.doc # None <=> c[1] \in Doc)
  BY <1>1, SearchAssumption DEF Key
<1>t. j.task \in {"hydrate", "vector", "keywords", "title"}
  OBVIOUS
<1> HIDE DEF j, c
<1>7. /\ Known(j, c) => Fine(r, c, Shown(j, c))
      /\ j.task = "vector" => (Known(j, c) <=> c \in InIndex)
      /\ j.task = "hydrate" => (Known(j, c) <=> c \in Showing)
  <2>3. CASE j.task = "hydrate"
    <3>1. Known(j, c) <=> c \in Showing
      BY <1>1, <1>2, <2>3, HitIn DEF Known
    <3>2. ASSUME Known(j, c)
          PROVE  Fine(r, c, Shown(j, c))
      <4>1. c[1] \in Doc /\ c[2] < Len(Chunks[c[1]]) /\ c \in Doc \X Nat
              /\ c[2] \in Nat
        BY <1>1, <3>1, <3>2, HitIn
      <4>2. Shown(j, c) = <<c[1], Chunks[c[1]][c[2] + 1]>>
        BY <1>1, <2>3, <4>1 DEF Shown
      <4>3. Chunks[c[1]][c[2] + 1] \in Nat
        BY <4>1, ChunksTyped
      <4>4. Whole(c[1]) => Shown(j, c) = c
        BY <4>1, <4>2, WholeIs
      <4> QED
        BY <4>1, <4>2, <4>3, <4>4, FineIs
    <3> QED
      BY <2>3, <3>1, <3>2
  <2>4. CASE j.task = "vector"
    <3>1. Known(j, c) <=> c \in InIndex
      BY <1>1, <1>2, <2>4, HitIn DEF Known
    <3>2. ASSUME Known(j, c)
          PROVE  Fine(r, c, Shown(j, c))
      <4>1. c[1] \in Doc /\ c[2] \in ToSet(Chunks[c[1]]) /\ c \in Doc \X Nat
        BY <1>1, <3>1, <3>2, HitIn
      <4>2. Shown(j, c) = c
        BY <2>4 DEF Shown
      <4> QED
        BY <4>1, <4>2, WholeHas, FineIs
    <3> QED
      BY <2>4, <3>1, <3>2
  <2>5. CASE j.task = "keywords"
    <3>1. c \in Doc \X Nat /\ (Whole(c[1]) => c \in InIndex)
      BY <1>1, <2>5 DEF GoodHits
    <3>2. Whole(c[1]) => c[2] < Len(Chunks[c[1]])
      BY <1>1, <3>1, HitIn, WholeHas
    <3>3. Shown(j, c) = c
      BY <2>5 DEF Shown
    <3> QED
      BY <2>5, <3>1, <3>2, <3>3, FineIs
  <2>6. CASE j.task = "title"
    <3>1. c \in Doc \X Nat /\ c[1] \in Doc /\ c[2] = 0
            /\ j.chunks = Chunks[c[1]]
      BY <1>1, <2>6
    <3>2. 0 < Len(Chunks[c[1]]) /\ Chunks[c[1]][1] \in Nat
      BY <3>1, ChunksTyped
    <3>3. Shown(j, c) = <<c[1], Chunks[c[1]][1]>>
      BY <2>6, <3>1 DEF Shown
    <3>4. Whole(c[1]) => Chunks[c[1]][0 + 1] = 0
      BY <3>1, <3>2, WholeIs
    <3>5. Whole(c[1]) => Shown(j, c) = c
      BY <3>1, <3>3, <3>4
    <3> QED
      BY <2>6, <3>1, <3>2, <3>3, <3>5, FineIs
  <2> QED
    BY <1>t, <2>3, <2>4, <2>5, <2>6
<1> QED
  BY <1>7 DEF j, c

-----------------------------------------------------------------------------
(* A walk goes on by a line or without one.                                *)

LEMMA OneLess ==
  \A n, l, m, k \in Int :
    0 <= n /\ m = l - n /\ 1 <= m /\ k = m - 1
    => /\ n + 1 \in 1 .. l /\ n + 1 \in 0 .. l
       /\ k = l - (n + 1)
  OBVIOUS

LEMMA LeftOn ==
  ASSUME NEW S, NEW s \in Seq(S), NEW todo \in Seq(S), todo # <<>>,
         NEW n \in 0 .. Len(s), Left(todo, s, n)
  PROVE  /\ n + 1 \in DOMAIN s /\ todo[1] = s[n + 1]
         /\ n + 1 \in 0 .. Len(s) /\ Left(Tail(todo), s, n + 1)
<1>1. Len(s) \in Nat /\ DOMAIN s = 1 .. Len(s)
  BY LenProperties
<1>2. /\ Len(todo) \in Nat \ {0} /\ Len(Tail(todo)) = Len(todo) - 1
      /\ \A m \in 1 .. Len(Tail(todo)) : Tail(todo)[m] = todo[m + 1]
  BY FirstIn
<1>3. Len(todo) = Len(s) - n /\ \A m \in 1 .. Len(todo) : todo[m] = s[n + m]
  BY DEF Left
<1>a. n \in Int /\ 0 <= n
  BY <1>1
<1>b. Len(todo) \in Nat \ {0} /\ Len(todo) = Len(s) - n /\ 1 \in 1 .. Len(todo)
  BY <1>2, <1>3
<1>c. todo[1] = s[n + 1]
  BY <1>3, <1>b
<1>d. Len(Tail(todo)) = Len(todo) - 1 /\ Len(Tail(todo)) \in Int
  BY <1>2
<1>e. Len(s) \in Int /\ Len(todo) \in Int /\ 1 <= Len(todo)
  <2>1. Len(s) \in Int
    BY <1>1
  <2>2. Len(todo) \in Int /\ 1 <= Len(todo)
    BY <1>2
  <2> QED
    BY <2>1, <2>2
<1>4. /\ n + 1 \in 1 .. Len(s) /\ n + 1 \in 0 .. Len(s)
      /\ Len(Tail(todo)) = Len(s) - (n + 1)
  <2>1. /\ 0 <= n /\ Len(todo) = Len(s) - n /\ 1 <= Len(todo)
        /\ Len(Tail(todo)) = Len(todo) - 1
    BY <1>a, <1>b, <1>d, <1>e
  <2> QED
    BY <1>a, <1>d, <1>e, <2>1, OneLess
<1>6. \A m \in 1 .. Len(Tail(todo)) : Tail(todo)[m] = s[(n + 1) + m]
  <2> TAKE m \in 1 .. Len(Tail(todo))
  <2>1. m + 1 \in 1 .. Len(todo) /\ n + (m + 1) = (n + 1) + m
    BY <1>1, <1>2
  <2>2. Tail(todo)[m] = todo[m + 1]
    BY <1>2
  <2>3. todo[m + 1] = s[n + (m + 1)]
    BY <1>3, <2>1
  <2> QED
    BY <2>1, <2>2, <2>3
<1> QED
  BY <1>1, <1>4, <1>6, <1>c DEF Left

(* The lines after one id more.                                            *)
LineOf(t) ==
  LET j == job[t]
      c == j.todo[1]
  IN  IF Known(j, c) THEN <<Line(j.req, c, Shown(j, c))>> ELSE <<>>

LEMMA MoreLines ==
  ASSUME NEW t \in Actor, ThreadInv(t), job[t].at = "use",
         job[t].task \in {"hydrate", "vector", "keywords", "title"}
  PROVE  LET c == job[t].todo[1]
             more == job[t].out \o LineOf(t)
         IN  /\ more \in Seq(GoodLines(job[t].req))
             /\ Known(job[t], c) =>
                  /\ HitsIn(more) = Append(HitsIn(job[t].out), c)
                  /\ Len(more) = Len(job[t].out) + 1
             /\ ~Known(job[t], c) => more = job[t].out
<1> DEFINE c == job[t].todo[1]
           r == job[t].req
           out == job[t].out
           line == Line(r, c, Shown(job[t], c))
<1>1. Known(job[t], c) => Fine(r, c, Shown(job[t], c))
  BY LineMade
<1>2. out \in Seq(GoodLines(r))
  BY DEF ThreadInv, OutInv
<1>3. CASE Known(job[t], c)
  <2>1. line \in GoodLines(r) /\ line.hit = c
    BY <1>1, <1>3 DEF Fine
  <2>2. LineOf(t) = <<line>>
    BY <1>3 DEF LineOf
  <2> HIDE DEF line
  <2>3. HitsIn(out \o <<line>>) = Append(HitsIn(out), line.hit)
    BY <1>2, <2>1, HitsOfMore
  <2>4. /\ <<line>> \in Seq(GoodLines(r)) /\ Len(<<line>>) = 1
        /\ Len(out) \in Nat
    BY <1>2, <2>1, LenProperties
  <2>5. out \o <<line>> \in Seq(GoodLines(r))
          /\ Len(out \o <<line>>) = Len(out) + 1
    BY <1>2, <2>4, ConcatProperties
  <2> QED
    BY <1>3, <2>1, <2>2, <2>3, <2>5
<1>4. CASE ~Known(job[t], c)
  <2>1. LineOf(t) = <<>>
    BY <1>4 DEF LineOf
  <2>2. out \o <<>> = out
    BY <1>2, ConcatEmptySeq
  <2> QED
    BY <1>2, <1>4, <2>1, <2>2
<1> QED
  BY <1>3, <1>4

LEMMA WalkGoes ==
  ASSUME NEW t \in Actor, ThreadInv(t), job[t].at = "use",
         job[t].task \in {"hydrate", "vector"},
         Went(t, job[t].out \o LineOf(t), Tail(job[t].todo)),
         NEW s \in Seq(Hits), NEW K, Walked(job[t], s, K),
         Known(job[t], job[t].todo[1]) <=> job[t].todo[1] \in K
  PROVE  Walked(job'[t], s, K)
<1> DEFINE c == job[t].todo[1]
           more == job[t].out \o LineOf(t)
<1>1. PICK n \in 0 .. Len(s) : /\ Left(job[t].todo, s, n)
                              /\ HitsIn(job[t].out) = FoundIn(s, n, K)
  BY DEF Walked
<1>2. job[t].todo # <<>> /\ job[t].todo \in Seq(Hits)
  BY LineHeld DEF Stock
<1>3. /\ n + 1 \in DOMAIN s /\ c = s[n + 1]
      /\ n + 1 \in 0 .. Len(s) /\ Left(Tail(job[t].todo), s, n + 1)
  BY <1>1, <1>2, LeftOn
<1>4. n \in Nat
  BY <1>1
<1>5. FoundIn(s, n + 1, K) = IF c \in K THEN Append(FoundIn(s, n, K), c)
                                        ELSE FoundIn(s, n, K)
  BY <1>3, <1>4, WalkOn
<1>6. HitsIn(more) = FoundIn(s, n + 1, K)
  <2>1. /\ Known(job[t], c) => HitsIn(more) = Append(HitsIn(job[t].out), c)
        /\ ~Known(job[t], c) => more = job[t].out
    BY MoreLines
  <2>2. Known(job[t], c) <=> c \in K
    OBVIOUS
  <2> HIDE DEF c, more
  <2> QED
    BY <1>1, <1>5, <2>1, <2>2
<1>7. job'[t].todo = Tail(job[t].todo) /\ job'[t].out = more
  BY DEF Went
<1> HIDE DEF more
<1> QED
  BY <1>3, <1>6, <1>7 DEF Walked

LEMMA TaskKinds ==
  ASSUME RequestsInv, NEW t \in Actor, Alive(t)
  PROVE  /\ job[t].req \in Request /\ kind[job[t].req] \in Kinds
         /\ \/ /\ kind[job[t].req] = "rrf"
               /\ job[t].task \in {"text", "vec", "hydrate"}
            \/ /\ kind[job[t].req] # "rrf"
               /\ job[t].task = kind[job[t].req]
               /\ result[job[t].req] = None
         /\ job[t].task = "hydrate" => ranked[job[t].req] # None
<1>1. Pending(job[t].req, job[t].task)
  BY DEF RequestsInv, TasksInv
<1> QED
  BY <1>1 DEF Pending, TasksOf

LEMMA LineTasks ==
  ASSUME RequestsInv,
         NEW t \in Actor, ThreadInv(t), job[t].at \in {"use", "finish"},
         job[t].task \notin {"open", "random"}
  PROVE  job[t].task \in {"hydrate", "vector", "keywords", "title"}
<1>1. Alive(t) /\ job[t].task \notin {"text", "vec"}
  BY DEF Alive, ThreadInv, Carries, Before
<1> QED
  BY <1>1, TaskKinds DEF Kinds, SearchKinds

LEMMA UseLineKeeps ==
  ASSUME JobsShaped, RequestsInv, NEW t \in Actor, ThreadInv(t), UseLine(t)
  PROVE  ThreadInv(t)' /\ \E out, todo : Went(t, out, todo)
<1> DEFINE c == job[t].todo[1]
           r == job[t].req
           more == job[t].out \o LineOf(t)
<1>1. /\ job[t].at = "use" /\ job[t].task \notin {"open", "random"}
      /\ Go(t, more, Tail(job[t].todo)) /\ UNCHANGED reqVars
  BY DEF UseLine, LineOf
<1>2. job[t].task \in {"hydrate", "vector", "keywords", "title"}
  BY <1>1, LineTasks
<1>3. Tail(job[t].todo) \in Seq(Stock(job[t].task))
  BY <1>1, <1>2, LineHeld, FirstIn
<1>4. Went(t, more, Tail(job[t].todo))
  BY <1>1, <1>2, <1>3, GoWent
<1>5. /\ more \in Seq(GoodLines(r))
      /\ Known(job[t], c) => Len(more) = Len(job[t].out) + 1
      /\ ~Known(job[t], c) => more = job[t].out
  BY <1>1, <1>2, MoreLines
<1>6. /\ job'[t].task = job[t].task /\ job'[t].req = r /\ job'[t].out = more
      /\ job'[t].todo = Tail(job[t].todo)
      /\ arg' = arg /\ ranked' = ranked
      /\ job'[t].at = "finish" <=> Done(t, more, Tail(job[t].todo))
  BY <1>1, <1>4 DEF Went, reqVars
<1>7. Alive(t) /\ r \in Request
  BY <1>1, TaskKinds DEF Alive
<1>8. OutInv(t)' /\ OpenWalk(t)'
  <2>1. GoodLines(r)' = GoodLines(r)
    BY <1>6 DEF GoodLines, GoodLine
  <2> HIDE DEF more
  <2>2. OutInv(t)'
    BY <1>5, <1>6, <2>1 DEF OutInv, GoodLines, GoodLine
  <2> QED
    BY <1>1, <1>6, <2>2 DEF OpenWalk
<1>11. Walking(t)'
  <2>9. CASE job[t].task = "vector"
    <3>1. /\ ranked[r] # None /\ Walked(job[t], ranked[r], InIndex)
          /\ Len(job[t].out) <= TopK /\ Len(job[t].out) # TopK
      <4>1. job[t].todo # <<>> /\ job[t].at \notin Before
        BY <1>1, <1>2, LineHeld DEF Before
      <4> QED
        BY <1>1, <2>9, <4>1 DEF ThreadInv, Walking
    <3>2. ranked[r] \in Seq(Hits)
      BY <1>7, <3>1 DEF RequestsInv, RankedInv
    <3>3. Known(job[t], c) <=> c \in InIndex
      BY <1>1, <1>2, <2>9, LineMade
    <3>4. Walked(job'[t], ranked[r], InIndex)
      BY <1>1, <1>4, <2>9, <3>1, <3>2, <3>3, WalkGoes
    <3>5. Len(job[t].out) \in Nat /\ TopK \in Nat
      BY FusionAssumption, LenProperties DEF ThreadInv, OutInv
    <3> HIDE DEF c, more
    <3>6. Len(more) <= TopK /\ Len(more) \in Nat
      <4>1. CASE Known(job[t], c)
        BY <1>5, <3>1, <3>5, <4>1
      <4>2. CASE ~Known(job[t], c)
        BY <1>5, <3>1, <3>5, <4>2
      <4> QED
        BY <4>1, <4>2
    <3>7. Len(more) >= TopK <=> Len(more) = TopK
      BY <3>5, <3>6
    <3>8. job'[t].todo # <<>>
            => (job'[t].at = "finish" <=> Len(job'[t].out) = TopK)
      BY <1>6, <2>9, <3>7 DEF Done
    <3> QED
      BY <1>6, <2>9, <3>1, <3>4, <3>6, <3>8 DEF Walking
  <2>10. CASE job[t].task = "hydrate"
    <3>1. ranked[r] # None /\ Walked(job[t], Window(ranked[r]), Showing)
      BY <1>1, <1>7, <2>10, TaskKinds DEF ThreadInv, Walking, Before
    <3>2. Window(ranked[r]) \in Seq(Hits)
      BY <1>7, <3>1, WindowIs DEF RequestsInv, RankedInv
    <3>3. Known(job[t], c) <=> c \in Showing
      BY <1>1, <1>2, <2>10, LineMade
    <3>4. Walked(job'[t], Window(ranked[r]), Showing)
      BY <1>1, <1>4, <2>10, <3>1, <3>2, <3>3, WalkGoes
    <3> HIDE DEF c, more
    <3>5. job'[t].at = "finish" => job'[t].todo = <<>>
      BY <1>6, <2>10 DEF Done
    <3> QED
      BY <1>6, <2>10, <3>4, <3>5 DEF Walking
  <2>1. CASE job[t].task \notin {"vector", "hydrate"}
    BY <1>6, <2>1 DEF Walking
  <2> QED
    BY <2>1, <2>9, <2>10
<1> QED
  BY <1>4, <1>8, <1>11 DEF ThreadInv, Went

-----------------------------------------------------------------------------
(* Answers.                                                                *)

LEMMA FinishAnswers ==
  ASSUME JobsShaped, RequestsInv, NEW t \in Actor, ThreadInv(t), Finish(t),
         NEW r, r = job[t].req, AnswerInv(r)
  PROVE  AnswerInv(r)'
<1> DEFINE out == job[t].out
           a == IF job[t].task = "hydrate" THEN FirstOf(out, TopK) ELSE out
<1>1. /\ job[t].at = "finish" /\ UNCHANGED <<kind, arg, ranked>>
      /\ result' = [result EXCEPT ![r] = IF @ = None THEN a ELSE @]
  BY DEF Finish, Answer
<1>2. Alive(t) /\ r \in Request
  BY <1>1, TaskKinds DEF Alive
<1>3. result'[r] = IF result[r] = None THEN a ELSE result[r]
  BY <1>1, <1>2 DEF RequestsInv, ReqsShaped
<1>4. CASE result[r] # None
  BY <1>1, <1>2, <1>3, <1>4, SameAnswer
<1>5. CASE result[r] = None
  <2>1. result'[r] = a
    BY <1>3, <1>5
  <2>2. job[t].task \in {"hydrate", "vector", "keywords", "title"}
    BY <1>1, LineTasks DEF ThreadInv, Carries
  <2>3. /\ kind[r] = "rrf" <=> job[t].task = "hydrate"
        /\ kind[r] # "rrf" => kind[r] = job[t].task
    BY <1>2, <2>2, TaskKinds DEF Kinds, SearchKinds
  <2>4. out \in Seq(GoodLines(r)) /\ TopK \in Nat
    BY FusionAssumption DEF ThreadInv, OutInv
  <2>5. a \in Seq(GoodLines(r))
    BY <2>4, FirstOfIs
  <2>6. GoodLines(r)' = GoodLines(r)
    BY <1>1 DEF GoodLines, GoodLine
  <2>7. HitsOf(r)' = HitsIn(a)
    BY <2>1 DEF HitsOf, HitsIn
  <2>8. Len(HitsIn(out)) = Len(out)
    BY <2>4, HitsTyped
  <2>9. job[t].at \notin Before
    BY <1>1 DEF Before
  <2>10. kind[r] = "rrf" =>
           LET w == Window(ranked[r])
           IN  /\ ranked[r] # None
               /\ HitsIn(a) = FirstOf(At(w, {m \in DOMAIN w :
                    w[m] \in Showing}), TopK)
    <3> SUFFICES ASSUME kind[r] = "rrf"
                 PROVE  LET w == Window(ranked[r])
                        IN  /\ ranked[r] # None
                            /\ HitsIn(a) = FirstOf(At(w, {m \in DOMAIN w :
                                 w[m] \in Showing}), TopK)
      OBVIOUS
    <3> DEFINE w == Window(ranked[r])
    <3>1. job[t].task = "hydrate" /\ ranked[r] # None
      BY <1>2, <2>3, TaskKinds
    <3>2. w \in Seq(Hits)
      BY <1>2, <3>1, WindowIs DEF RequestsInv, RankedInv
    <3>3. Walked(job[t], w, Showing) /\ job[t].todo = <<>>
      BY <1>1, <2>9, <3>1 DEF ThreadInv, Walking
    <3> HIDE DEF w
    <3>4. PICK n \in 0 .. Len(w) : Left(<<>>, w, n)
            /\ HitsIn(out) = FoundIn(w, n, Showing)
      BY <3>3 DEF Walked
    <3>5. Len(w) \in Nat /\ DOMAIN w = 1 .. Len(w)
      BY <3>2, LenProperties
    <3>6. Len(<<>>) = Len(w) - n
      BY <3>4 DEF Left
    <3>7. n = Len(w)
      <4>1. n \in Int /\ Len(w) \in Int /\ Len(<<>>) = 0
        BY <3>5, EmptySeq
      <4> QED
        BY <3>6, <4>1
    <3>8. HitsIn(out) = At(w, {m \in DOMAIN w : w[m] \in Showing})
      BY <3>4, <3>5, <3>7 DEF FoundIn
    <3>9. HitsIn(a) = FirstOf(HitsIn(out), TopK)
      BY <2>4, <3>1, HitsOfFirst
    <3> QED
      BY <3>1, <3>8, <3>9 DEF w
  <2>11. kind[r] = "vector" => ranked[r] # None
           /\ HitsIn(a) = InProcess(ranked[r], InIndex)
    <3> SUFFICES ASSUME kind[r] = "vector"
                 PROVE  ranked[r] # None
                   /\ HitsIn(a) = InProcess(ranked[r], InIndex)
      OBVIOUS
    <3> DEFINE s == ranked[r]
    <3>1. job[t].task = "vector" /\ a = out
      BY <2>3
    <3>2. /\ s # None /\ Walked(job[t], s, InIndex) /\ Len(out) <= TopK
          /\ job[t].todo # <<>> => Len(out) = TopK
      BY <1>1, <2>9, <3>1 DEF ThreadInv, Walking
    <3>3. s \in Seq(Hits)
      BY <1>2, <3>2 DEF RequestsInv, RankedInv
    <3> HIDE DEF s
    <3>4. PICK n \in 0 .. Len(s) : Left(job[t].todo, s, n)
            /\ HitsIn(out) = FoundIn(s, n, InIndex)
      BY <3>2 DEF Walked
    <3>5. job[t].todo = <<>> => n = Len(s)
      <4> SUFFICES ASSUME job[t].todo = <<>> PROVE n = Len(s)
        OBVIOUS
      <4>1. Len(<<>>) = Len(s) - n /\ Len(s) \in Nat
        BY <3>3, <3>4, LenProperties DEF Left
      <4> QED
        BY <4>1, EmptySeq
    <3>6. Enough(s, n, InIndex)
      BY <2>8, <3>2, <3>4, <3>5 DEF Enough
    <3>7. FoundIn(s, n, InIndex) = InProcess(s, InIndex)
      BY <3>3, <3>6, WalkEnds
    <3> QED
      BY <3>1, <3>2, <3>4, <3>7 DEF s
  <2>12. kind[r] # "open"
    BY <2>2, <2>3
  <2> HIDE DEF a
  <2> QED
    BY <1>1, <2>1, <2>5, <2>6, <2>7, <2>10, <2>11, <2>12
       DEF AnswerInv, Answered
<1> QED
  BY <1>4, <1>5

LEMMA OpenedAnswers ==
  ASSUME JobsShaped, RequestsInv, NEW t \in Actor, ThreadInv(t), Opened(t),
         NEW r, r = job[t].req, AnswerInv(r)
  PROVE  AnswerInv(r)'
<1> DEFINE n == job[t].todo[1][2]
           d == job[t].doc
           chunks == job[t].chunks
           a == IF d = None THEN NotFound
                ELSE IF n = Body THEN <<d, chunks, Page>>
                ELSE IF n >= Len(chunks) THEN NotFound
                ELSE <<d, chunks[n + 1]>>
<1>1. /\ job[t].at = "use" /\ job[t].task \in {"open", "random"}
      /\ n # Page \/ d = None
      /\ d = None => TopHit[Wanted(t)] = None
      /\ UNCHANGED <<kind, arg, ranked>>
      /\ result' = [result EXCEPT ![r] = IF @ = None THEN a ELSE @]
  BY DEF Opened, Answer, Wanted
<1>2. Alive(t) /\ r \in Request
  BY <1>1, TaskKinds DEF Alive
<1>3. result'[r] = IF result[r] = None THEN a ELSE result[r]
  BY <1>1, <1>2 DEF RequestsInv, ReqsShaped
<1>4. kind[r] = job[t].task /\ kind[r] \notin SearchKinds
  BY <1>1, <1>2, TaskKinds DEF SearchKinds
<1>5. CASE result[r] # None
  BY <1>1, <1>2, <1>3, <1>5, SameAnswer
<1>6. CASE kind[r] = "random"
  BY <1>1, <1>4, <1>6 DEF AnswerInv, Answered, SearchKinds
<1>7. CASE result[r] = None /\ kind[r] = "open"
  <2> DEFINE link == arg[r]
  <2>1. /\ LeadsTo(Wanted(t)) = LeadsTo(link[1])
        /\ n = Body => link[2] <= 0
        /\ n \notin {Page, Body} => link[2] > 0 /\ n = link[2] - 1
    BY <1>1, <1>4, <1>7 DEF ThreadInv, OpenWalk, OnWay
  <2>2. Wanted(t) \in Key /\ n \in Int /\ d = DocOf(Wanted(t))
          /\ None \notin Key
    BY <1>1, UsedId, SearchAssumption
  <2>3. link[2] \in Int
    BY <1>2, <1>7, RankingsAssumption DEF RequestsInv, TasksInv
  <2>4. a = Opens(link)
    <3>1. CASE d = None
      <4>1. Wanted(t) \notin Doc
        BY <2>2, <3>1 DEF DocOf
      <4>2. LeadsTo(link[1]) = None
        BY <1>1, <2>1, <3>1, <4>1 DEF LeadsTo
      <4> QED
        BY <3>1, <4>2 DEF Opens
    <3>2. CASE d # None
      <4>1. d \in Doc /\ LeadsTo(link[1]) = d
        BY <2>1, <2>2, <3>2 DEF DocOf, LeadsTo
      <4>2. n # Page
        BY <1>1, <3>2
      <4>3. chunks = Chunks[d]
        BY <1>1, <3>2, <4>2 DEF ThreadInv, Carries
      <4>4. CASE n = Body
        BY <2>1, <3>2, <4>1, <4>3, <4>4 DEF Opens
      <4>5. CASE n # Body
        <5>1. link[2] > 0 /\ n = link[2] - 1 /\ n + 1 = link[2]
          BY <2>1, <2>3, <4>2, <4>5
        <5>2. Len(Chunks[d]) \in Nat
          BY <4>1, ChunksTyped
        <5>3. n >= Len(Chunks[d]) <=> link[2] > Len(Chunks[d])
          BY <2>2, <2>3, <5>1, <5>2
        <5>4. ~(link[2] <= 0)
          BY <2>3, <5>1
        <5>5. Opens(link) = IF link[2] > Len(Chunks[d]) THEN NotFound
                            ELSE <<d, Chunks[d][link[2]]>>
          BY <3>2, <4>1, <5>4 DEF Opens
        <5>6. a = IF n >= Len(Chunks[d]) THEN NotFound
                  ELSE <<d, Chunks[d][n + 1]>>
          BY <3>2, <4>3, <4>5
        <5> QED
          BY <5>1, <5>3, <5>5, <5>6
      <4> QED
        BY <4>4, <4>5
    <3> QED
      BY <3>1, <3>2
  <2>5. result'[r] = Opens(link) /\ arg' = arg
    BY <1>1, <1>3, <1>7, <2>4
  <2>6. Opens(arg[r])' = Opens(link)
    BY <2>5 DEF Opens, LeadsTo
  <2> QED
    BY <1>1, <1>7, <2>5, <2>6 DEF AnswerInv, Answered, SearchKinds
<1> QED
  BY <1>1, <1>4, <1>5, <1>6, <1>7

-----------------------------------------------------------------------------
(* All steps.                                                              *)

SearchInv == RequestsInv /\ ThreadsInv /\ AnswersInv

(* The other threads of a step of t.                                       *)
LEMMA OthersKeep ==
  ASSUME JobsShaped, RequestsInv, ThreadsInv, NEW t \in Actor, Moves(t),
         ThreadInv(t)', arg' = arg,
         \A u \in Actor \ {t} : job[u].at \notin Before =>
            ranked'[job[u].req] = ranked[job[u].req]
  PROVE  ThreadsInv'
<1>1. \A u \in Actor \ {t} : job'[u] = job[u]
  BY JobChanges DEF Moves
<1>2. ASSUME NEW u \in Actor, u # t PROVE ThreadInv(u)'
  <2>1. Steady(u)
    BY <1>1, <1>2 DEF Steady
  <2> QED
    BY <2>1, SteadyKeeps DEF ThreadsInv
<1> QED
  BY <1>2 DEF ThreadsInv

(* A step in the middle of a task that leaves the requests alone.          *)
LEMMA MiddleKeeps ==
  ASSUME IInv, SearchInv, NEW t \in Actor, Continues(t), ThreadInv(t)',
         UNCHANGED <<text, vec, ranked>>
  PROVE  SearchInv'
<1>1. JobsShaped /\ RequestsInv /\ ThreadsInv
  BY DEF IInv, SearchInv
<1>2. TasksInv'
  BY <1>1, ContinuesKeeps DEF RequestsInv
<1>3. ReqsShaped' /\ RankedInv'
  BY <1>1 DEF RequestsInv, ReqsShaped, RankedInv, Continues
<1>4. ThreadsInv'
  BY <1>1, OthersKeep DEF Continues
<1>5. AnswersInv'
  <2> SUFFICES ASSUME NEW r \in Request PROVE AnswerInv(r)'
    BY DEF AnswersInv
  <2> QED
    BY SameAnswer DEF SearchInv, AnswersInv, Continues
<1> QED
  BY <1>2, <1>3, <1>4, <1>5 DEF SearchInv, RequestsInv

(* The last step of a task.                                                *)
LEMMA EndKeeps ==
  ASSUME IInv, SearchInv, NEW t \in Actor, Ends(t),
         NEW r, r = job[t].req, AnswerInv(r)',
         DOMAIN result' = Request,
         \A s \in Request \ {r} : result'[s] = result[s],
         ReqsShaped', RankedInv'
  PROVE  SearchInv'
<1>1. JobsShaped /\ RequestsInv /\ ThreadsInv
  BY DEF IInv, SearchInv
<1>2. TasksInv'
  BY <1>1, EndsKeeps DEF RequestsInv, IInv, TypeOK
<1>3. ThreadInv(t)'
  BY BeforeKeeps DEF Ends, Idle, Before
<1>4. ThreadsInv'
  BY <1>1, <1>3, OthersKeep DEF Ends
<1>5. AnswersInv'
  <2> SUFFICES ASSUME NEW s \in Request PROVE AnswerInv(s)'
    BY DEF AnswersInv
  <2>1. CASE s = r
    BY <2>1
  <2>2. CASE s # r
    BY <2>2, SameAnswer DEF SearchInv, AnswersInv, Ends
  <2> QED
    BY <2>1, <2>2
<1> QED
  BY <1>2, <1>4, <1>5 DEF SearchInv, RequestsInv

LEMMA SearchInvInit == Init => SearchInv
<1> SUFFICES ASSUME Init PROVE SearchInv
  OBVIOUS
<1>0. None \notin Kinds /\ \A t \in Actor : job[t] = Idle
  BY SearchAssumption DEF Init
<1>1. \A t \in Actor : ~Alive(t)
  BY <1>0 DEF Alive, Idle
<1>2. \A r \in Request : kind[r] = None /\ result[r] = None /\ ranked[r] = None
                         /\ text[r] = None /\ vec[r] = None
  BY DEF Init
<1>3. TasksInv
  <2>1. None # "open"
    BY <1>0 DEF Kinds
  <2> QED
    BY <1>1, <1>2, <2>1 DEF Init, TasksInv
<1>4. ReqsShaped
  BY DEF Init, ReqsShaped
<1>5. RankedInv
  BY <1>2 DEF RankedInv
<1>6. ThreadsInv
  <2> SUFFICES ASSUME NEW t \in Actor PROVE ThreadInv(t)
    BY DEF ThreadsInv
  <2>1. /\ job[t].at = "idle" /\ job[t].todo = <<>> /\ job[t].out = <<>>
        /\ job[t].chunks = <<>> /\ job[t].then = "use"
    BY <1>0 DEF Idle
  <2>2. Carries(t)
    BY <2>1, EmptySeq DEF Carries, Before, OnWay
  <2>3. OutInv(t) /\ OpenWalk(t) /\ Walking(t)
    BY <2>1, EmptySeq DEF OutInv, OpenWalk, Walking, Before, OnWay
  <2> QED
    BY <2>2, <2>3 DEF ThreadInv
<1>7. AnswersInv
  BY <1>2 DEF AnswersInv, AnswerInv, Answered
<1> QED
  BY <1>3, <1>4, <1>5, <1>6, <1>7 DEF SearchInv, RequestsInv

-----------------------------------------------------------------------------
(* Entry steps, and the start of a task.                                   *)

LEMMA EntryGoes ==
  ASSUME IInv, SearchInv, NEW t \in Actor,
         \/ Ensure(t) \/ Lock(t) \/ Load(t) \/ SetFlag(t) \/ GetClient(t)
  PROVE  SearchInv'
<1>1. JobsShaped /\ ThreadInv(t)
  BY DEF IInv, SearchInv, ThreadsInv
<1>2. /\ job[t].at \in Before \ {"idle", "run"} /\ UNCHANGED <<reqVars, queue>>
      /\ \E place \in Before \ {"idle"} : Goto(t, place)
  BY DEF Ensure, Lock, Load, SetFlag, GetClient, Before
<1>3. PICK place \in Before \ {"idle"} : Goto(t, place)
  BY <1>2
<1>4. Looks(t, place, job[t].doc, job[t].then)
  BY <1>1, <1>3, GotoFields
<1>5. Continues(t) /\ UNCHANGED <<text, vec, ranked>>
  BY <1>2, <1>3, <1>4 DEF Looks, Continues, Alive, reqVars
<1>6. ThreadInv(t)'
  BY <1>1, <1>2, <1>3, <1>4, BeforeKeeps DEF Looks, ThreadInv, Carries
<1> QED
  BY <1>5, <1>6, MiddleKeeps

LEMMA TakeGoes ==
  ASSUME IInv, SearchInv, NEW t \in Actor, Take(t) PROVE SearchInv'
<1>1. JobsShaped /\ RequestsInv /\ ThreadsInv /\ AnswersInv
        /\ UNCHANGED reqVars
      /\ ~Alive(t)
  BY DEF IInv, SearchInv, Take, Alive
<1>2. PICK q \in queue :
           /\ queue' = queue \ {q}
           /\ Moves(t)
           /\ job'[t].req = q[1] /\ job'[t].task = q[2]
           /\ job'[t].at \in {"ensure", "run"}
           /\ job'[t].todo = <<>> /\ job'[t].out = <<>>
           /\ job'[t].chunks = <<>> /\ job'[t].then = "use"
  BY <1>1, TakeFields
<1>3. TasksInv'
  BY <1>1, <1>2, TakeTasks DEF RequestsInv, IInv, TypeOK, reqVars
<1>4. ThreadInv(t)'
  BY <1>2, BeforeKeeps DEF Before
<1>5. ThreadsInv'
  BY <1>1, <1>2, <1>4, OthersKeep DEF reqVars
<1>6. ReqsShaped' /\ RankedInv'
  BY <1>1 DEF RequestsInv, ReqsShaped, RankedInv, reqVars
<1>7. AnswersInv'
  <2> SUFFICES ASSUME NEW r \in Request PROVE AnswerInv(r)'
    BY DEF AnswersInv
  <2> QED
    BY <1>1, SameAnswer DEF AnswersInv, reqVars
<1> QED
  BY <1>3, <1>5, <1>6, <1>7 DEF SearchInv, RequestsInv

LEMMA WentContinues ==
  ASSUME NEW t \in Actor, NEW out, NEW todo, Went(t, out, todo), Alive(t),
         UNCHANGED <<kind, arg, result, queue>>
  PROVE  Continues(t)
  BY DEF Went, Continues

LEMMA StaysContinues ==
  ASSUME NEW t \in Actor, Stays(t), Alive(t), job'[t].at # "idle",
         UNCHANGED <<kind, arg, result, queue>>
  PROVE  Continues(t)
  BY DEF Stays, Continues

(* Steps that start a task, or go on to its next id.                       *)
LEMMA StartGoes ==
  ASSUME IInv, SearchInv, NEW t \in Actor,
         \/ Hydrate(t) \/ KeywordSearch(t) \/ TitleSearch(t) \/ Open(t)
         \/ Sample(t) \/ UseLine(t) \/ ByTitle(t) \/ WholePage(t)
  PROVE  SearchInv'
<1>1. JobsShaped /\ RequestsInv /\ ThreadInv(t)
  BY DEF IInv, SearchInv, ThreadsInv
<1>2. Alive(t) /\ UNCHANGED reqVars /\ UNCHANGED queue
  BY DEF Hydrate, KeywordSearch, TitleSearch, Open, Sample, UseLine, ByTitle,
         WholePage, Running, Alive
<1>3. ThreadInv(t)' /\ \E out, todo : Went(t, out, todo)
  BY <1>1, HydrateKeeps, KeywordKeeps, TitleKeeps, OpenKeeps, SampleKeeps,
     UseLineKeeps, ByTitleKeeps, WholePageKeeps
<1>4. Continues(t)
  BY <1>2, <1>3, WentContinues DEF reqVars
<1> QED
  BY <1>2, <1>3, <1>4, MiddleKeeps DEF reqVars

LEMMA RandomGoes ==
  ASSUME IInv, SearchInv, NEW t \in Actor, Random(t) PROVE SearchInv'
<1>1. JobsShaped /\ ThreadInv(t)
  BY DEF IInv, SearchInv, ThreadsInv
<1>2. Alive(t) /\ UNCHANGED reqVars /\ UNCHANGED queue
  BY DEF Random, Running, Alive
<1>3. /\ ThreadInv(t)' /\ Moves(t) /\ job'[t].at = "chunkget"
      /\ job'[t].req = job[t].req /\ job'[t].task = job[t].task
  BY <1>1, RandomKeeps
<1>4. Continues(t)
  BY <1>2, <1>3 DEF Continues, reqVars
<1> QED
  BY <1>2, <1>3, <1>4, MiddleKeeps DEF reqVars

(* A task that looks up an id has one of these.                            *)
LEMMA WantedIs ==
  ASSUME IInv, SearchInv, NEW t \in Actor, OnWay(job[t])
  PROVE  Wanted(t) \in Key
<1>1. /\ job[t].todo # <<>> /\ job[t].todo \in Seq(Stock(job[t].task))
  BY DEF SearchInv, ThreadsInv, ThreadInv, Carries
<1>2. job[t].todo[1] \in Stock(job[t].task)
  BY <1>1, FirstIn
<1>3. \A c \in Stock(job[t].task) : c[1] \in Key
  BY DEF Stock, Hits, GoodHits, Key
<1> QED
  BY <1>2, <1>3 DEF Wanted

LEMMA ProcessIs == ASSUME NEW t \in Actor PROVE ProcessOf(t) \in Process
  BY DEF ProcessOf, Process

LEMMA LookupGoes ==
  ASSUME IInv, SearchInv, NEW t \in Actor,
         DocGet(t) \/ DocPut(t) \/ ChunkGet(t) \/ ChunkPut(t)
  PROVE  SearchInv'
<1>1. /\ JobsShaped /\ ThreadInv(t) /\ EntriesTruthful
           /\ ProcessOf(t) \in Process
      /\ job[t].then \in {"docput", "sample", "use"}
  BY ProcessIs DEF IInv, SearchInv, ThreadsInv, TypeOK
<1>2. Alive(t) /\ UNCHANGED reqVars /\ UNCHANGED queue
  BY DEF DocGet, DocPut, ChunkGet, ChunkPut, Alive
<1>r. UNCHANGED <<arg, ranked>>
  BY <1>2 DEF reqVars
<1>3. ThreadInv(t)' /\ Stays(t) /\ job'[t].at # "idle"
  <2>1. CASE DocGet(t)
    <3> DEFINE cached == docCache[ProcessOf(t)][Wanted(t)]
    <3>1. job[t].at = "docget"
      BY <2>1 DEF DocGet
    <3>2. Wanted(t) \in Key
      BY <3>1, WantedIs DEF OnWay
    <3>3. CASE cached # Absent
      <4>1. Found(t, cached)
        BY <2>1, <3>3 DEF DocGet
      <4>2. cached = DocOf(Wanted(t))
        BY <1>1, <3>2, <3>3 DEF EntriesTruthful
      <4> QED
        BY <1>1, <1>r, <3>1, <4>1, <4>2, FoundKeeps
    <3>4. CASE cached = Absent
      BY <1>1, <2>1, <3>4, MissKeeps
    <3> QED
      BY <3>3, <3>4
  <2>2. CASE DocPut(t)
    <3>1. job[t].at = "docput" /\ Found(t, job[t].doc)
      BY <2>2 DEF DocPut
    <3>2. job[t].doc = DocOf(Wanted(t))
      BY <1>1, <3>1 DEF ThreadInv, Carries, OnWay
    <3> QED
      BY <1>1, <1>r, <3>1, <3>2, FoundKeeps
  <2>3. CASE ChunkGet(t)
    <3> DEFINE cached == chunkCache[ProcessOf(t)][job[t].doc]
    <3>1. job[t].at = "chunkget" /\ job[t].doc \in Doc
      BY <1>1, <2>3 DEF ChunkGet, ThreadInv, Carries
    <3>2. CASE cached # Absent
      <4>1. GotChunks(t, cached) /\ cached = Chunks[job[t].doc]
        BY <1>1, <2>3, <3>1, <3>2 DEF ChunkGet, EntriesTruthful
      <4> QED
        BY <1>1, <1>r, <3>1, <4>1, ChunksKeeps
    <3>3. CASE cached = Absent
      <4>1. Goto(t, "chunkput")
        BY <2>3, <3>3 DEF ChunkGet
      <4> QED
        BY <1>1, <1>r, <3>1, <4>1, AskKeeps
    <3> QED
      BY <3>2, <3>3
  <2>4. CASE ChunkPut(t)
    <3>1. job[t].at = "chunkput" /\ GotChunks(t, Chunks[job[t].doc])
      BY <2>4 DEF ChunkPut
    <3> QED
      BY <1>1, <1>r, <3>1, ChunksKeeps
  <2> QED
    BY <2>1, <2>2, <2>3, <2>4
<1>4. Continues(t)
  BY <1>2, <1>3, StaysContinues DEF reqVars
<1> QED
  BY <1>2, <1>3, <1>4, MiddleKeeps DEF reqVars

LEMMA VectorGoes ==
  ASSUME IInv, SearchInv, NEW t \in Actor, VectorSearch(t) PROVE SearchInv'
<1> DEFINE r == job[t].req
<1>1. JobsShaped /\ RequestsInv /\ ThreadsInv /\ ThreadInv(t) /\ AnswersInv
  BY DEF IInv, SearchInv, ThreadsInv
<1>2. /\ Alive(t) /\ job[t].task = "vector"
      /\ UNCHANGED <<kind, arg, result, text, vec, queue>>
  BY DEF VectorSearch, Running, Alive
<1>3. /\ ThreadInv(t)' /\ \E todo : Went(t, <<>>, todo)
      /\ \E s \in Seq(Hits) : Distinct(s) /\ ranked' = [ranked EXCEPT ![r] = s]
  BY <1>1, VectorKeeps
<1>4. PICK s \in Seq(Hits) : Distinct(s) /\ ranked' = [ranked EXCEPT ![r] = s]
  BY <1>3
<1>5. r \in Request /\ kind[r] = "vector" /\ result[r] = None /\ kind[r] # None
  BY <1>1, <1>2, TaskKinds, SearchAssumption
<1>6. s # None
  BY SearchAssumption DEF Hits
<1>7. \A q \in Request : ranked'[q] = IF q = r THEN s ELSE ranked[q]
  BY <1>1, <1>4 DEF RequestsInv, ReqsShaped
<1>8. Continues(t)
  BY <1>2, <1>3, WentContinues
<1>9. TasksInv'
  <2>1. \A q \in Request : ranked[q] # None => ranked'[q] # None
    BY <1>6, <1>7
  <2>2. \A q \in Request : kind[q] = None => ranked'[q] = ranked[q]
    BY <1>5, <1>7
  <2> QED
    BY <1>1, <1>8, <2>1, <2>2, ContinuesKeeps DEF RequestsInv
<1>10. ReqsShaped' /\ RankedInv'
  <2>1. ReqsShaped'
    BY <1>1, <1>2, <1>4 DEF RequestsInv, ReqsShaped
  <2>2. RankedInv'
    BY <1>1, <1>2, <1>4, <1>7 DEF RequestsInv, RankedInv
  <2> QED
    BY <2>1, <2>2
<1>11. ASSUME NEW u \in Actor, u # t, job[u].at \notin Before
       PROVE  ranked'[job[u].req] = ranked[job[u].req]
  <2>1. Alive(u)
    BY <1>11 DEF Alive, Before
  <2>2. job[u].req \in Request
    BY <1>1, <2>1, TaskKinds
  <2>3. job[u].req # r
    <3> SUFFICES ASSUME job[u].req = r PROVE FALSE
      OBVIOUS
    <3>1. job[u].task = "vector"
      BY <1>1, <1>5, <2>1, TaskKinds
    <3>2. TaskOf(u) = TaskOf(t)
      BY <1>2, <3>1 DEF TaskOf
    <3> QED
      BY <1>1, <1>2, <1>11, <2>1, <3>2 DEF RequestsInv, TasksInv
  <2> QED
    BY <1>7, <2>2, <2>3
<1>12. ThreadsInv'
  BY <1>1, <1>2, <1>3, <1>8, <1>11, OthersKeep DEF Continues
<1>13. AnswersInv'
  <2> SUFFICES ASSUME NEW q \in Request PROVE AnswerInv(q)'
    BY DEF AnswersInv
  <2>1. q # r => ranked'[q] = ranked[q]
    BY <1>7
  <2>2. q = r => result[q] \in {None, Failed}
    BY <1>5
  <2> HIDE DEF r
  <2> QED
    BY <1>1, <1>2, <2>1, <2>2, SameAnswer DEF AnswersInv
<1> QED
  BY <1>9, <1>10, <1>12, <1>13 DEF SearchInv, RequestsInv

-----------------------------------------------------------------------------
(* The last steps of tasks.                                                *)

LEMMA CandidatesGo ==
  ASSUME IInv, SearchInv, NEW t \in Actor, TextCandidates(t)
         \/ VecCandidates(t)
  PROVE  SearchInv'
<1>1. JobsShaped /\ RequestsInv /\ AnswersInv
  BY DEF IInv, SearchInv
<1>2. /\ job' = [job EXCEPT ![t] = Idle] /\ Alive(t)
      /\ UNCHANGED <<kind, arg, result, ranked, queue>>
  BY DEF TextCandidates, VecCandidates, Running, Alive
<1>3. Ends(t)
  BY <1>1, <1>2, IdleFields DEF Ends
<1>4. PICK r \in Request : r = job[t].req
  BY <1>1, <1>2, TaskKinds
<1>5. Fetch \in Nat
  BY FusionAssumption DEF Fetch
<1>6. ReqsShaped' /\ RankedInv'
  <2>1. CASE TextCandidates(t)
    <3>1. PICK m \in Matches :
            text' = [text EXCEPT ![r] = KeywordHits(m, Fetch)]
      BY <1>4, <2>1 DEF TextCandidates
    <3>2. m \in Seq(Hits)
      <4>1. m \in Seq(Doc \X Nat)
        BY RankingsAssumption
      <4>2. Len(m) \in Nat /\ m \in [1 .. Len(m) -> Hits]
        BY <4>1, LenProperties DEF Hits, Key
      <4> QED
        BY <4>2, SeqOfInterval
    <3>3. KeywordHits(m, Fetch) \in Seq(Hits)
      BY <1>5, <3>2, KeywordHitsTyped
    <3>4. vec' = vec /\ ranked' = ranked
      BY <2>1 DEF TextCandidates
    <3> QED
      BY <1>1, <1>2, <3>1, <3>3, <3>4 DEF RequestsInv, ReqsShaped, RankedInv
  <2>2. CASE VecCandidates(t)
    <3>1. PICK n \in Neighbours : vec' = [vec EXCEPT ![r] = FirstOf(n, Fetch)]
      BY <1>4, <2>2 DEF VecCandidates
    <3>2. FirstOf(n, Fetch) \in Seq(Hits)
      BY <1>5, RankingsAssumption, FirstOfIs DEF Hits
    <3>3. text' = text /\ ranked' = ranked
      BY <2>2 DEF VecCandidates
    <3> QED
      BY <1>1, <1>2, <3>1, <3>2, <3>3 DEF RequestsInv, ReqsShaped, RankedInv
  <2> QED
    BY <2>1, <2>2
<1>7. AnswerInv(r)'
  BY <1>1, <1>2, SameAnswer DEF AnswersInv
<1> QED
  BY <1>1, <1>2, <1>3, <1>4, <1>6, <1>7, EndKeeps DEF RequestsInv, ReqsShaped

LEMMA RaiseGoes ==
  ASSUME IInv, SearchInv, NEW t \in Actor, Alive(t), Raise(t) PROVE SearchInv'
<1>1. JobsShaped /\ RequestsInv /\ AnswersInv
  BY DEF IInv, SearchInv
<1>2. /\ job' = [job EXCEPT ![t] = Idle]
      /\ UNCHANGED <<kind, arg, text, vec, ranked, queue>>
  BY DEF Raise
<1>3. Ends(t)
  BY <1>1, <1>2, IdleFields DEF Ends
<1>4. PICK r \in Request : r = job[t].req
  BY <1>1, TaskKinds
<1>5. result' = [result EXCEPT ![r] = IF @ = None THEN Failed ELSE @]
  BY <1>4 DEF Raise
<1>6. /\ DOMAIN result' = Request
      /\ \A s \in Request \ {r} : result'[s] = result[s]
      /\ result'[r] = IF result[r] = None THEN Failed ELSE result[r]
  BY <1>1, <1>5 DEF RequestsInv, ReqsShaped
<1>7. ReqsShaped' /\ RankedInv'
  BY <1>1, <1>2, <1>6 DEF RequestsInv, ReqsShaped, RankedInv
<1>8. AnswerInv(r)'
  <2>1. CASE result[r] = None
    BY <1>6, <2>1, NoAnswer
  <2>2. CASE result[r] # None
    BY <1>1, <1>2, <1>6, <2>2, SameAnswer DEF AnswersInv
  <2> QED
    BY <2>1, <2>2
<1> QED
  BY <1>3, <1>4, <1>6, <1>7, <1>8, EndKeeps

LEMMA AnswerGoes ==
  ASSUME IInv, SearchInv, NEW t \in Actor, Opened(t)
         \/ Finish(t) PROVE SearchInv'
<1>1. JobsShaped /\ RequestsInv /\ AnswersInv /\ ThreadInv(t)
  BY DEF IInv, SearchInv, ThreadsInv
<1>2. /\ job' = [job EXCEPT ![t] = Idle] /\ Alive(t)
      /\ UNCHANGED <<kind, arg, text, vec, ranked, queue>>
  BY DEF Opened, Finish, Answer, Alive
<1>3. Ends(t)
  BY <1>1, <1>2, IdleFields DEF Ends
<1>4. PICK r \in Request : r = job[t].req
  BY <1>1, <1>2, TaskKinds
<1>5. \E a : result' = [result EXCEPT ![r] = IF @ = None THEN a ELSE @]
  BY <1>4 DEF Opened, Finish, Answer
<1>6. /\ DOMAIN result' = Request
      /\ \A s \in Request \ {r} : result'[s] = result[s]
  BY <1>1, <1>5 DEF RequestsInv, ReqsShaped
<1>7. ReqsShaped' /\ RankedInv'
  BY <1>1, <1>2, <1>6 DEF RequestsInv, ReqsShaped, RankedInv
<1>8. AnswerInv(r)'
  BY <1>1, <1>4, FinishAnswers, OpenedAnswers DEF AnswersInv
<1> QED
  BY <1>3, <1>4, <1>6, <1>7, <1>8, EndKeeps

-----------------------------------------------------------------------------
(* Steps of the server.                                                    *)

LEMMA SubmitGoes ==
  ASSUME IInv, SearchInv, NEW r \in Request, Submit(r) PROVE SearchInv'
<1>1. RequestsInv /\ ThreadsInv /\ AnswersInv /\ None \notin Kinds
  BY SearchAssumption DEF SearchInv
<1>2. PICK k \in Kinds :
       /\ kind' = [kind EXCEPT ![r] = k]
       /\ queue' = queue \cup (IF k = "rrf" THEN {<<r, "text">>, <<r, "vec">>}
                                            ELSE {<<r, k>>})
       /\ \E a \in IF k = "open" THEN Links ELSE {arg[r]} :
            arg' = [arg EXCEPT ![r] = a]
  BY DEF Submit
<1>3. /\ kind[r] = None /\ result[r] = None /\ ranked[r] = None
      /\ UNCHANGED <<result, text, vec, ranked, job>>
  BY <1>1 DEF Submit, RequestsInv, TasksInv
<1>4. \A q \in Request : /\ kind'[q] = IF q = r THEN k ELSE kind[q]
                         /\ q # r => arg'[q] = arg[q]
  BY <1>1, <1>2 DEF IInv, TypeOK, RequestsInv, ReqsShaped
<1>5. k = "open" => arg'[r] \in Links
  BY <1>1, <1>2 DEF RequestsInv, ReqsShaped
<1>6. \A q, task : Pending(q, task) => q # r /\ Pending(q, task)'
  BY <1>1, <1>3, <1>4 DEF Pending
<1>7. TasksInv'
  <2> DEFINE tasks == IF k = "rrf" THEN {<<r, "text">>, <<r, "vec">>}
                                   ELSE {<<r, k>>}
  <2>1. \A q \in tasks : /\ q = <<r, q[2]>> /\ q[2] # "hydrate"
                         /\ q[2] \in TasksOf(k)
    BY DEF TasksOf, Kinds, SearchKinds
  <2>2. kind'[r] = k /\ result'[r] = None
    BY <1>3, <1>4
  <2> HIDE DEF tasks
  <2>3. \A q \in tasks : q = <<r, q[2]>> /\ Pending(r, q[2])'
          /\ ~Pending(r, q[2])
    BY <1>6, <2>1, <2>2 DEF Pending
  <2>4. \A s \in Request : /\ kind'[s] = None
                              => result'[s] = None /\ ranked'[s] = None
                           /\ kind'[s] = "open" => arg'[s] \in Links
    BY <1>1, <1>3, <1>4, <1>5 DEF RequestsInv, TasksInv
  <2>5. queue' = queue \cup tasks
    BY <1>2 DEF tasks
  <2> QED
    BY <1>1, <1>3, <1>6, <2>3, <2>4, <2>5, MoreTasks DEF RequestsInv
<1>8. ReqsShaped' /\ RankedInv'
  BY <1>1, <1>2, <1>3 DEF RequestsInv, ReqsShaped, RankedInv
<1>9. ASSUME NEW u \in Actor PROVE ThreadInv(u)'
  <2>1. job[u].at \notin Before => job[u].req \in Request /\ job[u].req # r
    <3> SUFFICES ASSUME job[u].at \notin Before
                 PROVE  job[u].req \in Request /\ job[u].req # r
      OBVIOUS
    <3>1. Alive(u)
      BY DEF Alive, Before
    <3> QED
      BY <1>1, <1>3, <3>1, TaskKinds
  <2>2. Steady(u)
    BY <1>3, <1>4, <2>1 DEF Steady
  <2> QED
    BY <1>1, <2>2, SteadyKeeps DEF ThreadsInv
<1>10. AnswersInv'
  <2> SUFFICES ASSUME NEW q \in Request PROVE AnswerInv(q)'
    BY DEF AnswersInv
  <2>1. CASE q = r
    BY <1>3, <2>1, NoAnswer
  <2>2. CASE q # r
    BY <1>1, <1>3, <1>4, <2>2, SameAnswer DEF AnswersInv
  <2> QED
    BY <2>1, <2>2
<1> QED
  BY <1>7, <1>8, <1>9, <1>10 DEF SearchInv, RequestsInv, ThreadsInv

LEMMA FuseGoes ==
  ASSUME IInv, SearchInv, NEW r \in Request, Fuse(r) PROVE SearchInv'
<1>1. RequestsInv /\ ThreadsInv /\ AnswersInv
  BY DEF SearchInv
<1>2. PICK s \in Fused(Ranks(text[r]), Ranks(vec[r])) :
        ranked' = [ranked EXCEPT ![r] = s]
  BY DEF Fuse
<1>3. /\ kind[r] = "rrf" /\ result[r] = None /\ ranked[r] = None
      /\ text[r] # None /\ vec[r] # None
      /\ queue' = queue \cup {<<r, "hydrate">>}
      /\ UNCHANGED <<kind, arg, result, text, vec, job>>
  BY DEF Fuse
<1>4. text[r] \in Seq(Hits) /\ vec[r] \in Seq(Hits)
  BY <1>1, <1>3 DEF RequestsInv, RankedInv
<1>5. s \in Seq(Hits) /\ Distinct(s) /\ s # None
  BY <1>4, FusedTyped, SearchAssumption DEF Hits
<1>6. \A q \in Request : ranked'[q] = IF q = r THEN s ELSE ranked[q]
  BY <1>1, <1>2 DEF RequestsInv, ReqsShaped
<1>7. TasksInv'
  <2>1. \A q, task : Pending(q, task) => Pending(q, task)'
    BY <1>3, <1>5, <1>6 DEF Pending
  <2>2. Pending(r, "hydrate")' /\ ~Pending(r, "hydrate")
    BY <1>3, <1>5, <1>6 DEF Pending, TasksOf, Kinds, SearchKinds
  <2>3. \A q \in Request : /\ kind'[q] = None
                              => result'[q] = None /\ ranked'[q] = None
                           /\ kind'[q] = "open" => arg'[q] \in Links
    <3>1. kind[r] # None
      BY <1>3, SearchAssumption DEF Kinds, SearchKinds
    <3> QED
      BY <1>1, <1>3, <1>6, <3>1 DEF RequestsInv, TasksInv
  <2> DEFINE tasks == {<<r, "hydrate">>}
  <2>4. \A q \in tasks : q = <<r, q[2]>> /\ Pending(r, q[2])'
          /\ ~Pending(r, q[2])
    BY <2>2
  <2>5. queue' = queue \cup tasks /\ UNCHANGED job
    BY <1>3
  <2> HIDE DEF tasks
  <2> QED
    BY <1>1, <2>1, <2>3, <2>4, <2>5, MoreTasks DEF RequestsInv
<1>8. ReqsShaped' /\ RankedInv'
  BY <1>1, <1>2, <1>3, <1>5, <1>6 DEF RequestsInv, ReqsShaped, RankedInv
<1>9. ASSUME NEW u \in Actor PROVE ThreadInv(u)'
  <2>1. job[u].at \notin Before => job[u].req \in Request /\ job[u].req # r
    <3> SUFFICES ASSUME job[u].at \notin Before
                 PROVE  job[u].req \in Request /\ job[u].req # r
      OBVIOUS
    <3>1. Alive(u) /\ job[u].task \notin {"text", "vec"}
      BY <1>1 DEF Alive, Before, ThreadsInv, ThreadInv, Carries
    <3> QED
      BY <1>1, <1>3, <3>1, TaskKinds
  <2>2. Steady(u)
    BY <1>3, <1>6, <2>1 DEF Steady
  <2> QED
    BY <1>1, <2>2, SteadyKeeps DEF ThreadsInv
<1>10. AnswersInv'
  <2> SUFFICES ASSUME NEW q \in Request PROVE AnswerInv(q)'
    BY DEF AnswersInv
  <2>1. CASE q = r
    BY <1>3, <2>1, NoAnswer
  <2>2. CASE q # r
    BY <1>1, <1>3, <1>6, <2>2, SameAnswer DEF AnswersInv
  <2> QED
    BY <2>1, <2>2
<1> QED
  BY <1>7, <1>8, <1>9, <1>10 DEF SearchInv, RequestsInv, ThreadsInv

LEMMA SearchInvNext == IInv /\ SearchInv /\ [Next]_vars => SearchInv'
<1> SUFFICES ASSUME IInv, SearchInv, [Next]_vars PROVE SearchInv'
  OBVIOUS
<1>1. CASE UNCHANGED vars
  <2>1. RequestsInv /\ ThreadsInv /\ AnswersInv /\ UNCHANGED reqVars
        /\ UNCHANGED <<queue, job>>
    BY <1>1 DEF SearchInv, vars
  <2>2. TasksInv'
    BY <2>1 DEF RequestsInv, TasksInv, Pending, Alive, TaskOf, reqVars
  <2>3. ReqsShaped' /\ RankedInv'
    BY <2>1 DEF RequestsInv, ReqsShaped, RankedInv, reqVars
  <2>4. ThreadsInv'
    <3> SUFFICES ASSUME NEW u \in Actor PROVE ThreadInv(u)'
      BY DEF ThreadsInv
    <3>1. Steady(u)
      BY <2>1 DEF Steady, reqVars
    <3> QED
      BY <2>1, <3>1, SteadyKeeps DEF ThreadsInv
  <2>5. AnswersInv'
    <3> SUFFICES ASSUME NEW q \in Request PROVE AnswerInv(q)'
      BY DEF AnswersInv
    <3> QED
      BY <2>1, SameAnswer DEF AnswersInv, reqVars
  <2> QED
    BY <2>2, <2>3, <2>4, <2>5 DEF SearchInv, RequestsInv
<1>2. CASE \E r \in Request : Submit(r) \/ Fuse(r)
  BY <1>2, SubmitGoes, FuseGoes
<1>3. ASSUME NEW t \in Actor, Take(t) \/ Step(t) PROVE SearchInv'
  <2>1. CASE Take(t)
    BY <2>1, TakeGoes
  <2>2. CASE Ensure(t) \/ Lock(t) \/ Load(t) \/ SetFlag(t) \/ GetClient(t)
    BY <2>2, EntryGoes
  <2>3. CASE LoadFails(t) \/ EmbedFails(t)
    <3>1. Alive(t) /\ Raise(t)
      BY <2>3 DEF LoadFails, EmbedFails, Running, Alive
    <3> QED
      BY <3>1, RaiseGoes
  <2>4. CASE TextCandidates(t) \/ VecCandidates(t)
    BY <2>4, CandidatesGo
  <2>5. CASE \/ Hydrate(t) \/ KeywordSearch(t) \/ TitleSearch(t) \/ Open(t)
             \/ Sample(t) \/ UseLine(t) \/ ByTitle(t) \/ WholePage(t)
    BY <2>5, StartGoes
  <2>6. CASE VectorSearch(t) \/ Random(t)
    BY <2>6, VectorGoes, RandomGoes
  <2>7. CASE DocGet(t) \/ DocPut(t) \/ ChunkGet(t) \/ ChunkPut(t)
    BY <2>7, LookupGoes
  <2>8. CASE Opened(t) \/ Finish(t)
    BY <2>8, AnswerGoes
  <2> QED
    BY <1>3, <2>1, <2>2, <2>3, <2>4, <2>5, <2>6, <2>7, <2>8 DEF Step
<1> QED
  BY <1>1, <1>2, <1>3 DEF Next

LEMMA SearchInductive == Spec => [](IInv /\ SearchInv)
<1>1. Init => IInv /\ SearchInv
  BY InitInv, SearchInvInit
<1>2. IInv /\ SearchInv /\ [Next]_vars => (IInv /\ SearchInv)'
  BY NextInv, SearchInvNext
<1> QED
  BY <1>1, <1>2, PTL DEF Spec

(* In a document that is brought back whole a chunk is there by its id when*)
(* it is there by its place.                                               *)
LEMMA WholeShows ==
  ASSUME NEW c \in Hits, c[1] \in Doc => Whole(c[1])
  PROVE  c \in Showing <=> c \in InIndex
<1>1. c \in Key \X Nat /\ c[2] \in Nat
  BY DEF Hits
<1>2. ASSUME c[1] \in Doc, c[2] < Len(Chunks[c[1]])
      PROVE  c[2] \in ToSet(Chunks[c[1]])
  <2>1. Chunks[c[1]][c[2] + 1] = c[2]
    BY <1>1, <1>2, WholeIs
  <2>2. c[2] + 1 \in DOMAIN Chunks[c[1]]
    BY <1>1, <1>2, ChunksTyped
  <2> QED
    BY <2>1, <2>2 DEF ToSet
<1>3. ASSUME c[1] \in Doc, c[2] \in ToSet(Chunks[c[1]])
      PROVE  c[2] < Len(Chunks[c[1]])
  BY <1>3, WholeHas
<1> QED
  BY <1>1, <1>2, <1>3, HitIn

(* What a thread holds between one cache and the next is what the index    *)
(* answers, for any number of threads, whatever is evicted meanwhile.      *)
THEOREM ThreadsHoldTheIndex == Spec => []CachesTruthful
<1>1. IInv /\ SearchInv => CachesTruthful
  <2> SUFFICES ASSUME IInv, SearchInv PROVE CachesTruthful
    OBVIOUS
  <2>1. ASSUME NEW t \in Actor
        PROVE  /\ job[t].at \in {"docput", "use"} /\ job[t].todo # <<>>
                    /\ job[t].task # "title"
                  => job[t].doc = DocOf(Wanted(t))
               /\ job[t].chunks # <<>> => job[t].chunks = Chunks[job[t].doc]
    BY DEF SearchInv, ThreadsInv, ThreadInv, Carries, OnWay
  <2> QED
    BY <2>1 DEF IInv, CachesTruthful
<1> QED
  BY <1>1, SearchInductive, PTL

(* Every link of every answer opens the chunk its line is about, and the   *)
(* line shows that chunk (make_wiki_chunk_url, parse_wikipedia_url).       *)
THEOREM LinksLeadToTheirChunks == Spec => []LinksOpen
<1>1. SearchInv => LinksOpen
  <2> SUFFICES ASSUME SearchInv, NEW r \in Request, Answered(r, SearchKinds),
                      NEW m \in DOMAIN result[r]
               PROVE  GoodLine(r, result[r][m])
    BY DEF LinksOpen, GoodLine
  <2>1. result[r] \in Seq(GoodLines(r))
    BY DEF SearchInv, AnswersInv, AnswerInv
  <2>2. m \in 1 .. Len(result[r])
    BY <2>1, LenProperties
  <2>3. result[r][m] \in GoodLines(r)
    BY <2>1, <2>2, ElementOfSeq
  <2> QED
    BY <2>3 DEF GoodLines
<1> QED
  BY <1>1, SearchInductive, PTL

(* An answer is what the indexes alone give, without caches, windows or    *)
(* other threads: for rrf as long as no more than Multiplier - 1 times     *)
(* TopK of the window are missing.                                         *)
THEOREM TheIndexAnswers == Spec => []AnswersFromIndex
<1>1. SearchInv => AnswersFromIndex
  <2> SUFFICES ASSUME SearchInv, NEW r \in Request
               PROVE  /\ Answered(r, {"rrf"}) =>
                           LET misses == {c \in ToSet(Window(ranked[r])) :
                             c \notin InIndex}
                               whole == \A c \in ToSet(ranked[r]) :
                                 c[1] \in Doc => Whole(c[1])
                           IN  whole
                             /\ Cardinality(misses) <= (Multiplier - 1) * TopK
                               => HitsOf(r) = InProcess(ranked[r], InIndex)
                      /\ Answered(r, {"vector"})
                           => HitsOf(r) = InProcess(ranked[r], InIndex)
                      /\ Answered(r, {"open"}) => result[r] = Opens(arg[r])
    BY DEF AnswersFromIndex
  <2>1. AnswerInv(r)
    BY DEF SearchInv, AnswersInv
  <2> DEFINE s == ranked[r]
             w == Window(s)
  <2>2. ASSUME Answered(r, {"rrf"}),
               \A c \in ToSet(s) : c[1] \in Doc => Whole(c[1]),
               Cardinality(Missing(w, InIndex)) <= (Multiplier - 1) * TopK
        PROVE  HitsOf(r) = InProcess(s, InIndex)
    <3>1. /\ s # None
          /\ HitsOf(r) = FirstOf(At(w, PlacesIn(w, Showing)), TopK)
      BY <2>1, <2>2 DEF AnswerInv, PlacesIn
    <3>2. s \in Seq(Hits) /\ Distinct(s)
      BY <3>1 DEF SearchInv, RequestsInv, RankedInv
    <3> HIDE DEF s
    <3>3. \A m \in DOMAIN w : w[m] \in Showing <=> w[m] \in InIndex
      <4> TAKE m \in DOMAIN w
      <4>1. m \in DOMAIN s /\ w[m] = s[m]
        BY <3>2, WindowIs
      <4>2. s[m] \in Hits /\ s[m] \in ToSet(s)
        BY <3>2, <4>1, PlacesOf DEF ToSet
      <4> HIDE DEF w
      <4> QED
        BY <2>2, <4>1, <4>2, WholeShows
    <3>4. PlacesIn(w, Showing) = PlacesIn(w, InIndex)
      BY <3>3 DEF PlacesIn
    <3>5. FirstOf(At(w, PlacesIn(w, InIndex)), TopK) = InProcess(s, InIndex)
      BY <2>2, <3>2, WindowSuffices
    <3> QED
      BY <3>1, <3>4, <3>5
  <2>3. Answered(r, {"vector"}) => HitsOf(r) = InProcess(ranked[r], InIndex)
    BY <2>1 DEF AnswerInv
  <2>4. Answered(r, {"open"}) => result[r] = Opens(arg[r])
    BY <2>1 DEF AnswerInv
  <2> QED
    BY <2>2, <2>3, <2>4 DEF Missing
<1> QED
  BY <1>1, SearchInductive, PTL
==============================================================================
