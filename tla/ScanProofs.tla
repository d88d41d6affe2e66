----------------------------- MODULE ScanProofs -----------------------------
(***************************************************************************)
(* Proofs about the integrity audit, for any rows, limits, batch sizes,    *)
(* deaths and edits.                                                       *)
(*                                                                         *)
(* The generation is correct because rows within the radius share a band   *)
(* (NearSharesBand), and what it has put so far is known by the position   *)
(* it has reached (Generated).  The comparison is correct because the near *)
(* pairs are those up to the cursor (NearUpTo), which presumes that the    *)
(* table of candidates does not grow any more once it has begun (Over).    *)
(* What a finished scan may say is a function of the context (Final).      *)
(***************************************************************************)
EXTENDS IntegrityScan, FunctionTheorems, FiniteSetTheorems, SequenceTheorems,
        WellFoundedInduction, TLAPS

-----------------------------------------------------------------------------
(* The invariant.                                                          *)

Big(k) == Cardinality(Members[rows][k]) > limits.bucket
PairsOf(k) == LoopPairs[rows][k]
BucketKeys(k) == {Keys(PairsOf(k)[n]) : n \in DOMAIN PairsOf(k)}
Last == Len(OrderedBuckets)

\* The pairs an ample table ends up with, and those that are near.
Wanted == UNION {BucketKeys(k) : k \in {j \in 1..Last : ~ Big(j)}}
IsNear(p) == Distance(p) <= limits.hamming
NearWanted == {p \in Wanted : IsNear(p)}
NoneBig(k) == \A j \in 1..k : ~ Big(j)

\* The pairs of the first k buckets are in the table.
Generated(k) == \A j \in 1..k : ~ Big(j) => BucketKeys(j) \subseteq candidates

NearUpTo(c) == {p \in candidates : IsNear(p) /\ ~ Lex(c, p)}

\* The table of candidates does not grow any more, now or after a resumption.
Over == \/ Cardinality(candidates) >= limits.candidates
        \/ Last = 0
        \/ \E m \in genMark : m.position = Last

TablesInv ==
    /\ candidates \subseteq Wanted
    /\ \A m \in genMark :
          /\ genMark = {m} /\ m.position \in 1..Last /\ m.oversized \in Nat
          /\ Ample => Generated(m.position) /\ (m.oversized = 0 <=> NoneBig(m.position))
    /\ cmpMark = {} => near = {}
    /\ \A c \in cmpMark : cmpMark = {c} /\ c \in candidates \cup {NoPair} /\ near = NearUpTo(c)
    /\ Cardinality(near) <= limits.pairs
    /\ cmpMark # {} => Over

GenerationInv == pc = "bucket" =>
    /\ scanPhase = {}
    /\ full = (Cardinality(candidates) >= limits.candidates)
    /\ pos \in 1..(Last + 1) /\ at \in Nat /\ oversized \in Nat
    /\ truncated \in BOOLEAN /\ (truncated => full)
    /\ truncated \/ (pos = 1 /\ genMark = {}) \/ \E m \in genMark : m.position = pos - 1
    /\ cmpMark # {} => full \/ pos = Last + 1
    /\ Ample => /\ Generated(pos - 1) /\ (oversized = 0 <=> NoneBig(pos - 1))
                /\ InRange => \A n \in DOMAIN BucketPairs :
                                 n <= at => Keys(BucketPairs[n]) \in candidates

ComparisonInv == pc = "compare" =>
    /\ scanPhase = {} /\ Over
    /\ cmpMark = {cursor} \/ (cmpMark = {} /\ cursor = NoPair)
    /\ cut => Cardinality(near) = limits.pairs /\ near # {p \in candidates : IsNear(p)}
    /\ Ample => candidates = Wanted /\ ~ truncated /\ (oversized = 0 <=> NoneBig(Last))

\* The near pairs and the completeness of a finished scan.
Final(pairs, complete) ==
    /\ pairs \subseteq NearWanted /\ Cardinality(pairs) <= limits.pairs
    /\ \A p \in pairs, q \in NearWanted : Lex(q, p) => q \in pairs
    /\ pairs = NearWanted \/ Cardinality(pairs) = limits.pairs
    /\ complete = (pairs = NearWanted /\ NoneBig(Last))

ResultsInv ==
    /\ \A m \in scanPhase : scanPhase = {m} /\ (Ample => Final(m.pairs, m.complete))
    /\ pc = "report" => \E m \in scanPhase : m.pairs = near
    /\ \A r \in Published : Ample => Final(r.pairs, r.complete)

ScanInv ==
    /\ rows \in Dataset /\ limits \in Limits /\ edits \in Nat /\ DOMAIN reports = Output
    /\ scanPhase = {} \/ edits = 0 => TablesInv
    /\ GenerationInv /\ ComparisonInv /\ ResultsInv

-----------------------------------------------------------------------------
(* Orders.                                                                 *)

\* A nonempty set of numbers up to n has a greatest one.
LEMMA GreatestExists ==
    ASSUME NEW S \in SUBSET Nat, S # {}, NEW n \in Nat, \A s \in S : s <= n
    PROVE  \E x \in S : \A y \in S : y <= x
  <1> DEFINE Ends == {s..n : s \in S}
  <1>1. Ends # {}
    OBVIOUS
  <1>2. Ends \subseteq FiniteSubsetsOf(0..n)
    <2>1. \A s \in S : s..n \in SUBSET (0..n) /\ IsFiniteSet(s..n)
      BY FS_Interval
    <2> QED
      BY <2>1 DEF FiniteSubsetsOf
  <1>3. IsWellFoundedOn(StrictSubsetOrdering(0..n), FiniteSubsetsOf(0..n))
    BY FS_StrictSubsetOrderingWellFounded
  <1> HIDE DEF Ends
  <1>4. PICK T \in Ends : \A U \in Ends : ~ (<<U, T>> \in StrictSubsetOrdering(0..n))
    BY <1>1, <1>2, <1>3, WFMin
  <1>5. PICK x \in S : T = x..n
    BY <1>4 DEF Ends
  <1>6. ASSUME NEW y \in S, x < y PROVE FALSE
    <2>1. y..n \in Ends
      BY <1>6 DEF Ends
    <2>2. y..n \subseteq T /\ y..n # T /\ T \subseteq 0..n
      BY <1>5, <1>6
    <2> QED
      BY <1>4, <2>1, <2>2 DEF StrictSubsetOrdering
  <1> QED
    BY <1>6

LEMMA MaxIsGreatest ==
    ASSUME NEW S \in SUBSET Nat, S # {}, NEW n \in Nat, \A s \in S : s <= n
    PROVE  Max(S) \in S /\ \A y \in S : y <= Max(S)
  <1>1. \E x \in S : \A y \in S : x >= y
    BY GreatestExists
  <1> QED
    BY <1>1 DEF Max

\* before is a strict total order of the finite set S.
Total(before, S) ==
    /\ before \in [S -> SUBSET S]
    /\ \A p \in S : p \notin before[p]
    /\ \A p \in S : \A q \in before[p] : before[q] \subseteq before[p]
    /\ \A p, q \in S : p = q \/ p \in before[q] \/ q \in before[p]

\* What comes before an element tells its rank.
LEMMA RankIsPosition ==
    ASSUME NEW S, IsFiniteSet(S), NEW before, Total(before, S)
    PROVE  /\ \A p \in S : Cardinality(before[p]) \in 0..(Cardinality(S) - 1)
           /\ \A p, q \in S : p \in before[q] <=> Cardinality(before[p]) < Cardinality(before[q])
           /\ \A k \in 0..(Cardinality(S) - 1) : \E p \in S : Cardinality(before[p]) = k
  <1> DEFINE n == Cardinality(S)  rank == [p \in S |-> Cardinality(before[p])]
  <1>1. n \in Nat
    BY FS_CardinalityType
  <1>2. \A p \in S : IsFiniteSet(before[p]) /\ Cardinality(before[p]) \in Nat
    BY FS_Subset, FS_CardinalityType DEF Total
  <1>3. ASSUME NEW p \in S PROVE Cardinality(before[p]) \in 0..(n - 1)
    <2>1. Cardinality(before[p]) <= n /\ (Cardinality(before[p]) = n => before[p] = S)
      BY FS_Subset DEF Total
    <2>2. before[p] # S
      BY DEF Total
    <2> QED
      BY <1>1, <1>2, <2>1, <2>2
  <1>4. ASSUME NEW q \in S, NEW p \in before[q]
        PROVE  p \in S /\ Cardinality(before[p]) < Cardinality(before[q])
    <2>1. p \in S /\ before[p] \in SUBSET before[q] /\ before[p] # before[q]
      BY DEF Total
    <2>2. /\ Cardinality(before[p]) <= Cardinality(before[q])
          /\ Cardinality(before[q]) = Cardinality(before[p]) => before[q] = before[p]
      BY <1>2, <2>1, FS_Subset
    <2> QED
      BY <1>2, <2>1, <2>2
  <1>5. \A p, q \in S : p \in before[q] <=> Cardinality(before[p]) < Cardinality(before[q])
    <2> SUFFICES ASSUME NEW p \in S, NEW q \in S, Cardinality(before[p]) < Cardinality(before[q])
                 PROVE  p \in before[q]
      BY <1>4
    <2>1. p # q /\ q \notin before[p]
      BY <1>2, <1>4
    <2> QED
      BY <2>1 DEF Total
  <1>6. rank \in Injection(S, 0..(n - 1))
    <2>1. \A p, q \in S : rank[p] = rank[q] => p = q
      <3> SUFFICES ASSUME NEW p \in S, NEW q \in S, p # q
                   PROVE  Cardinality(before[p]) # Cardinality(before[q])
        OBVIOUS
      <3> QED
        BY <1>2, <1>4 DEF Total
    <2>2. rank \in [S -> 0..(n - 1)]
      BY <1>3
    <2> HIDE DEF rank
    <2> QED
      BY <2>1, <2>2 DEF Injection, IsInjective
  <1>7. rank \in Surjection(S, 0..(n - 1))
    <2>1. IsFiniteSet(0..(n - 1)) /\ Cardinality(0..(n - 1)) = n
      BY <1>1, FS_Interval
    <2> HIDE DEF rank
    <2> QED
      BY <1>6, <2>1, FS_Injection
  <1>8. \A k \in 0..(n - 1) : \E p \in S : rank[p] = k
    BY <1>7 DEF Surjection
  <1> QED
    BY <1>3, <1>5, <1>8

\* Ranked lists every element once and in order.
LEMMA RankedLists ==
    ASSUME NEW S, IsFiniteSet(S), NEW before, Total(before, S)
    PROVE  /\ Ranked(before) \in Seq(S) /\ Len(Ranked(before)) = Cardinality(S)
           /\ \A k \in 1..Cardinality(S) :
                  Ranked(before)[k] \in S /\ Cardinality(before[Ranked(before)[k]]) = k - 1
           /\ \A p \in S : \E k \in 1..Cardinality(S) : Ranked(before)[k] = p
           /\ \A j, k \in 1..Cardinality(S) :
                  j < k <=> Ranked(before)[j] \in before[Ranked(before)[k]]
  <1> DEFINE n == Cardinality(S)  list == Ranked(before)
  <1>1. n \in Nat /\ DOMAIN before = S
    BY FS_CardinalityType DEF Total
  <1>2. list = [k \in 1..n |-> CHOOSE p \in S : Cardinality(before[p]) = k - 1]
    BY <1>1 DEF Ranked
  <1>3. \A k \in 1..n : list[k] \in S /\ Cardinality(before[list[k]]) = k - 1
    <2> SUFFICES ASSUME NEW k \in 1..n PROVE list[k] \in S /\ Cardinality(before[list[k]]) = k - 1
      OBVIOUS
    <2>1. k - 1 \in 0..(n - 1)
      BY <1>1
    <2>2. \E p \in S : Cardinality(before[p]) = k - 1
      BY <2>1, RankIsPosition
    <2> QED
      BY <1>2, <2>2
  <1>4. list \in [1..n -> S]
    BY <1>2, <1>3
  <1> HIDE DEF list
  <1>5. list \in Seq(S) /\ Len(list) = n
    BY <1>1, <1>4
  <1>6. \A p, q \in S : Cardinality(before[p]) = Cardinality(before[q]) => p = q
    <2>1. \A p, q \in S : p = q \/ Cardinality(before[p]) < Cardinality(before[q])
                          \/ Cardinality(before[q]) < Cardinality(before[p])
      BY RankIsPosition DEF Total
    <2>2. \A p \in S : Cardinality(before[p]) \in Int
      BY RankIsPosition
    <2> QED
      BY <2>1, <2>2
  <1>7. ASSUME NEW p \in S PROVE \E k \in 1..n : list[k] = p
    <2>1. Cardinality(before[p]) \in 0..(n - 1)
      BY RankIsPosition
    <2>2. PICK k \in 1..n : k - 1 = Cardinality(before[p])
      BY <1>1, <2>1
    <2>3. list[k] \in S /\ Cardinality(before[list[k]]) = Cardinality(before[p])
      BY <1>3, <2>2
    <2> QED
      BY <1>6, <2>3
  <1>8. \A j, k \in 1..n : j < k <=> list[j] \in before[list[k]]
    BY <1>3, RankIsPosition
  <1> QED
    BY <1>3, <1>5, <1>7, <1>8 DEF list

LEMMA LexOrders ==
    ASSUME NEW S \in SUBSET (Int \X Int)
    PROVE  Total([p \in S |-> {q \in S : Lex(q, p)}], S)
  <1>1. \A p, q, r \in Int \X Int :
          /\ ~ Lex(p, p)
          /\ Lex(p, q) /\ Lex(q, r) => Lex(p, r)
          /\ p = q \/ Lex(p, q) \/ Lex(q, p)
    BY DEF Lex
  <1> QED
    BY <1>1 DEF Total

\* InOrder lists pairs of numbers in lexicographic order.
LEMMA PairsInOrder ==
    ASSUME NEW S \in SUBSET (Int \X Int), IsFiniteSet(S)
    PROVE  /\ InOrder(S) \in Seq(S) /\ Len(InOrder(S)) \in Nat
           /\ \A k \in 1..Len(InOrder(S)) : InOrder(S)[k] \in S
           /\ \A p \in S : \E k \in 1..Len(InOrder(S)) : InOrder(S)[k] = p
           /\ \A j, k \in 1..Len(InOrder(S)) : j < k <=> Lex(InOrder(S)[j], InOrder(S)[k])
  <1> DEFINE before == [p \in S |-> {q \in S : Lex(q, p)}]  list == Ranked(before)
  <1>1. Total(before, S)
    BY LexOrders
  <1>2. Cardinality(S) \in Nat
    BY FS_CardinalityType
  <1>3. \A p, q \in S : p \in before[q] <=> Lex(p, q)
    OBVIOUS
  <1>4. InOrder(S) = list
    BY DEF InOrder
  <1> HIDE DEF before
  <1>5. /\ list \in Seq(S) /\ Len(list) = Cardinality(S)
        /\ \A k \in 1..Cardinality(S) : list[k] \in S
        /\ \A p \in S : \E k \in 1..Cardinality(S) : list[k] = p
        /\ \A j, k \in 1..Cardinality(S) : j < k <=> list[j] \in before[list[k]]
    BY <1>1, RankedLists
  <1> HIDE DEF list
  <1> QED
    BY <1>2, <1>3, <1>4, <1>5

\* Sets of bits are ordered as the numbers they stand for.
LEMMA BelowOrders ==
    /\ \A A \in SUBSET Bit : ~ Below(A, A)
    /\ \A A, B, C \in SUBSET Bit : Below(A, B) /\ Below(B, C) => Below(A, C)
    /\ \A A, B \in SUBSET Bit : A = B \/ Below(A, B) \/ Below(B, A)
  <1>0. SimhashBits \in Nat /\ Bit \subseteq Nat /\ \A b \in Bit : b <= SimhashBits
    BY ScanAssumption DEF Bit
  <1>1. \A A \in SUBSET Bit : ~ Below(A, A)
    BY DEF Below
  <1>2. ASSUME NEW A \in SUBSET Bit, NEW B \in SUBSET Bit, NEW C \in SUBSET Bit,
               Below(A, B), Below(B, C)
        PROVE  Below(A, C)
    <2>1. PICK b \in B \ A : \A x \in A \ B : x < b
      BY <1>2 DEF Below
    <2>2. PICK c \in C \ B : \A x \in B \ C : x < c
      BY <1>2 DEF Below
    <2>3. b \in Nat /\ c \in Nat /\ b # c
      BY <1>0, <2>1, <2>2
    <2>4. CASE b < c
      <3>1. c \in C \ A
        BY <2>1, <2>2, <2>3, <2>4
      <3>2. \A x \in A \ C : x \in Nat /\ x < c
        BY <1>0, <2>1, <2>2, <2>3, <2>4
      <3> QED
        BY <3>1, <3>2 DEF Below
    <2>5. CASE c < b
      <3>1. b \in C \ A
        BY <2>1, <2>2, <2>3, <2>5
      <3>2. \A x \in A \ C : x \in Nat /\ x < b
        BY <1>0, <2>1, <2>2, <2>3, <2>5
      <3> QED
        BY <3>1, <3>2 DEF Below
    <2> QED
      BY <2>3, <2>4, <2>5
  <1>3. ASSUME NEW A \in SUBSET Bit, NEW B \in SUBSET Bit, A # B
        PROVE  Below(A, B) \/ Below(B, A)
    <2> DEFINE D == (A \ B) \cup (B \ A)
    <2>1. D \in SUBSET Nat /\ D # {} /\ \A d \in D : d <= SimhashBits
      BY <1>0, <1>3
    <2>2. PICK x \in D : \A y \in D : y <= x
      BY <1>0, <2>1, GreatestExists
    <2>3. \A y \in D : y \in Nat /\ (y = x \/ y < x)
      BY <2>1, <2>2
    <2>4. CASE x \in B \ A
      BY <2>3, <2>4 DEF Below
    <2>5. CASE x \in A \ B
      BY <2>3, <2>5 DEF Below
    <2> QED
      BY <2>4, <2>5
  <1> QED
    BY <1>1, <1>2, <1>3

LEMMA BucketsOrdered ==
    ASSUME NEW S \in SUBSET (Int \X SUBSET Bit)
    PROVE  Total([v \in S |-> {u \in S : BucketBefore(u, v)}], S)
  <1>1. \A u \in S : ~ BucketBefore(u, u)
    BY BelowOrders DEF BucketBefore
  <1>2. ASSUME NEW u \in S, NEW v \in S, NEW w \in S, BucketBefore(u, v), BucketBefore(v, w)
        PROVE  BucketBefore(u, w)
    <2>1. u[1] \in Int /\ v[1] \in Int /\ w[1] \in Int
          /\ u[2] \in SUBSET Bit /\ v[2] \in SUBSET Bit /\ w[2] \in SUBSET Bit
      OBVIOUS
    <2>2. CASE u[1] < v[1] \/ v[1] < w[1]
      BY <1>2, <2>1, <2>2 DEF BucketBefore
    <2>3. CASE ~ (u[1] < v[1] \/ v[1] < w[1])
      <3>1. u[1] = v[1] /\ v[1] = w[1] /\ Below(u[2], v[2]) /\ Below(v[2], w[2])
        BY <1>2, <2>3 DEF BucketBefore
      <3>2. Below(u[2], w[2])
        BY <2>1, <3>1, BelowOrders
      <3> QED
        BY <3>1, <3>2 DEF BucketBefore
    <2> QED
      BY <2>2, <2>3
  <1>3. ASSUME NEW u \in S, NEW v \in S
        PROVE  u = v \/ BucketBefore(u, v) \/ BucketBefore(v, u)
    <2>1. u[1] \in Int /\ v[1] \in Int /\ u[2] \in SUBSET Bit /\ v[2] \in SUBSET Bit
          /\ u = <<u[1], u[2]>> /\ v = <<v[1], v[2]>>
      OBVIOUS
    <2>2. u[1] < v[1] \/ v[1] < u[1] \/ u[1] = v[1]
      BY <2>1
    <2>3. u[2] = v[2] \/ Below(u[2], v[2]) \/ Below(v[2], u[2])
      BY <2>1, BelowOrders
    <2> QED
      BY <2>1, <2>2, <2>3 DEF BucketBefore
  <1> QED
    BY <1>1, <1>2, <1>3 DEF Total

-----------------------------------------------------------------------------
(* Buckets and pairs.                                                      *)

LEMMA RowFacts ==
    ASSUME NEW data \in Dataset
    PROVE  /\ Len(data) \in Nat /\ DOMAIN data = 1..Len(data) /\ IsFiniteSet(DOMAIN data)
           /\ \A i \in DOMAIN data : data[i].key \in Nat /\ data[i].simhash \in SUBSET Bit
           /\ \A i, j \in DOMAIN data : data[i].key = data[j].key => i = j
  <1>1. Len(data) \in Nat /\ DOMAIN data = 1..Len(data)
        /\ (\A i \in DOMAIN data : IsRow(data[i]))
        /\ \A i, j \in DOMAIN data : data[i].key = data[j].key => i = j
    BY ScanAssumption
  <1>2. IsFiniteSet(1..Len(data))
    BY <1>1, FS_Interval
  <1> QED
    BY <1>1, <1>2 DEF IsRow

LEMMA BitsAreFinite == IsFiniteSet(Bit) /\ Bit \subseteq Nat
  <1>1. SimhashBits - 1 \in Int
    BY ScanAssumption
  <1> QED
    BY <1>1, FS_Interval DEF Bit

\* Each band value of a row is a bucket.
LEMMA BucketList ==
    ASSUME NEW data \in Dataset
    PROVE  /\ Len(Buckets[data]) \in Nat /\ DOMAIN Buckets[data] = 1..Len(Buckets[data])
           /\ \A i \in DOMAIN data : \A v \in BandValues(data[i].simhash) :
                  \E k \in DOMAIN Buckets[data] : Buckets[data][k] = v
  <1> DEFINE values == UNION {BandValues(data[i].simhash) : i \in DOMAIN data}
             before == [v \in values |-> {u \in values : BucketBefore(u, v)}]
  <1>1. SimhashBands \in Nat
    BY ScanAssumption
  <1>2. values \subseteq (0..(SimhashBands - 1)) \X (SUBSET Bit)
    <2>1. \A i \in DOMAIN data :
            BandValues(data[i].simhash) \subseteq (0..(SimhashBands - 1)) \X (SUBSET Bit)
      BY RowFacts DEF BandValues
    <2> QED
      BY <2>1
  <1>3. IsFiniteSet(values)
    <2>1. IsFiniteSet(0..(SimhashBands - 1))
      BY <1>1, FS_Interval
    <2>3. IsFiniteSet(SUBSET Bit)
      BY BitsAreFinite, FS_SUBSET
    <2>2. IsFiniteSet((0..(SimhashBands - 1)) \X (SUBSET Bit))
      BY <2>1, <2>3, FS_Product
    <2> QED
      BY <1>2, <2>2, FS_Subset
  <1>4. Total(before, values)
    <2>1. values \in SUBSET (Int \X SUBSET Bit)
      BY <1>1, <1>2
    <2> HIDE DEF values
    <2> QED
      BY <2>1, BucketsOrdered
  <1>5. Buckets[data] = Ranked(before)
    BY DEF Buckets
  <1>6. \A i \in DOMAIN data : BandValues(data[i].simhash) \subseteq values
    OBVIOUS
  <1> HIDE DEF values, before
  <1>7. /\ Buckets[data] \in Seq(values) /\ Len(Buckets[data]) = Cardinality(values)
        /\ \A v \in values : \E k \in 1..Cardinality(values) : Buckets[data][k] = v
    BY <1>3, <1>4, <1>5, RankedLists
  <1>8. Len(Buckets[data]) \in Nat /\ DOMAIN Buckets[data] = 1..Len(Buckets[data])
    BY <1>7
  <1> QED
    BY <1>6, <1>7, <1>8

\* The pairs of a bucket, as the loops list them.
LEMMA LoopList ==
    ASSUME NEW data \in Dataset, NEW k \in DOMAIN Buckets[data]
    PROVE  /\ LoopPairs[data][k] \in Seq((DOMAIN data) \X (DOMAIN data))
           /\ \A n \in DOMAIN LoopPairs[data][k] :
                  LET p == LoopPairs[data][k][n]
                  IN  p[1] < p[2] /\ Across(data[p[1]], data[p[2]])
           /\ \A i, j \in Members[data][k] : i < j /\ Across(data[i], data[j]) =>
                  \E n \in DOMAIN LoopPairs[data][k] : LoopPairs[data][k][n] = <<i, j>>
  <1> DEFINE members == Members[data][k]
             pairs == {p \in members \X members : p[1] < p[2] /\ Across(data[p[1]], data[p[2]])}
             list == InOrder(pairs)
  <1>1. LoopPairs[data][k] = list
    BY DEF LoopPairs
  <1>2. members \subseteq DOMAIN data
    BY DEF Members
  <1>3. IsFiniteSet(pairs)
    <2>1. IsFiniteSet(members)
      BY <1>2, RowFacts, FS_Subset
    <2> HIDE DEF members
    <2>2. IsFiniteSet(members \X members)
      BY <2>1, FS_Product
    <2> QED
      BY <2>2, FS_Subset
  <1>4. DOMAIN data \subseteq Int
    BY RowFacts
  <1>5. pairs \in SUBSET (Int \X Int) /\ pairs \subseteq (DOMAIN data) \X (DOMAIN data)
    BY <1>2, <1>4
  <1>6. /\ \A p \in pairs : p[1] < p[2] /\ Across(data[p[1]], data[p[2]])
        /\ \A i, j \in members : i < j /\ Across(data[i], data[j]) => <<i, j>> \in pairs
    OBVIOUS
  <1> HIDE DEF pairs, members
  <1>7. /\ list \in Seq(pairs) /\ Len(list) \in Nat
        /\ \A n \in 1..Len(list) : list[n] \in pairs
        /\ \A p \in pairs : \E n \in 1..Len(list) : list[n] = p
    BY <1>3, <1>5, PairsInOrder
  <1> HIDE DEF list
  <1>8. DOMAIN list = 1..Len(list) /\ list \in Seq((DOMAIN data) \X (DOMAIN data))
    BY <1>5, <1>7
  <1> QED
    BY <1>1, <1>6, <1>7, <1>8 DEF members

\* Rows within the radius agree in a band: fewer bits than there are bands differ.
LEMMA NearSharesBand ==
    ASSUME NEW A \in SUBSET Bit, NEW B \in SUBSET Bit, Hamming(A, B) <= Radius
    PROVE  \E v \in BandValues(A) : v \in BandValues(B)
  <1> DEFINE D == (A \ B) \cup (B \ A)
             band == [b \in D |-> b \div Width]
             Hit == {band[b] : b \in D}
  <1>1. SimhashBands \in Nat \ {0}
    BY ScanAssumption
  <1>2. IsFiniteSet(D) /\ Cardinality(D) \in Nat /\ Cardinality(D) <= SimhashBands - 1
    <2>1. D \in SUBSET Bit
      OBVIOUS
    <2>2. IsFiniteSet(D)
      BY <2>1, BitsAreFinite, FS_Subset
    <2>3. Cardinality(D) <= SimhashBands - 1
      BY DEF Hamming, Radius
    <2> QED
      BY <2>2, <2>3, FS_CardinalityType
  <1>3. IsFiniteSet(Hit) /\ Cardinality(Hit) <= Cardinality(D)
    <2>1. band \in Surjection(D, Hit)
      BY DEF Surjection
    <2> HIDE DEF band, Hit
    <2> QED
      BY <1>2, <2>1, FS_Surjection
  <1>4. PICK w \in 0..(SimhashBands - 1) : w \notin Hit
    <2>1. Cardinality(0..(SimhashBands - 1)) = SimhashBands
      BY <1>1, FS_Interval
    <2>2. Cardinality(Hit) \in Nat
      BY <1>3, FS_CardinalityType
    <2> HIDE DEF Hit
    <2>3. 0..(SimhashBands - 1) \subseteq Hit => SimhashBands <= Cardinality(Hit)
      <3> DEFINE T == 0..(SimhashBands - 1)
      <3> HIDE DEF T
      <3>1. T \subseteq Hit => Cardinality(T) <= Cardinality(Hit)
        BY <1>3, FS_Subset
      <3> QED
        BY <2>1, <3>1 DEF T
    <2> QED
      BY <1>1, <1>2, <1>3, <2>2, <2>3
  <1>5. \A b \in D : b \div Width # w
    BY <1>4
  <1>6. {b \in A : b \div Width = w} = {b \in B : b \div Width = w}
    BY <1>5
  <1>7. <<w, {b \in A : b \div Width = w}>> \in BandValues(A)
    BY <1>4 DEF BandValues
  <1>8. <<w, {b \in B : b \div Width = w}>> \in BandValues(B)
    BY <1>4 DEF BandValues
  <1> QED
    BY <1>6, <1>7, <1>8

\* The cache tells a pair by its keys, in order.
LEMMA KeysTellRows ==
    ASSUME rows \in Dataset, NEW i \in DOMAIN rows, NEW j \in DOMAIN rows
    PROVE  /\ Keys(<<i, j>>) \in Nat \X Nat
           /\ Distance(Keys(<<i, j>>)) = Hamming(rows[i].simhash, rows[j].simhash)
  <1>1. rows[i].key \in Nat /\ rows[j].key \in Nat
    BY RowFacts
  <1>2. ASSUME NEW h \in DOMAIN rows PROVE RowOf(rows[h].key) = h
    BY RowFacts DEF RowOf
  <1>3. \/ Keys(<<i, j>>) = <<rows[i].key, rows[j].key>>
        \/ Keys(<<i, j>>) = <<rows[j].key, rows[i].key>>
    BY DEF Keys, Sorted
  <1>4. Hamming(rows[i].simhash, rows[j].simhash) = Hamming(rows[j].simhash, rows[i].simhash)
    <2>1. \A A, B : (A \ B) \cup (B \ A) = (B \ A) \cup (A \ B)
      OBVIOUS
    <2> QED
      BY <2>1 DEF Hamming
  <1>5. Keys(<<i, j>>) \in Nat \X Nat
    BY <1>1, <1>3
  <1>6. CASE Keys(<<i, j>>) = <<rows[i].key, rows[j].key>>
    BY <1>2, <1>5, <1>6 DEF Distance
  <1>7. CASE Keys(<<i, j>>) = <<rows[j].key, rows[i].key>>
    BY <1>2, <1>4, <1>5, <1>7 DEF Distance
  <1> QED
    BY <1>3, <1>6, <1>7, <1>5

LEMMA LimitFacts ==
    ASSUME limits \in Limits
    PROVE  /\ limits.hamming \in Nat /\ limits.hamming <= Radius /\ Radius \in Int
           /\ limits.candidates \in Nat \ {0} /\ limits.pairs \in Nat \ {0}
           /\ StageSize \in Nat \ {0} /\ CompareBatch \in Nat \ {0}
  <1>1. Radius \in Int
    BY ScanAssumption DEF Radius
  <1> QED
    BY <1>1, ScanAssumption

LEMMA CrossFacts ==
    ASSUME rows \in Dataset
    PROVE  CrossPairs \subseteq Nat \X Nat /\ IsFiniteSet(CrossPairs)
  <1> DEFINE R == {q \in (DOMAIN rows) \X (DOMAIN rows) : Crosses(q[1], q[2])}
             keys == [q \in R |-> Keys(q)]
  <1>1. CrossPairs = {keys[q] : q \in R}
    BY DEF CrossPairs
  <1>2. IsFiniteSet(R)
    <2>1. IsFiniteSet((DOMAIN rows) \X (DOMAIN rows))
      BY RowFacts, FS_Product
    <2> QED
      BY <2>1, FS_Subset
  <1>3. \A q \in R : keys[q] \in Nat \X Nat
    <2> SUFFICES ASSUME NEW q \in R PROVE Keys(q) \in Nat \X Nat
      OBVIOUS
    <2>1. q[1] \in DOMAIN rows /\ q[2] \in DOMAIN rows /\ q = <<q[1], q[2]>>
      OBVIOUS
    <2> QED
      BY <2>1, KeysTellRows
  <1>4. keys \in Surjection(R, CrossPairs)
    BY <1>1 DEF Surjection
  <1> HIDE DEF keys, R
  <1> QED
    BY <1>1, <1>2, <1>3, <1>4, FS_Surjection

LEMMA BucketFacts ==
    ASSUME rows \in Dataset
    PROVE  /\ Last \in Nat /\ DOMAIN OrderedBuckets = 1..Last
           /\ \A k \in 1..Last : /\ PairsOf(k) \in Seq((DOMAIN rows) \X (DOMAIN rows))
                                 /\ BucketKeys(k) \subseteq CrossPairs
           /\ Wanted \subseteq CrossPairs
  <1>1. Last \in Nat /\ DOMAIN OrderedBuckets = 1..Last
    BY BucketList DEF Last, OrderedBuckets
  <1>2. ASSUME NEW k \in 1..Last
        PROVE  /\ PairsOf(k) \in Seq((DOMAIN rows) \X (DOMAIN rows))
               /\ BucketKeys(k) \subseteq CrossPairs
    <2>1. k \in DOMAIN Buckets[rows]
      BY <1>1 DEF OrderedBuckets
    <2>2. /\ PairsOf(k) \in Seq((DOMAIN rows) \X (DOMAIN rows))
          /\ \A n \in DOMAIN PairsOf(k) : Crosses(PairsOf(k)[n][1], PairsOf(k)[n][2])
      BY <2>1, LoopList DEF PairsOf, Crosses
    <2>3. \A n \in DOMAIN PairsOf(k) : PairsOf(k)[n] \in (DOMAIN rows) \X (DOMAIN rows)
      BY <2>2
    <2>4. \A n \in DOMAIN PairsOf(k) : Keys(PairsOf(k)[n]) \in CrossPairs
      BY <2>2, <2>3 DEF CrossPairs
    <2> QED
      BY <2>2, <2>4 DEF BucketKeys
  <1>3. Wanted \subseteq CrossPairs
    BY <1>2 DEF Wanted
  <1> QED
    BY <1>1, <1>2, <1>3

\* Without oversized buckets the scan comes to every near-duplicate pair.
LEMMA NearWantedIsExhaustive ==
    ASSUME rows \in Dataset, limits \in Limits, NoneBig(Last)
    PROVE  NearWanted = NearDuplicates
  <1>1. ASSUME NEW p \in NearWanted PROVE p \in NearDuplicates
    <2>1. PICK k \in 1..Last : p \in BucketKeys(k)
      BY DEF NearWanted, Wanted
    <2>2. PICK n \in DOMAIN PairsOf(k) : p = Keys(PairsOf(k)[n])
      BY <2>1 DEF BucketKeys
    <2>3. k \in DOMAIN Buckets[rows]
      BY <2>1, BucketFacts DEF OrderedBuckets
    <2>4. PICK q \in (DOMAIN rows) \X (DOMAIN rows) : q = PairsOf(k)[n]
      BY <2>1, <2>2, BucketFacts
    <2>5. q[1] < q[2] /\ Crosses(q[1], q[2])
      BY <2>2, <2>3, <2>4, LoopList DEF PairsOf, Crosses
    <2>6. Distance(p) <= limits.hamming
      BY DEF NearWanted, IsNear
    <2>7. Distance(p) = Hamming(rows[q[1]].simhash, rows[q[2]].simhash)
      BY <2>2, <2>4, KeysTellRows
    <2> QED
      BY <2>2, <2>4, <2>5, <2>6, <2>7 DEF NearDuplicates
  <1>2. ASSUME NEW p \in NearDuplicates PROVE p \in NearWanted
    <2>1. PICK q \in (DOMAIN rows) \X (DOMAIN rows) :
            /\ p = Keys(q) /\ q[1] < q[2] /\ Crosses(q[1], q[2])
            /\ Hamming(rows[q[1]].simhash, rows[q[2]].simhash) <= limits.hamming
      BY DEF NearDuplicates
    <2> DEFINE A == rows[q[1]].simhash  B == rows[q[2]].simhash
    <2>2. A \in SUBSET Bit /\ B \in SUBSET Bit /\ q = <<q[1], q[2]>>
      BY <2>1, RowFacts
    <2>3. Hamming(A, B) <= Radius
      <3>1. Hamming(A, B) \in Nat
        <4>1. (A \ B) \cup (B \ A) \in SUBSET Bit
          BY <2>2
        <4>2. IsFiniteSet((A \ B) \cup (B \ A))
          BY <4>1, BitsAreFinite, FS_Subset
        <4> QED
          BY <4>2, FS_CardinalityType DEF Hamming
      <3> QED
        BY <2>1, <3>1, LimitFacts
    <2>4. PICK v \in BandValues(A) : v \in BandValues(B)
      BY <2>2, <2>3, NearSharesBand
    <2>5. PICK k \in DOMAIN Buckets[rows] : Buckets[rows][k] = v
      BY <2>1, <2>4, BucketList
    <2>6. q[1] \in Members[rows][k] /\ q[2] \in Members[rows][k]
      BY <2>1, <2>4, <2>5 DEF Members
    <2>7. PICK n \in DOMAIN LoopPairs[rows][k] : LoopPairs[rows][k][n] = q
      <3>1. Across(rows[q[1]], rows[q[2]]) /\ q[1] < q[2]
        BY <2>1 DEF Crosses
      <3>2. \E n \in DOMAIN LoopPairs[rows][k] : LoopPairs[rows][k][n] = <<q[1], q[2]>>
        BY <2>5, <2>6, <3>1, LoopList
      <3> QED
        BY <2>2, <3>2
    <2>8. p \in BucketKeys(k) /\ k \in 1..Last
      BY <2>1, <2>5, <2>7, BucketFacts DEF BucketKeys, PairsOf, OrderedBuckets
    <2>9. Distance(p) = Hamming(A, B)
      BY <2>1, <2>2, KeysTellRows
    <2> QED
      BY <2>1, <2>8, <2>9 DEF NearWanted, Wanted, NoneBig, IsNear
  <1> QED
    BY <1>1, <1>2

-----------------------------------------------------------------------------
(* Steps that leave the tables as they are.                                *)

LEMMA SameContext ==
    ASSUME UNCHANGED context
    PROVE  /\ Last' = Last /\ Wanted' = Wanted /\ NearWanted' = NearWanted /\ (Ample' <=> Ample)
           /\ \A k : BucketKeys(k)' = BucketKeys(k) /\ (Big(k)' <=> Big(k))
                     /\ (NoneBig(k)' <=> NoneBig(k)) /\ PairsOf(k)' = PairsOf(k)
           /\ \A p : (IsNear(p)' <=> IsNear(p)) /\ Keys(p)' = Keys(p)
           /\ \A pairs, complete : Final(pairs, complete)' <=> Final(pairs, complete)
  <1>1. rows' = rows /\ limits' = limits
    BY DEF context
  <1>2. Last' = Last /\ \A k : PairsOf(k)' = PairsOf(k) /\ (Big(k)' <=> Big(k))
    BY <1>1 DEF Last, OrderedBuckets, PairsOf, Big
  <1>3. \A p : Keys(p)' = Keys(p) /\ (IsNear(p)' <=> IsNear(p))
    BY <1>1 DEF Keys, IsNear, Distance, RowOf
  <1>4. \A k : BucketKeys(k)' = BucketKeys(k) /\ (NoneBig(k)' <=> NoneBig(k))
    BY <1>2, <1>3 DEF BucketKeys, NoneBig
  <1>5. Wanted' = Wanted
    BY <1>2, <1>4 DEF Wanted
  <1>6. NearWanted' = NearWanted
    BY <1>3, <1>5 DEF NearWanted
  <1>7. Ample' <=> Ample
    BY <1>1 DEF Ample, CrossPairs, Crosses, Keys
  <1>8. \A pairs, complete : Final(pairs, complete)' <=> Final(pairs, complete)
    BY <1>1, <1>2, <1>4, <1>6 DEF Final
  <1> QED
    BY <1>2, <1>3, <1>4, <1>5, <1>6, <1>7, <1>8

LEMMA SameTables ==
    ASSUME TablesInv, UNCHANGED <<context, candidates, near, genMark, cmpMark>>
    PROVE  TablesInv'
  <1>1. candidates' = candidates /\ near' = near /\ genMark' = genMark /\ cmpMark' = cmpMark
        /\ UNCHANGED context /\ limits' = limits
    BY DEF context
  <1>2. \A k : Generated(k)' <=> Generated(k)
    BY <1>1, SameContext DEF Generated
  <1>3. \A c : NearUpTo(c)' = NearUpTo(c)
    BY <1>1, SameContext DEF NearUpTo
  <1>4. Over' <=> Over
    BY <1>1, SameContext DEF Over
  <1> QED
    BY <1>1, <1>2, <1>3, <1>4, SameContext DEF TablesInv

LEMMA QuietStep ==
    ASSUME ScanInv, pc' \notin {"bucket", "compare", "report"},
           UNCHANGED <<context, candidates, near, genMark, cmpMark, scanPhase, reports, edits>>
    PROVE  ScanInv'
  <1>1. rows' = rows /\ limits' = limits /\ scanPhase' = scanPhase /\ reports' = reports
        /\ UNCHANGED context /\ edits' = edits
    BY DEF context
  <1>2. (scanPhase = {} \/ edits = 0 => TablesInv)'
    BY <1>1, SameTables DEF ScanInv
  <1>3. GenerationInv' /\ ComparisonInv'
    BY DEF GenerationInv, ComparisonInv
  <1>4. ResultsInv'
    BY <1>1, SameContext DEF ScanInv, ResultsInv, Published
  <1> QED
    BY <1>1, <1>2, <1>3, <1>4 DEF ScanInv

LEMMA InitScan == ScanInit => ScanInv
  <1> SUFFICES ASSUME ScanInit PROVE ScanInv
    OBVIOUS
  <1>1. TablesInv
    BY LimitFacts, FS_EmptySet DEF ScanInit, TablesInv
  <1>2. GenerationInv /\ ComparisonInv
    BY DEF ScanInit, GenerationInv, ComparisonInv
  <1>3. ResultsInv /\ DOMAIN reports = Output
    BY DEF ScanInit, ResultsInv, Published
  <1> QED
    BY <1>1, <1>2, <1>3 DEF ScanInit, ScanInv

\* Steps before the scan, a refused scan and a death.
LEMMA QuietSteps ==
    ASSUME ScanInv,
           \/ \E o \in Output, checks \in Checks : StartAudit(o, checks)
           \/ ReuseRows \/ PutVisibleRows \/ MarkRowsComplete \/ Crash
    PROVE  ScanInv'
  <1>1. UNCHANGED <<context, candidates, near, genMark, cmpMark, scanPhase, reports, edits>>
    BY DEF StartAudit, ReuseRows, PutVisibleRows, MarkRowsComplete, Crash, tables, world, locals
  <1>2. pc' \notin {"bucket", "compare", "report"}
    BY DEF StartAudit, ReuseRows, PutVisibleRows, MarkRowsComplete, Crash, Proceed, End
  <1> QED
    BY <1>1, <1>2, QuietStep

LEMMA DiscardInv == ASSUME ScanInv, DiscardRows PROVE ScanInv'
  <1>1. CASE visible = {}
    <2>1. UNCHANGED <<context, candidates, near, genMark, cmpMark, scanPhase, reports, edits>>
          /\ pc' = "store"
      BY <1>1 DEF DiscardRows, tables, world, Proceed
    <2> QED
      BY <2>1, QuietStep
  <1>2. CASE visible # {}
    <2>1. /\ candidates' = {} /\ near' = {} /\ genMark' = {} /\ cmpMark' = {} /\ scanPhase' = {}
          /\ UNCHANGED <<context, reports, edits>> /\ pc' = "store"
      BY <1>2 DEF DiscardRows, world, Proceed
    <2>2. rows' = rows /\ limits' = limits /\ reports' = reports /\ edits' = edits
      BY <2>1 DEF context
    <2>3. TablesInv'
      <3>1. limits'.pairs \in Nat
        BY <2>2, LimitFacts DEF ScanInv
      <3> QED
        BY <2>1, <3>1, FS_EmptySet DEF TablesInv
    <2>4. GenerationInv' /\ ComparisonInv'
      BY <2>1 DEF GenerationInv, ComparisonInv
    <2>5. ResultsInv'
      BY <2>1, <2>2, SameContext DEF ScanInv, ResultsInv, Published
    <2> QED
      BY <2>2, <2>3, <2>4, <2>5 DEF ScanInv
  <1> QED
    BY <1>1, <1>2

LEMMA ReuseInv == ASSUME ScanInv, ReuseScan PROVE ScanInv'
  <1>1. UNCHANGED <<context, candidates, near, genMark, cmpMark, scanPhase, reports, edits>>
    BY DEF ReuseScan, tables, world
  <1>2. CASE pc' # "report"
    <2>1. pc' = "failed"
      BY <1>2 DEF ReuseScan, Proceed, End
    <2> QED
      BY <1>1, <2>1, QuietStep
  <1>3. CASE pc' = "report"
    <2>1. rows' = rows /\ limits' = limits /\ scanPhase' = scanPhase /\ reports' = reports
          /\ UNCHANGED context /\ edits' = edits /\ near' = near
      BY <1>1 DEF context
    <2>2. (scanPhase = {} \/ edits = 0 => TablesInv)'
      BY <1>1, <2>1, SameTables DEF ScanInv
    <2>3. GenerationInv' /\ ComparisonInv'
      BY <1>3 DEF GenerationInv, ComparisonInv
    <2>4. \E m \in scanPhase : m.pairs = near
      BY <1>3 DEF ReuseScan, End
    <2>5. ResultsInv'
      BY <2>1, <2>4, SameContext DEF ScanInv, ResultsInv, Published
    <2> QED
      BY <2>1, <2>2, <2>3, <2>5 DEF ScanInv
  <1> QED
    BY <1>2, <1>3

\* Once a finished scan was edited, the tables are only compared and discarded.
LEMMA EditInv == ASSUME ScanInv, EditCache PROVE ScanInv'
  <1>1. /\ rows' = rows /\ limits' = limits /\ scanPhase' = scanPhase /\ reports' = reports
        /\ UNCHANGED context /\ edits' = edits + 1 /\ scanPhase # {} /\ pc' = "idle"
    BY DEF EditCache, context
  <1>2. ~ (scanPhase' = {} \/ edits' = 0) /\ edits' \in Nat
    BY <1>1 DEF ScanInv
  <1>3. GenerationInv' /\ ComparisonInv'
    BY <1>1 DEF GenerationInv, ComparisonInv
  <1>4. ResultsInv'
    BY <1>1, SameContext DEF ScanInv, ResultsInv, Published
  <1> QED
    BY <1>1, <1>2, <1>3, <1>4 DEF ScanInv

-----------------------------------------------------------------------------
(* The generation.                                                         *)

\* An ample table never fills up.
LEMMA Room ==
    ASSUME rows \in Dataset, limits \in Limits, NEW T, T \subseteq CrossPairs
    PROVE  /\ IsFiniteSet(T) /\ Cardinality(T) \in Nat
           /\ Ample => Cardinality(T) + StageSize <= limits.candidates
  <1>1. IsFiniteSet(CrossPairs) /\ Cardinality(CrossPairs) \in Nat
    BY CrossFacts, FS_CardinalityType
  <1>2. IsFiniteSet(T) /\ Cardinality(T) <= Cardinality(CrossPairs)
    BY <1>1, FS_Subset
  <1>3. Cardinality(T) \in Nat
    BY <1>2, FS_CardinalityType
  <1> QED
    BY <1>1, <1>2, <1>3, LimitFacts DEF Ample

LEMMA NeverFull ==
    ASSUME rows \in Dataset, limits \in Limits, candidates \subseteq Wanted, Ample
    PROVE  ~ (Cardinality(candidates) >= limits.candidates)
  <1>1. candidates \subseteq CrossPairs
    BY BucketFacts
  <1>2. Cardinality(candidates) \in Nat /\ Cardinality(candidates) + StageSize <= limits.candidates
    BY <1>1, Room
  <1>3. StageSize \in Nat \ {0} /\ limits.candidates \in Nat
    BY LimitFacts
  <1> QED
    BY <1>2, <1>3

LEMMA PendingFacts ==
    ASSUME rows \in Dataset, pos \in 1..Last, at \in Nat
    PROVE  /\ Pending \in Seq((DOMAIN rows) \X (DOMAIN rows)) /\ Len(Pending) \in Nat
           /\ Len(BucketPairs) \in Nat /\ DOMAIN BucketPairs = 1..Len(BucketPairs)
           /\ \A k \in 1..Len(Pending) :
                  at + k \in DOMAIN BucketPairs /\ Pending[k] = BucketPairs[at + k]
           /\ \A n \in DOMAIN BucketPairs : n > at => n - at \in 1..Len(Pending)
           /\ {Keys(BucketPairs[n]) : n \in DOMAIN BucketPairs} = BucketKeys(pos)
  <1>1. BucketPairs \in Seq((DOMAIN rows) \X (DOMAIN rows)) /\ BucketPairs = PairsOf(pos)
    BY BucketFacts DEF BucketPairs, PairsOf
  <1>2. {Keys(BucketPairs[n]) : n \in DOMAIN BucketPairs} = BucketKeys(pos)
    BY <1>1 DEF BucketKeys
  <1> QED
    BY <1>1, <1>2 DEF Pending

LEMMA BeginGenerationInv == ASSUME ScanInv, BeginGeneration PROVE ScanInv'
  <1>1. /\ UNCHANGED <<context, candidates, near, genMark, cmpMark>> /\ limits' = limits
        /\ rows' = rows /\ edits' = edits /\ reports' = reports /\ scanPhase' = {}
        /\ at' = 0 /\ truncated' = FALSE /\ pc' = "bucket"
        /\ full' = (Cardinality(candidates) >= limits.candidates)
    BY DEF BeginGeneration, tables, world, context, Proceed
  <1>2. TablesInv /\ TablesInv'
    BY <1>1, SameTables DEF ScanInv, BeginGeneration
  <1>3. Last \in Nat /\ \A k \in 1..Last : PairsOf(k) \in Seq((DOMAIN rows) \X (DOMAIN rows))
    BY BucketFacts DEF ScanInv
  <1>4. Cardinality(candidates) >= limits.candidates => full'
    BY <1>1, Zenon
  <1>5. cmpMark # {} => full' \/ Last = 0 \/ \E m \in genMark : m.position = Last
    BY <1>2, <1>4 DEF TablesInv, Over
  <1>6. /\ pos' \in 1..(Last + 1) /\ oversized' \in Nat
        /\ (pos' = 1 /\ genMark = {}) \/ \E m \in genMark : m.position = pos' - 1
        /\ Ample => Generated(pos' - 1) /\ (oversized' = 0 <=> NoneBig(pos' - 1))
        /\ cmpMark # {} => full' \/ pos' = Last + 1
    <2>1. CASE genMark = {}
      <3>1. pos' = 1 /\ oversized' = 0
        BY <2>1 DEF BeginGeneration
      <3>2. Generated(pos' - 1) /\ NoneBig(pos' - 1)
        BY <3>1 DEF Generated, NoneBig
      <3>3. cmpMark # {} => full' \/ pos' = Last + 1
        BY <1>3, <1>5, <2>1, <3>1
      <3> QED
        BY <1>3, <2>1, <3>1, <3>2, <3>3
    <2>2. CASE genMark # {}
      <3>1. PICK m \in genMark : pos' = m.position + 1 /\ oversized' = m.oversized
        BY <2>2 DEF BeginGeneration
      <3>2. /\ genMark = {m} /\ m.position \in 1..Last /\ m.oversized \in Nat
            /\ Ample => Generated(m.position) /\ (m.oversized = 0 <=> NoneBig(m.position))
        BY <1>2, <3>1 DEF TablesInv
      <3>3. pos' \in 1..(Last + 1) /\ pos' - 1 = m.position
        BY <1>3, <3>1, <3>2
      <3>4. cmpMark # {} => full' \/ pos' = Last + 1
        BY <1>3, <1>5, <3>1, <3>2
      <3> QED
        BY <3>1, <3>2, <3>3, <3>4
    <2> QED
      BY <2>1, <2>2
  <1>7. GenerationInv'
    <2>1. Ample' => Generated(pos - 1)' /\ (oversized' = 0 <=> NoneBig(pos - 1)')
      BY <1>1, <1>6, SameContext DEF Generated
    <2>2. InRange' => \A n \in (DOMAIN BucketPairs)' : ~ (n <= 0)
      <3> SUFFICES ASSUME InRange' PROVE \A n \in (DOMAIN BucketPairs)' : ~ (n <= 0)
        OBVIOUS
      <3>1. pos' \in 1..Last
        BY <1>1, <1>3, <1>6, SameContext DEF InRange, Last
      <3>2. BucketPairs' = PairsOf(pos')
        BY <1>1 DEF BucketPairs, PairsOf
      <3>3. PairsOf(pos') \in Seq((DOMAIN rows) \X (DOMAIN rows))
        BY <1>3, <3>1
      <3> QED
        BY <3>2, <3>3
    <2> QED
      BY <1>1, <1>6, <2>1, <2>2, SameContext DEF GenerationInv
  <1>8. ComparisonInv'
    BY <1>1 DEF ComparisonInv
  <1>9. ResultsInv'
    BY <1>1, SameContext DEF ScanInv, ResultsInv, Published
  <1> QED
    BY <1>1, <1>2, <1>7, <1>8, <1>9 DEF ScanInv

\* Staged pairs come into the table, all of them if it is ample.
LEMMA PutFacts ==
    ASSUME rows \in Dataset, limits \in Limits, candidates \subseteq Wanted,
           pos \in 1..Last, at \in Nat, NEW size \in 1..Len(Pending), size <= StageSize,
           NEW new, new = PutCandidates(SubSeq(Pending, 1, size))
    PROVE  /\ candidates \subseteq new /\ new \subseteq candidates \cup BucketKeys(pos)
           /\ Ample => \A n \in DOMAIN BucketPairs :
                           at < n /\ n <= at + size => Keys(BucketPairs[n]) \in new
  <1> DEFINE staged == SubSeq(Pending, 1, size)
             free == limits.candidates - Cardinality(candidates)
             room == Max({free, 0})
             m == Min({room, Len(staged)})
             selected == SubSeq(staged, 1, m)
  <1>1. staged \in Seq((DOMAIN rows) \X (DOMAIN rows)) /\ Len(staged) = size
        /\ \A k \in 1..size : staged[k] = Pending[k]
    BY PendingFacts
  <1>2. /\ Cardinality(candidates) \in Nat
        /\ Ample => Cardinality(candidates) + StageSize <= limits.candidates
    BY BucketFacts, Room
  <1>3. limits.candidates \in Nat /\ StageSize \in Nat /\ size \in Nat
    BY LimitFacts, PendingFacts
  <1>4. room \in Nat /\ room >= free
    <2>1. free \in Int
      BY <1>2, <1>3
    <2> HIDE DEF free
    <2>2. PICK x \in {free, 0} : \A y \in {free, 0} : x >= y
      BY <2>1
    <2>3. room \in {free, 0} /\ \A y \in {free, 0} : room >= y
      BY <2>2 DEF Max
    <2> QED
      BY <2>1, <2>3
  <1>5. Ample => room >= size
    BY <1>2, <1>3, <1>4
  <1>6. m \in 0..size /\ (Ample => m = size)
    <2> HIDE DEF room
    <2>1. PICK x \in {room, size} : \A y \in {room, size} : x <= y
      BY <1>3, <1>4
    <2>2. m \in {room, size} /\ \A y \in {room, size} : m <= y
      BY <1>1, <2>1 DEF Min
    <2> QED
      BY <1>3, <1>4, <1>5, <2>2
  <1>7. new = candidates \cup {Keys(selected[k]) : k \in DOMAIN selected}
    BY DEF PutCandidates
  <1> HIDE DEF m, staged
  <1>8. DOMAIN selected = 1..m /\ \A k \in 1..m : selected[k] = Pending[k]
    BY <1>1, <1>3, <1>6
  <1>9. \A k \in 1..m : at + k \in DOMAIN BucketPairs /\ selected[k] = BucketPairs[at + k]
    BY <1>3, <1>6, <1>8, PendingFacts
  <1>10. \A k \in 1..m : Keys(selected[k]) \in BucketKeys(pos)
    BY <1>9, PendingFacts
  <1>11. ASSUME Ample, NEW n \in DOMAIN BucketPairs, at < n, n <= at + size
         PROVE  Keys(BucketPairs[n]) \in new
    <2>1. n - at \in 1..m /\ at + (n - at) = n
      BY <1>3, <1>6, <1>11, PendingFacts
    <2> QED
      BY <1>7, <1>8, <1>9, <2>1
  <1> HIDE DEF selected
  <1> QED
    BY <1>7, <1>8, <1>10, <1>11

LEMMA FlushInv ==
    ASSUME ScanInv, Staging, NEW size \in 1..Len(Pending), size <= StageSize, Flush(size)
    PROVE  ScanInv'
  <1>1. /\ UNCHANGED <<context, near, genMark, cmpMark, scanPhase>>
        /\ limits' = limits /\ rows' = rows
        /\ edits' = edits /\ reports' = reports /\ pc' = pc /\ pos' = pos
        /\ oversized' = oversized /\ truncated' = truncated
    BY DEF Flush, world, context
  <1>2. /\ rows \in Dataset /\ limits \in Limits /\ TablesInv /\ scanPhase = {}
        /\ pos \in 1..Last /\ at \in Nat /\ ~ full /\ cmpMark = {} /\ near = {}
        /\ pc = "bucket" /\ ~ Big(pos)
    <2>1. pc = "bucket" /\ pos <= Last /\ ~ Big(pos) /\ ~ full
      BY DEF Staging, InRange, Last, Oversized, Big
    <2>2. Last \in Nat /\ scanPhase = {} /\ pos \in 1..(Last + 1) /\ at \in Nat
          /\ (cmpMark # {} => full \/ pos = Last + 1)
      BY <2>1, BucketFacts DEF ScanInv, GenerationInv
    <2> QED
      BY <2>1, <2>2 DEF ScanInv, TablesInv
  <1>3. PICK new : new = candidates'
    OBVIOUS
  <1>4. /\ candidates \subseteq new /\ new \subseteq candidates \cup BucketKeys(pos)
        /\ Ample => \A n \in DOMAIN BucketPairs :
                        at < n /\ n <= at + size => Keys(BucketPairs[n]) \in new
    <2>1. new = PutCandidates(SubSeq(Pending, 1, size))
      BY <1>3 DEF Flush
    <2> QED
      BY <1>2, <2>1, PutFacts DEF TablesInv
  <1>5. new \subseteq Wanted
    BY <1>2, <1>4 DEF TablesInv, Wanted
  <1>6. Cardinality(new) \in Nat /\ (Ample => Cardinality(new) < limits.candidates)
    BY <1>2, <1>5, BucketFacts, Room, LimitFacts
  <1>7. \A k : Generated(k) => Generated(k)'
    BY <1>1, <1>3, <1>4, SameContext DEF Generated
  <1>8. TablesInv'
    <2>1. \A m \in genMark :
            /\ genMark = {m} /\ m.position \in 1..Last /\ m.oversized \in Nat
            /\ Ample => Generated(m.position)' /\ (m.oversized = 0 <=> NoneBig(m.position))
      BY <1>2, <1>7 DEF TablesInv
    <2>2. Cardinality(near) <= limits.pairs
      BY <1>2 DEF TablesInv
    <2> QED
      BY <1>1, <1>2, <1>3, <1>5, <2>1, <2>2, SameContext DEF TablesInv
  <1>9. full' = (Cardinality(candidates') >= limits'.candidates)
    BY <1>1 DEF Flush
  <1>10. at' \in Nat /\ (Ample => at' = at + size)
    <2> DEFINE last == at + size
               skip == {k \in DOMAIN BucketPairs :
                          k > last /\ BucketPairs[k][1] = BucketPairs[last][1]}
    <2>1. at' = last + IF full' /\ size = StageSize THEN Cardinality(skip) ELSE 0
      BY DEF Flush
    <2>2. Cardinality(skip) \in Nat
      <3>1. IsFiniteSet(DOMAIN BucketPairs)
        BY <1>2, PendingFacts, FS_Interval
      <3>2. IsFiniteSet(skip)
        BY <3>1, FS_Subset
      <3> QED
        BY <3>2, FS_CardinalityType
    <2>3. size \in Nat
      BY <1>2, PendingFacts
    <2>4. Ample => ~ full'
      <3>1. full' => Cardinality(candidates') >= limits'.candidates
        BY <1>9, Zenon
      <3> QED
        BY <1>1, <1>2, <1>3, <1>6, <3>1, LimitFacts
    <2> HIDE DEF skip
    <2> QED
      BY <1>2, <2>1, <2>2, <2>3, <2>4
  <1>11. GenerationInv'
    <2>1. /\ oversized \in Nat /\ truncated \in BOOLEAN /\ ~ truncated
          /\ (pos = 1 /\ genMark = {}) \/ \E m \in genMark : m.position = pos - 1
          /\ Ample => /\ Generated(pos - 1) /\ (oversized = 0 <=> NoneBig(pos - 1))
                      /\ \A n \in DOMAIN BucketPairs : n <= at => Keys(BucketPairs[n]) \in candidates
      BY <1>2 DEF ScanInv, GenerationInv, InRange, Last
    <2>2. ASSUME Ample, NEW n \in DOMAIN BucketPairs, n <= at + size
          PROVE  Keys(BucketPairs[n]) \in new
      <3>1. n \in Nat
        BY <1>2, PendingFacts
      <3> QED
        BY <1>2, <1>4, <2>1, <2>2, <3>1
    <2>3. BucketPairs' = BucketPairs
      BY <1>1 DEF BucketPairs
    <2>4. Ample' => Generated(pos - 1)' /\ (oversized' = 0 <=> NoneBig(pos - 1)')
      BY <1>1, <1>7, <2>1, SameContext
    <2>5. Ample' => (\A n \in DOMAIN BucketPairs : n <= at => Keys(BucketPairs[n]) \in candidates)'
      <3> SUFFICES ASSUME Ample', NEW n \in DOMAIN BucketPairs, n <= at'
                   PROVE  Keys(BucketPairs[n])' \in candidates'
        BY <2>3
      <3>1. Keys(BucketPairs[n]) \in new
        BY <1>1, <1>10, <2>2, SameContext
      <3>2. PICK p : p = BucketPairs[n]
        OBVIOUS
      <3>3. Keys(p)' = Keys(p)
        BY <1>1, SameContext
      <3> QED
        BY <1>3, <2>3, <3>1, <3>2, <3>3
    <2>6. pos' \in 1..(Last' + 1)
      BY <1>1, <1>2, BucketFacts, SameContext
    <2> QED
      BY <1>1, <1>2, <1>9, <1>10, <2>1, <2>4, <2>5, <2>6 DEF GenerationInv
  <1>12. ComparisonInv'
    BY <1>1, <1>2 DEF ComparisonInv
  <1>13. ResultsInv'
    BY <1>1, <1>2, SameContext DEF ScanInv, ResultsInv, Published
  <1> QED
    BY <1>1, <1>8, <1>11, <1>12, <1>13 DEF ScanInv

LEMMA FlushesInv == ASSUME ScanInv, FlushFull \/ FlushRest PROVE ScanInv'
  <1>1. rows \in Dataset /\ limits \in Limits /\ pos \in 1..Last /\ at \in Nat
    BY BucketFacts DEF FlushFull, FlushRest, Staging, ScanInv, GenerationInv, InRange, Last
  <1>2. Len(Pending) \in Nat /\ StageSize \in Nat \ {0}
    BY <1>1, PendingFacts, LimitFacts
  <1>3. CASE FlushFull
    <2>1. StageSize \in 1..Len(Pending) /\ StageSize <= StageSize
      BY <1>2, <1>3 DEF FlushFull
    <2> QED
      BY <1>3, <2>1, FlushInv DEF FlushFull
  <1>4. CASE FlushRest
    <2>1. Len(Pending) \in 1..Len(Pending) /\ Len(Pending) <= StageSize
      BY <1>2, <1>4 DEF FlushRest
    <2> QED
      BY <1>4, <2>1, FlushInv DEF FlushRest
  <1> QED
    BY <1>3, <1>4

\* A bucket that is left is oversized or in the table, unless the table is full.
LEMMA CompleteBucketInv == ASSUME ScanInv, CompleteBucket PROVE ScanInv'
  <1>1. /\ UNCHANGED <<context, candidates, near, cmpMark, scanPhase>>
        /\ limits' = limits /\ rows' = rows
        /\ edits' = edits /\ reports' = reports /\ pc' = "bucket" /\ pc = "bucket"
        /\ oversized' = oversized + (IF Oversized THEN 1 ELSE 0)
        /\ genMark' = {[position |-> pos, oversized |-> oversized']} /\ full' = full /\ at' = 0
        /\ pos' = IF truncated' THEN Len(OrderedBuckets) + 1 ELSE pos + 1
    BY DEF CompleteBucket, world, context
  <1>2. /\ rows \in Dataset /\ limits \in Limits /\ TablesInv /\ scanPhase = {}
        /\ Last \in Nat /\ pos \in 1..Last /\ at \in Nat /\ oversized \in Nat
        /\ (cmpMark # {} => full)
    <2>1. pc = "bucket" /\ pos <= Last
      BY DEF CompleteBucket, InRange, Last
    <2>2. Last \in Nat /\ scanPhase = {} /\ pos \in 1..(Last + 1) /\ at \in Nat /\ oversized \in Nat
          /\ (cmpMark # {} => full \/ pos = Last + 1)
      BY <2>1, BucketFacts DEF ScanInv, GenerationInv
    <2> QED
      BY <2>1, <2>2 DEF ScanInv
  <1>3. /\ full = (Cardinality(candidates) >= limits.candidates)
        /\ Ample => /\ Generated(pos - 1) /\ (oversized = 0 <=> NoneBig(pos - 1))
                    /\ \A n \in DOMAIN BucketPairs : n <= at => Keys(BucketPairs[n]) \in candidates
    BY <1>1, <1>2 DEF ScanInv, GenerationInv, InRange, Last
  <1>4. full => Cardinality(candidates) >= limits.candidates
    BY <1>3, Zenon
  <1>5. Ample => ~ full
    BY <1>2, <1>4, NeverFull DEF TablesInv
  <1>6. truncated' \in BOOLEAN /\ (truncated' => full)
    BY DEF CompleteBucket
  <1>7. Oversized <=> Big(pos)
    BY DEF Oversized, Big
  <1>8. Ample => Generated(pos)
    <2> SUFFICES ASSUME Ample, NEW j \in 1..pos, ~ Big(j) PROVE BucketKeys(j) \subseteq candidates
      BY DEF Generated
    <2>1. CASE j < pos
      BY <1>2, <1>3, <2>1 DEF Generated
    <2>2. CASE j = pos
      <3>1. Pending = <<>>
        BY <1>5, <1>7, <2>2 DEF CompleteBucket
      <3>2. Len(Pending) = 0
        BY <3>1
      <3>3. \A n \in DOMAIN BucketPairs : n \in Nat /\ n <= at
        BY <1>2, <3>2, PendingFacts
      <3>4. \A n \in DOMAIN BucketPairs : Keys(BucketPairs[n]) \in candidates
        BY <1>3, <3>3
      <3> QED
        BY <1>2, <2>2, <3>4, PendingFacts
    <2> QED
      BY <1>2, <2>1, <2>2
  <1>9. oversized' \in Nat /\ (Ample => (oversized' = 0 <=> NoneBig(pos)))
    <2>1. NoneBig(pos) <=> NoneBig(pos - 1) /\ ~ Big(pos)
      BY <1>2 DEF NoneBig
    <2>2. oversized' = IF Big(pos) THEN oversized + 1 ELSE oversized
      BY <1>1, <1>2, <1>7
    <2> QED
      BY <1>2, <1>3, <2>1, <2>2
  <1>10. \A k : Generated(k)' <=> Generated(k)
    BY <1>1, SameContext DEF Generated
  <1>11. \A c : NearUpTo(c)' = NearUpTo(c)
    BY <1>1, SameContext DEF NearUpTo
  <1>12. TablesInv'
    <2>1. PICK m : m = [position |-> pos, oversized |-> oversized']
      OBVIOUS
    <2>2. genMark' = {m} /\ m.position = pos /\ m.oversized = oversized'
      BY <1>1, <2>1
    <2>3. Ample' => Generated(m.position)' /\ (m.oversized = 0 <=> NoneBig(m.position)')
      BY <1>1, <1>8, <1>9, <1>10, <2>2, SameContext
    <2>4. (\A x \in genMark :
              /\ genMark = {x} /\ x.position \in 1..Last /\ x.oversized \in Nat
              /\ Ample => Generated(x.position) /\ (x.oversized = 0 <=> NoneBig(x.position)))'
      BY <1>1, <1>2, <1>9, <2>2, <2>3, SameContext
    <2>5. cmpMark' # {} => Over'
      BY <1>1, <1>2, <1>4 DEF Over
    <2> QED
      BY <1>1, <1>2, <1>11, <2>4, <2>5, SameContext DEF TablesInv
  <1>13. GenerationInv'
    <2>1. pos' \in 1..(Last' + 1)
      BY <1>1, <1>2, SameContext DEF Last
    <2>2. truncated' \/ pos' - 1 = pos
      BY <1>1, <1>2
    <2>3. truncated' \/ \E m \in genMark' : m.position = pos' - 1
      BY <1>1, <2>2
    <2>4. Ample' => Generated(pos - 1)' /\ (oversized' = 0 <=> NoneBig(pos - 1)')
      BY <1>1, <1>5, <1>6, <1>8, <1>9, <1>10, <2>2, SameContext
    <2>5. InRange' => \A n \in (DOMAIN BucketPairs)' : ~ (n <= 0)
      <3> SUFFICES ASSUME InRange' PROVE \A n \in (DOMAIN BucketPairs)' : ~ (n <= 0)
        OBVIOUS
      <3>1. pos' \in 1..Last
        BY <1>1, <1>2, <2>1, SameContext DEF InRange, Last
      <3>2. BucketPairs' = PairsOf(pos')
        BY <1>1 DEF BucketPairs, PairsOf
      <3>3. PairsOf(pos') \in Seq((DOMAIN rows) \X (DOMAIN rows))
        BY <1>2, <3>1, BucketFacts
      <3> QED
        BY <3>2, <3>3
    <2>6. full' = (Cardinality(candidates') >= limits'.candidates) /\ (cmpMark' # {} => full')
      BY <1>1, <1>2, <1>3
    <2> QED
      BY <1>1, <1>2, <1>6, <1>9, <2>1, <2>3, <2>4, <2>5, <2>6 DEF GenerationInv
  <1>14. ComparisonInv'
    BY <1>1 DEF ComparisonInv
  <1>15. ResultsInv'
    BY <1>1, <1>2, SameContext DEF ScanInv, ResultsInv, Published
  <1> QED
    BY <1>1, <1>12, <1>13, <1>14, <1>15 DEF ScanInv

\* After the last bucket an ample table has every pair it should have.
LEMMA BeginComparisonInv == ASSUME ScanInv, BeginComparison PROVE ScanInv'
  <1>1. /\ UNCHANGED <<context, candidates, near, genMark, cmpMark, scanPhase>>
        /\ limits' = limits /\ rows' = rows /\ edits' = edits /\ reports' = reports
        /\ pc' = "compare" /\ pc = "bucket" /\ cut' = FALSE
        /\ oversized' = oversized /\ truncated' = truncated
    BY DEF BeginComparison, tables, world, context, Proceed
  <1>2. /\ rows \in Dataset /\ limits \in Limits /\ TablesInv /\ scanPhase = {}
        /\ Last \in Nat /\ pos = Last + 1
    <2>1. pc = "bucket" /\ ~ (pos <= Last)
      BY DEF BeginComparison, InRange, Last
    <2>2. Last \in Nat /\ scanPhase = {} /\ pos \in 1..(Last + 1)
      BY <2>1, BucketFacts DEF ScanInv, GenerationInv
    <2> QED
      BY <2>1, <2>2 DEF ScanInv
  <1>3. /\ full = (Cardinality(candidates) >= limits.candidates) /\ (truncated => full)
        /\ truncated \/ (pos = 1 /\ genMark = {}) \/ \E m \in genMark : m.position = pos - 1
        /\ Ample => Generated(pos - 1) /\ (oversized = 0 <=> NoneBig(pos - 1))
    BY <1>1 DEF ScanInv, GenerationInv
  <1>4. full => Cardinality(candidates) >= limits.candidates
    BY <1>3, Zenon
  <1>5. Over
    BY <1>2, <1>3, <1>4 DEF Over
  <1>6. Ample => candidates = Wanted /\ ~ truncated /\ (oversized = 0 <=> NoneBig(Last))
    <2>1. Ample => ~ full
      BY <1>2, <1>4, NeverFull DEF TablesInv
    <2>2. Generated(Last) => Wanted \subseteq candidates
      BY DEF Generated, Wanted
    <2>3. pos - 1 = Last
      BY <1>2
    <2>4. Ample => Generated(Last) /\ (oversized = 0 <=> NoneBig(Last))
      BY <1>3, <2>3
    <2>5. truncated => full
      BY <1>3
    <2> QED
      BY <1>2, <2>1, <2>2, <2>4, <2>5 DEF TablesInv
  <1>7. cmpMark = {cursor'} \/ (cmpMark = {} /\ cursor' = NoPair)
    BY <1>2 DEF BeginComparison, TablesInv
  <1>8. Over' <=> Over
    BY <1>1, SameContext DEF Over
  <1>9. ComparisonInv'
    BY <1>1, <1>2, <1>5, <1>6, <1>7, <1>8, SameContext DEF ComparisonInv
  <1>10. GenerationInv'
    BY <1>1 DEF GenerationInv
  <1>11. TablesInv'
    BY <1>1, <1>2, SameTables
  <1>12. ResultsInv'
    BY <1>1, <1>2, SameContext DEF ScanInv, ResultsInv, Published
  <1> QED
    BY <1>1, <1>9, <1>10, <1>11, <1>12 DEF ScanInv

-----------------------------------------------------------------------------
(* The comparison.                                                         *)

\* A batch has the first candidates after the cursor, in order.
LEMMA FetchFacts ==
    ASSUME rows \in Dataset, candidates \subseteq CrossPairs
    PROVE  /\ Len(FetchBatch) \in Nat
           /\ \A j \in 1..Len(FetchBatch) :
                  FetchBatch[j] \in candidates /\ Lex(cursor, FetchBatch[j])
           /\ \A j, k \in 1..Len(FetchBatch) : j < k <=> Lex(FetchBatch[j], FetchBatch[k])
           /\ \A k \in 1..Len(FetchBatch) : \A p \in candidates :
                  Lex(cursor, p) /\ ~ Lex(FetchBatch[k], p) => \E j \in 1..k : FetchBatch[j] = p
           /\ FetchBatch = <<>> => \A p \in candidates : ~ Lex(cursor, p)
  <1> DEFINE later == {p \in candidates : Lex(cursor, p)}
             after == InOrder(later)
             m == Min({CompareBatch, Len(after)})
  <1>1. later \in SUBSET (Int \X Int) /\ IsFiniteSet(later)
    BY CrossFacts, FS_Subset
  <1>2. FetchBatch = SubSeq(after, 1, m)
    BY DEF FetchBatch
  <1>3. \A p : p \in later <=> p \in candidates /\ Lex(cursor, p)
    OBVIOUS
  <1> HIDE DEF later
  <1>4. /\ after \in Seq(later) /\ Len(after) \in Nat
        /\ \A k \in 1..Len(after) : after[k] \in later
        /\ \A p \in later : \E k \in 1..Len(after) : after[k] = p
        /\ \A j, k \in 1..Len(after) : j < k <=> Lex(after[j], after[k])
    BY <1>1, PairsInOrder
  <1>5. m \in Nat /\ m <= Len(after) /\ (m = 0 => Len(after) = 0)
    <2>1. CompareBatch \in Nat \ {0}
      BY ScanAssumption
    <2>2. PICK x \in {CompareBatch, Len(after)} : \A y \in {CompareBatch, Len(after)} : x <= y
      BY <1>4, <2>1
    <2>3. m \in {CompareBatch, Len(after)} /\ \A y \in {CompareBatch, Len(after)} : m <= y
      BY <2>2 DEF Min
    <2> QED
      BY <1>4, <2>1, <2>3
  <1> HIDE DEF after, m
  <1>6. Len(FetchBatch) = m /\ \A j \in 1..m : FetchBatch[j] = after[j]
    BY <1>2, <1>4, <1>5
  <1>7. \A j \in 1..m : j \in 1..Len(after) /\ j \in Nat
    BY <1>4, <1>5
  <1>8. ASSUME NEW k \in 1..m, NEW p \in candidates, Lex(cursor, p), ~ Lex(FetchBatch[k], p)
        PROVE  \E j \in 1..k : FetchBatch[j] = p
    <2>1. PICK j \in 1..Len(after) : after[j] = p
      BY <1>3, <1>4, <1>8
    <2>2. ~ (k < j)
      BY <1>4, <1>6, <1>7, <1>8, <2>1
    <2>3. j \in 1..k /\ j \in 1..m
      BY <1>4, <1>5, <2>2
    <2> QED
      BY <1>6, <2>1, <2>3
  <1>9. FetchBatch = <<>> => \A p \in candidates : ~ Lex(cursor, p)
    <2>1. FetchBatch = <<>> => m = 0
      BY <1>6
    <2> QED
      BY <1>3, <1>4, <1>5, <2>1
  <1> QED
    BY <1>3, <1>4, <1>5, <1>6, <1>7, <1>8, <1>9

\* The batch is processed as far as the table of near pairs has room.
LEMMA ComparedFacts ==
    ASSUME rows \in Dataset, limits \in Limits, candidates \subseteq CrossPairs,
           near \subseteq candidates, Cardinality(near) <= limits.pairs,
           NEW batch, batch = FetchBatch, NEW n, n = Compared(batch)
    PROVE  /\ n \in 0..Len(batch)
           /\ IsFiniteSet(NearIn(batch, n)) /\ NearIn(batch, n) \subseteq candidates
           /\ Cardinality(near) + Cardinality(NearIn(batch, n)) <= limits.pairs
           /\ n < Len(batch) =>
                 /\ IsNear(batch[n + 1])
                 /\ Cardinality(near) + Cardinality(NearIn(batch, n)) = limits.pairs
  <1> DEFINE Fits(k) == Cardinality(near) + Cardinality(NearIn(batch, k)) <= limits.pairs
             S == {k \in 0..Len(batch) : Fits(k)}
  <1>1. Len(batch) \in Nat /\ \A j \in 1..Len(batch) : batch[j] \in candidates
    BY FetchFacts
  <1>2. Cardinality(near) \in Nat /\ limits.pairs \in Nat
    BY Room, LimitFacts
  <1>3. ASSUME NEW k \in 0..Len(batch)
        PROVE  /\ NearIn(batch, k) \subseteq candidates /\ IsFiniteSet(NearIn(batch, k))
               /\ Cardinality(NearIn(batch, k)) \in Nat
    <2>1. NearIn(batch, k) \subseteq candidates
      BY <1>1 DEF NearIn
    <2> QED
      BY <2>1, Room
  <1>4. 0 \in S
    <2>1. NearIn(batch, 0) = {}
      BY DEF NearIn
    <2>2. Cardinality(NearIn(batch, 0)) = 0
      BY <2>1, FS_EmptySet
    <2> QED
      BY <1>1, <1>2, <2>2
  <1>5. n \in S /\ \A k \in S : k <= n
    <2>1. S \in SUBSET Nat /\ S # {} /\ \A k \in S : k <= Len(batch)
      BY <1>1, <1>4
    <2>2. n = Max(S)
      BY DEF Compared
    <2> HIDE DEF S
    <2> QED
      BY <1>1, <2>1, <2>2, MaxIsGreatest
  <1>6. ASSUME n < Len(batch)
        PROVE  IsNear(batch[n + 1]) /\ Cardinality(near) + Cardinality(NearIn(batch, n)) = limits.pairs
    <2>1. n \in Nat /\ n + 1 \in 1..Len(batch) /\ n + 1 \in 0..Len(batch)
      BY <1>1, <1>5, <1>6
    <2>2. ~ Fits(n + 1)
      BY <1>5, <2>1
    <2>3. CASE ~ IsNear(batch[n + 1])
      <3>1. NearIn(batch, n + 1) = NearIn(batch, n)
        BY <1>1, <2>1, <2>3 DEF NearIn, IsNear
      <3> QED
        BY <1>5, <2>2, <3>1
    <2>4. CASE IsNear(batch[n + 1])
      <3>1. NearIn(batch, n + 1) = NearIn(batch, n) \cup {batch[n + 1]}
        BY <1>1, <2>1, <2>4 DEF NearIn, IsNear
      <3>2. n \in 0..Len(batch) /\ Fits(n)
        BY <1>5
      <3>3. IsFiniteSet(NearIn(batch, n)) /\ Cardinality(NearIn(batch, n)) \in Nat
            /\ Cardinality(NearIn(batch, n + 1)) \in Nat
        BY <1>3, <2>1, <3>2
      <3>4. Cardinality(NearIn(batch, n + 1)) <= Cardinality(NearIn(batch, n)) + 1
        <4> DEFINE A == NearIn(batch, n)
        <4>1. Cardinality(A \cup {batch[n + 1]}) =
                IF batch[n + 1] \in A THEN Cardinality(A) ELSE Cardinality(A) + 1
          <5> HIDE DEF A
          <5> QED
            BY <3>3, FS_AddElement DEF A
        <4>2. Cardinality(NearIn(batch, n + 1)) = Cardinality(A \cup {batch[n + 1]})
          BY <3>1
        <4>3. Cardinality(A) \in Nat
          BY <3>3
        <4> HIDE DEF A
        <4>4. Cardinality(NearIn(batch, n + 1)) <= Cardinality(A) + 1
          BY <4>1, <4>2, <4>3
        <4> QED
          BY <4>4 DEF A
      <3>5. Cardinality(near) + Cardinality(NearIn(batch, n)) <= limits.pairs
            /\ ~ (Cardinality(near) + Cardinality(NearIn(batch, n + 1)) <= limits.pairs)
        BY <2>2, <3>2
      <3>6. Cardinality(near) + Cardinality(NearIn(batch, n)) = limits.pairs
        <4> DEFINE x == Cardinality(near)
                   a == Cardinality(NearIn(batch, n))
                   b == Cardinality(NearIn(batch, n + 1))
                   l == limits.pairs
        <4>1. x \in Nat /\ l \in Nat /\ a \in Nat /\ b \in Nat
          BY <1>2, <3>3
        <4>2. b <= a + 1 /\ x + a <= l /\ ~ (x + b <= l)
          BY <3>4, <3>5
        <4> HIDE DEF x, a, b, l
        <4>3. x + a = l
          BY <4>1, <4>2
        <4> QED
          BY <4>3 DEF x, a, l
      <3> QED
        BY <2>4, <3>6
    <2> QED
      BY <2>3, <2>4
  <1> QED
    BY <1>3, <1>5, <1>6

\* Before every pair.
LEMMA NoPairIsFirst ==
    ASSUME rows \in Dataset, candidates \subseteq CrossPairs
    PROVE  NearUpTo(NoPair) = {}
  <1>1. \A p \in candidates : p[1] \in Nat
    BY CrossFacts
  <1>2. \A p \in candidates : Lex(NoPair, p)
    BY <1>1 DEF Lex, NoPair
  <1> QED
    BY <1>2 DEF NearUpTo

\* The near pairs are those up to the new cursor, and there are others only where the
\* table of near pairs was found full.
LEMMA CompareFacts ==
    ASSUME rows \in Dataset, limits \in Limits, candidates \subseteq CrossPairs,
           cursor \in candidates \cup {NoPair}, near = NearUpTo(cursor),
           Cardinality(near) <= limits.pairs, FetchBatch # <<>>,
           NEW batch, batch = FetchBatch, NEW n, n = Compared(batch),
           NEW c, c = IF n = 0 THEN cursor ELSE batch[n],
           NEW new, new = near \cup NearIn(batch, n)
    PROVE  /\ c \in candidates \cup {NoPair} /\ new = NearUpTo(c)
           /\ Cardinality(new) <= limits.pairs
           /\ n < Len(batch) =>
                 Cardinality(new) = limits.pairs /\ new # {p \in candidates : IsNear(p)}
  <1>1. near \subseteq candidates /\ IsFiniteSet(near) /\ Cardinality(near) \in Nat
    <2>1. near \subseteq candidates
      BY DEF NearUpTo
    <2> QED
      BY <2>1, Room
  <1>2. /\ Len(batch) \in Nat
        /\ \A j \in 1..Len(batch) : batch[j] \in candidates /\ Lex(cursor, batch[j])
        /\ \A j, k \in 1..Len(batch) : j < k <=> Lex(batch[j], batch[k])
        /\ \A k \in 1..Len(batch) : \A p \in candidates :
               Lex(cursor, p) /\ ~ Lex(batch[k], p) => \E j \in 1..k : batch[j] = p
    BY FetchFacts
  <1>3. /\ n \in 0..Len(batch)
        /\ IsFiniteSet(NearIn(batch, n)) /\ NearIn(batch, n) \subseteq candidates
        /\ Cardinality(near) + Cardinality(NearIn(batch, n)) <= limits.pairs
        /\ n < Len(batch) =>
              /\ IsNear(batch[n + 1])
              /\ Cardinality(near) + Cardinality(NearIn(batch, n)) = limits.pairs
    BY <1>1, ComparedFacts
  <1>4. \A p \in candidates \cup {NoPair} : p \in Int \X Int
    BY CrossFacts DEF NoPair
  <1>5. \A p, q, r \in candidates \cup {NoPair} :
          /\ ~ Lex(p, p)
          /\ Lex(p, q) /\ Lex(q, r) => Lex(p, r)
          /\ Lex(p, q) => ~ Lex(q, p)
    <2>1. \A p, q, r \in Int \X Int :
            /\ ~ Lex(p, p)
            /\ Lex(p, q) /\ Lex(q, r) => Lex(p, r)
            /\ Lex(p, q) => ~ Lex(q, p)
      BY DEF Lex
    <2> QED
      BY <1>4, <2>1
  <1>6. c \in candidates \cup {NoPair}
    BY <1>2, <1>3
  <1>7. \A p : p \in NearIn(batch, n) <=> \E j \in 1..n : batch[j] = p /\ IsNear(p)
    BY DEF NearIn, IsNear
  <1>8. ASSUME NEW p \in new PROVE p \in NearUpTo(c)
    <2>1. p \in candidates
      BY <1>1, <1>3
    <2>2. CASE p \in near
      <3>1. IsNear(p) /\ ~ Lex(cursor, p)
        BY <2>2 DEF NearUpTo
      <3>2. ~ Lex(c, p)
        BY <1>2, <1>3, <1>5, <1>6, <2>1, <3>1
      <3> QED
        BY <2>1, <3>1, <3>2 DEF NearUpTo
    <2>3. CASE p \in NearIn(batch, n)
      <3>1. PICK j \in 1..n : batch[j] = p /\ IsNear(p)
        BY <1>7, <2>3
      <3>2. n \in 1..Len(batch) /\ j \in 1..Len(batch) /\ ~ (n < j)
        BY <1>2, <1>3, <3>1
      <3>3. c = batch[n]
        BY <3>2
      <3>4. ~ Lex(c, p)
        BY <1>2, <3>1, <3>2, <3>3
      <3> QED
        BY <2>1, <3>1, <3>4 DEF NearUpTo
    <2> QED
      BY <2>2, <2>3
  <1>9. ASSUME NEW p \in NearUpTo(c) PROVE p \in new
    <2>1. p \in candidates /\ IsNear(p) /\ ~ Lex(c, p)
      BY <1>9 DEF NearUpTo
    <2>2. CASE ~ Lex(cursor, p)
      BY <2>1, <2>2 DEF NearUpTo
    <2>3. CASE Lex(cursor, p)
      <3>1. n \in 1..Len(batch) /\ c = batch[n]
        BY <1>2, <1>3, <2>1, <2>3
      <3>2. PICK j \in 1..n : batch[j] = p
        BY <1>2, <2>1, <2>3, <3>1
      <3> QED
        BY <1>7, <2>1, <3>2
    <2> QED
      BY <2>2, <2>3
  <1>10. near \cap NearIn(batch, n) = {}
    <2> SUFFICES ASSUME NEW p \in near, p \in NearIn(batch, n) PROVE FALSE
      OBVIOUS
    <2>1. ~ Lex(cursor, p)
      BY DEF NearUpTo
    <2>2. PICK j \in 1..n : batch[j] = p
      BY <1>7
    <2>3. j \in 1..Len(batch)
      BY <1>2, <1>3, <2>2
    <2> QED
      BY <1>2, <2>1, <2>2, <2>3
  <1>11. Cardinality(new) = Cardinality(near) + Cardinality(NearIn(batch, n))
    <2>1. Cardinality(near \cup NearIn(batch, n)) =
            Cardinality(near) + Cardinality(NearIn(batch, n)) - Cardinality(near \cap NearIn(batch, n))
      BY <1>1, <1>3, FS_Union
    <2>2. Cardinality(near \cap NearIn(batch, n)) = 0
      BY <1>10, FS_EmptySet
    <2>3. Cardinality(NearIn(batch, n)) \in Nat
      BY <1>3, FS_CardinalityType
    <2> QED
      BY <1>1, <2>1, <2>2, <2>3
  <1>12. ASSUME n < Len(batch) PROVE new # {p \in candidates : IsNear(p)}
    <2>1. n + 1 \in 1..Len(batch)
      BY <1>2, <1>3, <1>12
    <2>2. batch[n + 1] \in candidates /\ IsNear(batch[n + 1]) /\ Lex(cursor, batch[n + 1])
      BY <1>2, <1>3, <1>12, <2>1
    <2>3. Lex(c, batch[n + 1])
      <3>1. CASE n = 0
        BY <2>2, <3>1
      <3>2. CASE n # 0
        <4>1. n \in 1..Len(batch) /\ n < n + 1 /\ c = batch[n]
          BY <1>2, <1>3, <3>2
        <4> QED
          BY <1>2, <2>1, <4>1
      <3> QED
        BY <3>1, <3>2
    <2>4. batch[n + 1] \notin NearUpTo(c)
      BY <2>3 DEF NearUpTo
    <2> QED
      BY <1>8, <2>2, <2>4
  <1> QED
    BY <1>3, <1>6, <1>8, <1>9, <1>11, <1>12

\* What the comparison knows before its next batch.
LEMMA ComparisonFacts ==
    ASSUME ScanInv, pc = "compare"
    PROVE  /\ rows \in Dataset /\ limits \in Limits /\ TablesInv /\ scanPhase = {}
           /\ candidates \subseteq CrossPairs /\ cursor \in candidates \cup {NoPair}
           /\ near = NearUpTo(cursor) /\ Cardinality(near) <= limits.pairs
  <1>1. rows \in Dataset /\ limits \in Limits /\ TablesInv /\ scanPhase = {}
    BY DEF ScanInv, ComparisonInv
  <1>2. candidates \subseteq CrossPairs
    BY <1>1, BucketFacts DEF TablesInv
  <1>3. CASE cmpMark = {cursor}
    BY <1>1, <1>2, <1>3 DEF TablesInv
  <1>4. CASE cmpMark = {} /\ cursor = NoPair
    BY <1>1, <1>2, <1>4, NoPairIsFirst DEF TablesInv
  <1> QED
    BY <1>1, <1>2, <1>3, <1>4 DEF ScanInv, ComparisonInv

LEMMA CompareNextInv == ASSUME ScanInv, CompareNext PROVE ScanInv'
  <1>1. /\ UNCHANGED <<context, candidates, genMark, scanPhase>> /\ limits' = limits /\ rows' = rows
        /\ edits' = edits /\ reports' = reports /\ pc' = "compare" /\ pc = "compare" /\ ~ cut
        /\ oversized' = oversized /\ truncated' = truncated /\ cmpMark' = {cursor'}
        /\ FetchBatch # <<>>
    BY DEF CompareNext, world, context
  <1>2. PICK batch : batch = FetchBatch
    OBVIOUS
  <1>3. PICK n : n = Compared(batch)
    OBVIOUS
  <1>4. PICK new : new = near'
    OBVIOUS
  <1>5. PICK c : c = cursor'
    OBVIOUS
  <1>6. new = near \cup NearIn(batch, n) /\ cut' = (n < Len(batch))
        /\ c = IF n = 0 THEN cursor ELSE batch[n]
    BY <1>2, <1>3, <1>4, <1>5 DEF CompareNext
  <1>7. /\ rows \in Dataset /\ limits \in Limits /\ TablesInv /\ scanPhase = {}
        /\ candidates \subseteq CrossPairs /\ cursor \in candidates \cup {NoPair}
        /\ near = NearUpTo(cursor) /\ Cardinality(near) <= limits.pairs
    BY <1>1, ComparisonFacts
  <1>8. /\ c \in candidates \cup {NoPair} /\ new = NearUpTo(c)
        /\ Cardinality(new) <= limits.pairs
        /\ n < Len(batch) =>
              Cardinality(new) = limits.pairs /\ new # {p \in candidates : IsNear(p)}
    BY <1>1, <1>2, <1>3, <1>6, <1>7, CompareFacts
  <1>9. /\ \A k : Generated(k)' <=> Generated(k)
        /\ \A x : NearUpTo(x)' = NearUpTo(x)
        /\ Over' <=> Over
    BY <1>1, SameContext DEF Generated, NearUpTo, Over
  <1>10. Over
    BY <1>1 DEF ScanInv, ComparisonInv
  <1>11. TablesInv'
    <2>1. (\A m \in genMark :
              /\ genMark = {m} /\ m.position \in 1..Last /\ m.oversized \in Nat
              /\ Ample => Generated(m.position) /\ (m.oversized = 0 <=> NoneBig(m.position)))'
      BY <1>1, <1>7, <1>9, SameContext DEF TablesInv
    <2>2. (\A x \in cmpMark : cmpMark = {x} /\ x \in candidates \cup {NoPair} /\ near = NearUpTo(x))'
      BY <1>1, <1>4, <1>5, <1>8, <1>9
    <2>3. candidates' \subseteq Wanted' /\ Cardinality(near') <= limits'.pairs
      BY <1>1, <1>4, <1>7, <1>8, SameContext DEF TablesInv
    <2> QED
      BY <1>1, <1>9, <1>10, <2>1, <2>2, <2>3 DEF TablesInv
  <1>12. ComparisonInv'
    <2>1. cut' => n < Len(batch)
      BY <1>6, Zenon
    <2>2. {p \in candidates : IsNear(p)}' = {p \in candidates : IsNear(p)}
      BY <1>1, SameContext
    <2>3. (cut => Cardinality(near) = limits.pairs /\ near # {p \in candidates : IsNear(p)})'
      BY <1>1, <1>4, <1>8, <2>1, <2>2
    <2>4. (Ample => candidates = Wanted /\ ~ truncated /\ (oversized = 0 <=> NoneBig(Last)))'
      BY <1>1, SameContext DEF ScanInv, ComparisonInv
    <2> QED
      BY <1>1, <1>7, <1>9, <1>10, <2>3, <2>4 DEF ComparisonInv
  <1>13. GenerationInv'
    BY <1>1 DEF GenerationInv
  <1>14. ResultsInv'
    BY <1>1, <1>7, SameContext DEF ScanInv, ResultsInv, Published
  <1> QED
    BY <1>1, <1>11, <1>12, <1>13, <1>14 DEF ScanInv

\* A scan that comes to its end has the near pairs of its context, or as many as the
\* limit allows, the first ones.
LEMMA ScanIsFinal ==
    ASSUME ScanInv, pc = "compare", cut \/ FetchBatch = <<>>, Ample
    PROVE  Final(near, ScanComplete)
  <1>1. /\ rows \in Dataset /\ limits \in Limits
        /\ candidates \subseteq CrossPairs /\ cursor \in candidates \cup {NoPair}
        /\ near = NearUpTo(cursor) /\ Cardinality(near) <= limits.pairs
    BY ComparisonFacts
  <1>2. /\ candidates = Wanted /\ ~ truncated /\ (oversized = 0 <=> NoneBig(Last))
        /\ cut => Cardinality(near) = limits.pairs /\ near # {p \in candidates : IsNear(p)}
    BY DEF ScanInv, ComparisonInv
  <1>3. NearWanted = {p \in candidates : IsNear(p)}
    BY <1>2 DEF NearWanted
  <1>4. ~ cut => near = NearWanted
    <2>1. ~ cut => \A p \in candidates : ~ Lex(cursor, p)
      BY <1>1, FetchFacts
    <2> QED
      BY <1>1, <1>3, <2>1 DEF NearUpTo
  <1>5. ASSUME NEW p \in near, NEW q \in NearWanted, Lex(q, p) PROVE q \in near
    <2>1. q \in candidates /\ IsNear(q) /\ p \in candidates /\ ~ Lex(cursor, p)
      BY <1>1, <1>3 DEF NearUpTo
    <2>2. p \in Int \X Int /\ q \in Int \X Int /\ cursor \in Int \X Int
      BY <1>1, <2>1, CrossFacts DEF NoPair
    <2>3. Lex(cursor, q) => Lex(cursor, p)
      BY <1>5, <2>2 DEF Lex
    <2> QED
      BY <1>1, <2>1, <2>3 DEF NearUpTo
  <1>6. ScanComplete <=> oversized = 0 /\ ~ cut
    BY <1>1, <1>2, LimitFacts DEF ScanComplete
  <1>7. near \subseteq NearWanted
    BY <1>1, <1>3 DEF NearUpTo
  <1>8. near = NearWanted \/ Cardinality(near) = limits.pairs
    BY <1>2, <1>4
  <1>9. ScanComplete = (near = NearWanted /\ NoneBig(Last))
    <2>1. ScanComplete <=> near = NearWanted /\ NoneBig(Last)
      BY <1>2, <1>3, <1>4, <1>6
    <2>2. ScanComplete \in BOOLEAN
      BY DEF ScanComplete
    <2> QED
      BY <2>1, <2>2
  <1> QED
    BY <1>1, <1>5, <1>7, <1>8, <1>9 DEF Final

LEMMA FinishScanInv == ASSUME ScanInv, FinishScan PROVE ScanInv'
  <1>1. /\ UNCHANGED <<context, candidates, near, genMark, cmpMark>>
        /\ limits' = limits /\ rows' = rows
        /\ edits' = edits /\ reports' = reports /\ pc' = "report" /\ pc = "compare"
        /\ scanPhase' = {[candidates |-> candidates, pairs |-> near, complete |-> ScanComplete]}
        /\ (cut \/ FetchBatch = <<>>)
    BY DEF FinishScan, world, context, Proceed
  <1>2. TablesInv'
    BY <1>1, ComparisonFacts, SameTables
  <1>3. GenerationInv' /\ ComparisonInv'
    BY <1>1 DEF GenerationInv, ComparisonInv
  <1>4. PICK m : m = [candidates |-> candidates, pairs |-> near, complete |-> ScanComplete]
    OBVIOUS
  <1>5. scanPhase' = {m} /\ m.pairs = near /\ (Ample => Final(m.pairs, m.complete))
    <2>1. m.pairs = near /\ m.complete = ScanComplete
      BY <1>4
    <2> QED
      BY <1>1, <1>4, <2>1, ScanIsFinal
  <1>6. Final(m.pairs, m.complete)' <=> Final(m.pairs, m.complete)
    BY <1>1, SameContext
  <1>7. ResultsInv'
    <2>1. (\A r \in Published : Ample => Final(r.pairs, r.complete))'
      BY <1>1, SameContext DEF ScanInv, ResultsInv, Published
    <2>2. (\A x \in scanPhase : scanPhase = {x} /\ (Ample => Final(x.pairs, x.complete)))'
      BY <1>1, <1>5, <1>6, SameContext
    <2>3. (\E x \in scanPhase : x.pairs = near)'
      BY <1>1, <1>5
    <2> QED
      BY <2>1, <2>2, <2>3 DEF ResultsInv
  <1> QED
    BY <1>1, <1>2, <1>3, <1>7 DEF ScanInv

LEMMA PublishInv == ASSUME ScanInv, PublishReport PROVE ScanInv'
  <1>1. /\ UNCHANGED <<context, candidates, near, genMark, cmpMark, scanPhase>> /\ limits' = limits
        /\ rows' = rows /\ edits' = edits /\ pc' = "idle" /\ pc = "report"
    BY DEF PublishReport, End, tables, context
  <1>2. (scanPhase = {} \/ edits = 0 => TablesInv)'
    BY <1>1, SameTables DEF ScanInv
  <1>3. GenerationInv' /\ ComparisonInv'
    BY <1>1 DEF GenerationInv, ComparisonInv
  <1>4. PICK m \in scanPhase : reports' = [reports EXCEPT ![run.output] =
              {[status |-> Status(m.complete), complete |-> m.complete, pairs |-> near,
                overlap |-> ExactOverlap]}]
    BY DEF PublishReport
  <1>5. m.pairs = near /\ (Ample => Final(m.pairs, m.complete))
    BY <1>1 DEF ScanInv, ResultsInv
  <1>6. PICK r : r = [status |-> Status(m.complete), complete |-> m.complete, pairs |-> near,
                      overlap |-> ExactOverlap]
    OBVIOUS
  <1>7. r.pairs = m.pairs /\ r.complete = m.complete
    BY <1>5, <1>6
  <1>8. DOMAIN reports' = Output /\ \A o \in Output : reports'[o] = reports[o] \/ reports'[o] = {r}
    BY <1>4, <1>6 DEF ScanInv
  <1>9. \A s \in Published' : s \in Published \/ s = r
    BY <1>8 DEF Published
  <1>10. \A s \in Published' : Ample => Final(s.pairs, s.complete)
    BY <1>5, <1>7, <1>9 DEF ScanInv, ResultsInv
  <1>11. ResultsInv'
    BY <1>1, <1>10, SameContext DEF ScanInv, ResultsInv
  <1> QED
    BY <1>1, <1>2, <1>3, <1>8, <1>11 DEF ScanInv

-----------------------------------------------------------------------------
(* Theorems.                                                               *)

LEMMA StutterInv == ASSUME ScanInv, UNCHANGED scanVars PROVE ScanInv'
  <1>1. /\ UNCHANGED <<context, candidates, near, genMark, cmpMark, scanPhase, reports, edits>>
        /\ rows' = rows /\ limits' = limits
        /\ UNCHANGED <<pc, pos, at, oversized, truncated, full, cursor, cut, candidates, near,
                       genMark, cmpMark, scanPhase, reports, edits>>
    BY DEF scanVars, context, tables, locals, world
  <1>2. (scanPhase = {} \/ edits = 0 => TablesInv)'
    BY <1>1, SameTables DEF ScanInv
  <1>3. GenerationInv'
    <2>1. \A k : Generated(k)' <=> Generated(k)
      BY <1>1, SameContext DEF Generated
    <2>2. BucketPairs' = BucketPairs /\ (InRange' <=> InRange)
      BY <1>1 DEF BucketPairs, InRange, OrderedBuckets
    <2>3. (\A n \in DOMAIN BucketPairs : n <= at => Keys(BucketPairs[n]) \in candidates)'
            <=> \A n \in DOMAIN BucketPairs : n <= at => Keys(BucketPairs[n]) \in candidates
      BY <1>1, <2>2 DEF Keys
    <2> QED
      BY <1>1, <2>1, <2>2, <2>3, SameContext DEF ScanInv, GenerationInv
  <1>4. ComparisonInv'
    BY <1>1, SameContext DEF ScanInv, ComparisonInv, Over
  <1>5. ResultsInv'
    BY <1>1, SameContext DEF ScanInv, ResultsInv, Published
  <1> QED
    BY <1>1, <1>2, <1>3, <1>4, <1>5 DEF ScanInv

\* What the tables and the process know of the context holds in every state.
\* (_compute_near_pairs, IntegrityAuditCache)
THEOREM ScanInvariance == ScanSpec => []ScanInv
  <1>1. ASSUME ScanInv, [ScanNext]_scanVars PROVE ScanInv'
    <2>1. CASE \E o \in Output, checks \in Checks : StartAudit(o, checks)
      BY <1>1, <2>1, QuietSteps
    <2>2. CASE ReuseRows \/ PutVisibleRows \/ MarkRowsComplete \/ Crash
      BY <1>1, <2>2, QuietSteps
    <2>3. CASE DiscardRows
      BY <1>1, <2>3, DiscardInv
    <2>4. CASE ReuseScan
      BY <1>1, <2>4, ReuseInv
    <2>5. CASE BeginGeneration
      BY <1>1, <2>5, BeginGenerationInv
    <2>6. CASE FlushFull \/ FlushRest
      BY <1>1, <2>6, FlushesInv
    <2>7. CASE CompleteBucket
      BY <1>1, <2>7, CompleteBucketInv
    <2>8. CASE BeginComparison
      BY <1>1, <2>8, BeginComparisonInv
    <2>9. CASE CompareNext
      BY <1>1, <2>9, CompareNextInv
    <2>10. CASE FinishScan
      BY <1>1, <2>10, FinishScanInv
    <2>11. CASE PublishReport
      BY <1>1, <2>11, PublishInv
    <2>12. CASE EditCache
      BY <1>1, <2>12, EditInv
    <2>13. CASE UNCHANGED scanVars
      BY <1>1, <2>13, StutterInv
    <2> QED
      BY <1>1, <2>1, <2>2, <2>3, <2>4, <2>5, <2>6, <2>7, <2>8, <2>9, <2>10, <2>11, <2>12, <2>13
         DEF ScanNext, ScanStep
  <1> QED
    BY <1>1, InitScan, PTL DEF ScanSpec

\* A report that calls its scan complete lists every pair of rows across roles and
\* repositories within the radius, if the candidate limit is ample.
\* (_compute_near_pairs, near_duplicate_report)
THEOREM CompleteScans == ScanSpec => []CompleteScanIsExhaustive
  <1>1. ScanInv => CompleteScanIsExhaustive
    <2> SUFFICES ASSUME ScanInv, Ample, NEW r \in Published, r.complete
                 PROVE  r.pairs = NearDuplicates
      BY DEF CompleteScanIsExhaustive
    <2>1. rows \in Dataset /\ limits \in Limits /\ Final(r.pairs, r.complete)
      BY DEF ScanInv, ResultsInv
    <2>2. r.pairs = NearWanted /\ NoneBig(Last)
      BY <2>1 DEF Final
    <2> QED
      BY <2>1, <2>2, NearWantedIsExhaustive
  <1> QED
    BY <1>1, ScanInvariance, PTL

\* The context leaves one final result.
LEMMA FinalIsUnique ==
    ASSUME rows \in Dataset, limits \in Limits,
           NEW P, NEW c, Final(P, c), NEW Q, NEW d, Final(Q, d)
    PROVE  P = Q /\ c = d
  <1>1. NearWanted \subseteq CrossPairs
    BY BucketFacts DEF NearWanted
  <1>2. ASSUME NEW A, NEW B, A \subseteq B, B \subseteq NearWanted, Cardinality(B) <= limits.pairs,
               A = NearWanted \/ Cardinality(A) = limits.pairs
        PROVE  A = B
    <2>1. IsFiniteSet(B) /\ Cardinality(B) \in Nat /\ limits.pairs \in Nat
      BY <1>1, <1>2, Room, LimitFacts
    <2>2. Cardinality(A) <= Cardinality(B) /\ (Cardinality(B) = Cardinality(A) => B = A)
      BY <1>2, <2>1, FS_Subset
    <2>3. CASE A = NearWanted
      BY <1>2, <2>3
    <2>4. CASE Cardinality(A) = limits.pairs
      BY <1>2, <2>1, <2>2, <2>4
    <2> QED
      BY <1>2, <2>3, <2>4
  <1>3. P \subseteq Q \/ Q \subseteq P
    <2> SUFFICES ASSUME NEW p \in P, p \notin Q, NEW q \in Q, q \notin P PROVE FALSE
      OBVIOUS
    <2>1. p \in NearWanted /\ q \in NearWanted
      BY DEF Final
    <2>2. p \in Int \X Int /\ q \in Int \X Int /\ p # q
      BY <1>1, <2>1, CrossFacts
    <2>3. Lex(p, q) \/ Lex(q, p)
      BY <2>2 DEF Lex
    <2> QED
      BY <2>1, <2>3 DEF Final
  <1>4. P = Q
    BY <1>2, <1>3 DEF Final
  <1>5. c = (P = NearWanted /\ NoneBig(Last)) /\ d = (Q = NearWanted /\ NoneBig(Last))
    BY DEF Final
  <1> QED
    BY <1>4, <1>5

\* Audits of one context agree, however often they died and resumed, and whatever was
\* edited in between, if the candidate limit is ample.  (near_duplicate_report,
\* load_or_reconstruct_visible_rows)
THEOREM Agreement == ScanSpec => []AuditsAgree
  <1>1. ScanInv => AuditsAgree
    <2> SUFFICES ASSUME ScanInv, Ample, NEW r \in Published, NEW s \in Published
                 PROVE  r.complete = s.complete /\ r.pairs = s.pairs
      BY DEF AuditsAgree
    <2>1. rows \in Dataset /\ limits \in Limits
          /\ Final(r.pairs, r.complete) /\ Final(s.pairs, s.complete)
      BY DEF ScanInv, ResultsInv
    <2> QED
      BY <2>1, FinalIsUnique
  <1> QED
    BY <1>1, ScanInvariance, PTL

\* Each near candidate up to the comparison checkpoint is a stored near pair, and
\* nothing else is.  (commit_comparison_batch)
THEOREM CursorCovers == ScanSpec => []CursorCoversNearPairs
  <1>1. ScanInv => CursorCoversNearPairs
    <2> SUFFICES ASSUME ScanInv, edits = 0 PROVE CursorCoversNearPairs
      BY DEF CursorCoversNearPairs
    <2>1. TablesInv
      BY DEF ScanInv
    <2>2. near \subseteq {p \in candidates : Distance(p) <= limits.hamming}
      <3>1. CASE cmpMark = {}
        BY <2>1, <3>1 DEF TablesInv
      <3>2. CASE cmpMark # {}
        BY <2>1, <3>2 DEF TablesInv, NearUpTo, IsNear
      <3> QED
        BY <3>1, <3>2
    <2>3. \A m \in cmpMark, p \in candidates :
              Distance(p) <= limits.hamming /\ ~ Lex(m, p) => p \in near
      BY <2>1 DEF TablesInv, NearUpTo, IsNear
    <2> QED
      BY <2>2, <2>3 DEF CursorCoversNearPairs
  <1> QED
    BY <1>1, ScanInvariance, PTL
=============================================================================
