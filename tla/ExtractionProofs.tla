--------------------------- MODULE ExtractionProofs ---------------------------
(***************************************************************************)
(* Proofs about the extraction of embeddings and the verification of two   *)
(* runs, for any splits, setups, machines, workers, directories and        *)
(* databases, and any number of runs and faults.                           *)
(*                                                                         *)
(* What a run may rely on (Sound) is that nothing tore a batch, or that it *)
(* reads nothing.  It then holds the vectors of whole frozen batches       *)
(* (HeldInv): those a database has are of whole batches because one run    *)
(* uses it at a time and puts a batch to the end or not at all (StoredInv, *)
(* PutInv), and those in a chunk file are because a sidecar names them     *)
(* (FilesInv).                                                             *)
(***************************************************************************)
EXTENDS EmbeddingExtraction, SequenceTheorems, FiniteSetTheorems, WellFoundedInduction, TLAPS

-----------------------------------------------------------------------------
(* The invariant.                                                          *)

IsSequence(s) == s \in Seq({s[i] : i \in DOMAIN s})

\* Whether the vectors of a run are known to be those of frozen batches.
Sound(mode) == mode = "read-write" => ~ torn

FrozenVector(u, r) ==
    [setup : {u}, row : {r}, batch : {FrozenBatch[u][r]}, grade : Grade, by : Nat]

\* The vectors a run in this mode may have for a row: its own, if it reads nothing.
MayHold(mode, u, id, r) ==
    {v \in FrozenVector(u, r) : mode # "read-write" => v.by = id}

Fields == {"id", "dir", "db", "mode", "setup", "grade", "stage", "split", "chunk", "digests",
           "loaded", "held", "put", "hits", "misses", "resumed", "done"}
BatchStage == {"read", "verify", "lookup", "embed", "put", "matrix", "sidecar"}

IsRun(x) ==
    /\ x = [f \in Fields |-> x[f]]
    /\ x.id \in 1..runs /\ x.dir \in Dir /\ x.mode \in Mode /\ x.db \in Database(x.mode)
    /\ x.setup \in Setup /\ x.grade \in Grade
    /\ x.stage \in BatchStage \cup {"load", "final", "digest", "report"}
    /\ x.split \in DOMAIN Splits /\ x.chunk \in 1..ChunkCount(x.setup, x.split)
    /\ x.stage \in {"final", "digest"} => x.chunk = ChunkCount(x.setup, x.split)
    /\ DOMAIN x.held = Row

\* The chunks of the split whose rows a run has.
Reached(x) ==
    IF x.stage \in {"load", "read", "verify", "lookup", "embed"} THEN x.chunk - 1 ELSE x.chunk

Has(x, r) == x.held[r] # {} /\ x.held[r] \subseteq MayHold(x.mode, x.setup, x.id, r)

Stored(d, u, batch) == \A r \in ToSet(batch) : stored[d][u][r] # {}
NotStored(d, u, batch) == \A r \in ToSet(batch) : stored[d][u][r] = {}

HeldInv(x) ==
    /\ x.stage # "report" =>
          \A k \in 1..Reached(x) : \A r \in ToSet(ChunkRows(x.setup, x.split, k)) : Has(x, r)
    /\ x.stage = "embed" =>
          \/ /\ \A r \in ToSet(BatchOf(x)) : Has(x, r)
             /\ x.mode = "read-write" /\ Stored(x.db, x.setup, BatchOf(x))
          \/ /\ \A r \in ToSet(BatchOf(x)) : x.held[r] = {}
             /\ x.mode = "read-write" => NotStored(x.db, x.setup, BatchOf(x))

\* A put has reached position n of its batch; the others are stored or none of them is.
PutInv(x) ==
    \/ x.mode = "off" /\ x.put = <<>>
    \/ /\ x.mode # "off"
       /\ \E n \in 0..Len(BatchOf(x)) :
             /\ x.put = SubSeq(BatchOf(x), n + 1, Len(BatchOf(x)))
             /\ Stored(x.db, x.setup, SubSeq(BatchOf(x), 1, n))
             /\ \/ Stored(x.db, x.setup, x.put)
                \/ /\ NotStored(x.db, x.setup, x.put)
                   /\ \A r \in ToSet(BatchOf(x)) : \A v \in x.held[r] : v.by = x.id

\* The matrices of the splits that a run or a report has.
MatricesInv(mode, u, id, artifacts, n) ==
    /\ IsSequence(artifacts) /\ Len(artifacts) = n
    /\ \A s \in 1..n :
          /\ DOMAIN artifacts[s].array = DOMAIN Splits[s]
          /\ \A i \in DOMAIN Splits[s] :
                artifacts[s].array[i] \in MayHold(mode, u, id, Splits[s][i])

Done(x) == IF x.stage = "report" THEN Len(Splits) ELSE x.split - 1

AnyVector == [setup : Setup, row : Row, batch : Seq(Row), grade : Grade, by : Nat]

\* What a run has read of a chunk that it may reuse.
ChunkInv(x) ==
    x.stage \in {"read", "verify"} /\ ~ torn =>
        /\ x.stage = "verify" => x.loaded \subseteq Seq(AnyVector)
        /\ \A c \in x.digests :
              /\ DOMAIN c.array = DOMAIN BatchOf(x)
              /\ \A i \in DOMAIN BatchOf(x) : c.array[i] \in FrozenVector(x.setup, BatchOf(x)[i])

RunInv(x) ==
    /\ IsRun(x) /\ ChunkInv(x)
    /\ x.stage \in {"read", "verify"} => x.mode = "read-write"
    /\ Sound(x.mode) => HeldInv(x) /\ MatricesInv(x.mode, x.setup, x.id, x.done, Done(x))
    /\ x.stage = "put" /\ ~ torn => PutInv(x)

\* Reports in a directory or in the verification under way.
Written == UNION {report[d] : d \in Dir}
InReview == UNION {ToSet(v.reports) : v \in review}
Known == Written \cup InReview

IdInv ==
    /\ \A w \in Worker : \A x \in run[w] :
          /\ run[w] = {x}
          /\ \A v \in Worker : \A y \in run[v] : y.id = x.id => v = w
          /\ \A r \in Known : r.by # x.id
    /\ \A r \in Known : r.by \in 1..runs
    /\ \A r, q \in Known : r.by = q.by => r.db = q.db

\* A database is used by one run.
AloneInv == \A v, w \in Worker : \A x \in run[v], y \in run[w] :
    x.db = y.db => x.db = "none" \/ v = w

Putting(d, c) == \E w \in Worker : \E x \in run[w] : x.db = d /\ x.stage = "put" /\ Here(x) = c

StoredInv == \A d \in Db :
    /\ \A u \in Setup, r \in Row : stored[d][u][r] \subseteq FrozenVector(u, r)
    /\ \A c \in Chunk :
          LET batch == ChunkRows(c[1], c[2], c[3])
          IN  Stored(d, c[1], batch) \/ NotStored(d, c[1], batch) \/ Putting(d, c)

FilesInv == \A d \in Dir, c \in Chunk :
    /\ matrix[d][c] \subseteq Seq(AnyVector)
    /\ \A s \in sidecar[d][c] :
          LET batch == ChunkRows(c[1], c[2], c[3])
          IN  /\ DOMAIN s.array = DOMAIN batch
              /\ \A i \in DOMAIN batch : s.array[i] \in FrozenVector(c[1], batch[i])

ReportInv(r) ==
    /\ r.setup \in Setup
    /\ Sound(r.mode) => MatricesInv(r.mode, r.setup, r.by, r.artifacts, Len(Splits))

ReviewInv == \A v \in review :
    /\ v = [dirs |-> v.dirs, reports |-> v.reports, checked |-> v.checked,
            loaded |-> v.loaded, named |-> v.named]
    /\ v.dirs \in Dir \X Dir
    /\ IsSequence(v.reports) /\ \A i \in DOMAIN v.reports : v.reports[i].mode = "refresh"

Domains ==
    /\ DOMAIN run = Worker /\ DOMAIN report = Dir /\ torn \in BOOLEAN /\ runs \in Nat
    /\ DOMAIN stored = Db /\ \A d \in Db : DOMAIN stored[d] = Setup
    /\ \A d \in Db, u \in Setup : DOMAIN stored[d][u] = Row
    /\ DOMAIN matrix = Dir /\ DOMAIN sidecar = Dir
    /\ \A d \in Dir : DOMAIN matrix[d] = Chunk /\ DOMAIN sidecar[d] = Chunk

ExtractionInv ==
    /\ Domains /\ IdInv
    /\ \A w \in Worker : \A x \in run[w] : RunInv(x)
    /\ \A r \in Known : ReportInv(r)
    /\ ~ torn => AloneInv /\ StoredInv /\ FilesInv
    /\ ReviewInv /\ CheckpointIsReproduced

-----------------------------------------------------------------------------
(* Chunks.                                                                 *)

\* A nonempty set of numbers has a least one.
LEMMA LeastExists ==
    ASSUME NEW S \in SUBSET Nat, S # {}
    PROVE  \E x \in S : \A y \in S : x <= y
  <1>1. PICK n \in S : TRUE
    OBVIOUS
  <1> DEFINE Low == {0..k : k \in {j \in S : j <= n}}
  <1>2. 0..n \in Low
    OBVIOUS
  <1>3. Low \subseteq FiniteSubsetsOf(0..n)
    <2>1. \A k \in Nat : k <= n => 0..k \in SUBSET (0..n) /\ IsFiniteSet(0..k)
      BY FS_Interval
    <2> QED
      BY <2>1 DEF FiniteSubsetsOf
  <1>4. IsWellFoundedOn(StrictSubsetOrdering(0..n), FiniteSubsetsOf(0..n))
    BY FS_StrictSubsetOrderingWellFounded
  <1> HIDE DEF Low
  <1>5. PICK T \in Low : \A U \in Low : ~ (<<U, T>> \in StrictSubsetOrdering(0..n))
    BY <1>2, <1>3, <1>4, WFMin
  <1>6. PICK x \in S : T = 0..x /\ x <= n
    BY <1>5 DEF Low
  <1>7. ASSUME NEW y \in S, y < x PROVE FALSE
    <2>1. 0..y \in Low
      BY <1>6, <1>7 DEF Low
    <2>2. 0..y \subseteq T /\ 0..y # T /\ T \subseteq 0..n
      BY <1>6, <1>7
    <2> QED
      BY <1>5, <2>1, <2>2 DEF StrictSubsetOrdering
  <1> QED
    BY <1>7

LEMMA SplitFacts ==
    /\ Splits \in Seq(Seq(Row)) /\ Len(Splits) \in Nat \ {0} /\ DOMAIN Splits = 1..Len(Splits)
    /\ \A s \in DOMAIN Splits :
          /\ Splits[s] \in Seq(Row) /\ Len(Splits[s]) \in Nat \ {0}
          /\ DOMAIN Splits[s] = 1..Len(Splits[s])
  <1>1. Splits \in Seq(Seq(Row)) /\ Len(Splits) \in Nat /\ DOMAIN Splits = 1..Len(Splits)
        /\ \A s \in DOMAIN Splits : Splits[s] \in Seq(Row) /\ Splits[s] # <<>>
    BY ExtractionAssumption
  <1>2. \A q \in Seq(Row) : q # <<>> => Len(q) \in Nat \ {0} /\ DOMAIN q = 1..Len(q)
    OBVIOUS
  <1>3. Len(Splits) # 0
    BY ExtractionAssumption
  <1> QED
    BY <1>1, <1>2, <1>3

\* The chunks of a split: its rows, one chunk after the other.
LEMMA ChunkFacts ==
    ASSUME NEW u \in Setup, NEW t \in DOMAIN Splits, NEW k \in 1..ChunkCount(u, t)
    PROVE  /\ ChunkRows(u, t, k) \in Seq(Row) /\ ChunkRows(u, t, k) # <<>>
           /\ \A r \in ToSet(ChunkRows(u, t, k)) : \E i \in DOMAIN Splits[t] :
                  /\ Splits[t][i] = r
                  /\ (k - 1) * u.batchSize < i /\ i <= k * u.batchSize
           /\ \A i \in DOMAIN Splits[t] : (k - 1) * u.batchSize < i /\ i <= k * u.batchSize =>
                  Splits[t][i] \in ToSet(ChunkRows(u, t, k))
           /\ \A i, j \in DOMAIN ChunkRows(u, t, k) :
                  ChunkRows(u, t, k)[i] = ChunkRows(u, t, k)[j] => i = j
  <1> DEFINE rows == Splits[t]  n == Len(rows)  B == u.batchSize
             s == (k - 1) * B + 1  e == Least(s + B - 1, n)
  <1>1. rows \in Seq(Row) /\ n \in Nat /\ DOMAIN rows = 1..n /\ B \in Nat \ {0}
    BY SplitFacts, ExtractionAssumption
  <1>2. k \in 1..((n + B - 1) \div B)
    BY DEF ChunkCount
  <1>3. ChunkRows(u, t, k) = SubSeq(rows, s, e) /\ n = Len(rows)
    BY DEF ChunkRows
  <1> HIDE DEF B, n, rows
  <1>4. k \in Nat \ {0} /\ s - 1 = k * B - B /\ s \in Nat \ {0} /\ s <= n
    <2>1. (n + B - 1) \div B \in Int
          /\ ((n + B - 1) \div B) * B <= n + B - 1
      BY <1>1
    <2>2. k \in Nat \ {0} /\ k * B <= ((n + B - 1) \div B) * B
      BY <1>1, <1>2, <2>1
    <2>3. k * B \in Nat /\ (k - 1) * B \in Nat
          /\ (k - 1) * B = k * B - B
      BY <1>1, <2>2
    <2> QED
      BY <1>1, <2>1, <2>2, <2>3
  <1>5. e \in Nat /\ s <= e /\ e <= n /\ e <= k * B /\ (e = n \/ e = k * B)
    BY <1>1, <1>4 DEF Least
  <1>6. \A i \in 1..n : i \in s..e <=> (k - 1) * B < i /\ i <= k * B
    BY <1>1, <1>4, <1>5
  <1> HIDE DEF e, s
  <1>7. /\ SubSeq(rows, s, e) \in Seq(Row) /\ Len(SubSeq(rows, s, e)) = e - s + 1
        /\ \A i \in 1..(e - s + 1) : SubSeq(rows, s, e)[i] = rows[s + i - 1]
    <2>1. s \in Nat \ {0} /\ e \in Nat /\ s <= e /\ e <= n
      BY <1>4, <1>5
    <2>2. \A i \in s..e : rows[i] \in Row
      <3>1. \A i \in s..e : i \in 1..n
        BY <1>1, <2>1
      <3> QED
        BY <1>1, <3>1
    <2> QED
      BY <2>1, <2>2, SubSeqProperties
  <1>8. ToSet(SubSeq(rows, s, e)) = {rows[i] : i \in s..e}
    <2>1. DOMAIN SubSeq(rows, s, e) = 1..(e - s + 1)
      BY <1>7
    <2>2. \A i \in 1..(e - s + 1) : s + i - 1 \in s..e
      BY <1>4, <1>5
    <2>3. \A i \in s..e : i - s + 1 \in 1..(e - s + 1) /\ s + (i - s + 1) - 1 = i
      BY <1>4, <1>5
    <2>4. ASSUME NEW r \in ToSet(SubSeq(rows, s, e)) PROVE r \in {rows[i] : i \in s..e}
      BY <1>7, <2>1, <2>2, <2>4 DEF ToSet
    <2>5. ASSUME NEW i \in s..e PROVE rows[i] \in ToSet(SubSeq(rows, s, e))
      <3>1. i - s + 1 \in 1..(e - s + 1) /\ SubSeq(rows, s, e)[i - s + 1] = rows[i]
        BY <1>7, <2>3, <2>5
      <3> QED
        BY <2>1, <3>1 DEF ToSet
    <2> QED
      BY <2>4, <2>5
  <1>9. s..e \subseteq 1..n /\ SubSeq(rows, s, e) # <<>>
    <2>1. s..e \subseteq 1..n
      BY <1>1, <1>4, <1>5
    <2>2. Len(SubSeq(rows, s, e)) # 0
      BY <1>4, <1>5, <1>7
    <2>3. Len(<<>>) = 0
      OBVIOUS
    <2> QED
      BY <2>1, <2>2, <2>3
  <1>10. \A r \in ToSet(SubSeq(rows, s, e)) : \E i \in 1..n :
             rows[i] = r /\ (k - 1) * B < i /\ i <= k * B
    BY <1>6, <1>8, <1>9
  <1>11. \A i \in 1..n : (k - 1) * B < i /\ i <= k * B =>
             rows[i] \in ToSet(SubSeq(rows, s, e))
    BY <1>6, <1>8
  <1>12. \A i, j \in DOMAIN SubSeq(rows, s, e) :
             SubSeq(rows, s, e)[i] = SubSeq(rows, s, e)[j] => i = j
    <2>1. \A i, j \in 1..n : rows[i] = rows[j] => i = j
      BY <1>1, ExtractionAssumption DEF rows
    <2>2. DOMAIN SubSeq(rows, s, e) = 1..(e - s + 1)
      BY <1>7
    <2>3. \A i \in 1..(e - s + 1) : s + i - 1 \in 1..n /\ i \in Int
      BY <1>4, <1>5, <1>9
    <2>4. \A i, j \in Int : s + i - 1 = s + j - 1 => i = j
      BY <1>4
    <2> TAKE i, j \in DOMAIN SubSeq(rows, s, e)
    <2>5. i \in 1..(e - s + 1) /\ j \in 1..(e - s + 1)
      BY <2>2
    <2>6. SubSeq(rows, s, e)[i] = rows[s + i - 1] /\ SubSeq(rows, s, e)[j] = rows[s + j - 1]
      BY <1>7, <2>5
    <2> QED
      BY <2>1, <2>3, <2>4, <2>5, <2>6
  <1> QED
    BY <1>1, <1>3, <1>7, <1>9, <1>10, <1>11, <1>12 DEF rows, B

\* Every row is in a chunk of its split, and in no other.
LEMMA ChunkCovers ==
    ASSUME NEW u \in Setup, NEW t \in DOMAIN Splits, NEW i \in DOMAIN Splits[t]
    PROVE  \E k \in 1..ChunkCount(u, t) : Splits[t][i] \in ToSet(ChunkRows(u, t, k))
  <1> DEFINE n == Len(Splits[t])  B == u.batchSize  q == (i - 1) \div B  m == (n + B - 1) \div B
  <1>1. n \in Nat /\ i \in 1..n /\ B \in Nat \ {0}
    BY SplitFacts, ExtractionAssumption
  <1>4. ChunkCount(u, t) = m
    BY DEF ChunkCount
  <1> HIDE DEF n, B
  <1>2. q \in Nat /\ q * B <= i - 1 /\ i - 1 < q * B + B
    <2>1. i - 1 \in Nat
      BY <1>1
    <2> QED
      BY <1>1, <2>1
  <1>3. m \in Nat /\ n + B - 1 < m * B + B
    BY <1>1
  <1> HIDE DEF q, m
  <1>5. q < m
    <2>1. SUFFICES ASSUME m <= q PROVE FALSE
      BY <1>2, <1>3
    <2>2. m * B <= q * B /\ m * B \in Nat /\ q * B \in Nat
      BY <1>1, <1>2, <1>3, <2>1
    <2> QED
      BY <1>1, <1>2, <1>3, <2>2
  <1>6. PICK k : k = q + 1
    OBVIOUS
  <1>7. k \in 1..m /\ (k - 1) * B < i /\ i <= k * B
    <2>1. q * B \in Nat /\ k - 1 = q /\ k * B = q * B + B
      BY <1>1, <1>2, <1>6
    <2> QED
      BY <1>1, <1>2, <1>3, <1>5, <1>6, <2>1
  <1> QED
    BY <1>4, <1>7, ChunkFacts DEF B

LEMMA ChunkUnique ==
    ASSUME NEW u \in Setup, NEW p \in DOMAIN Splits, NEW k \in 1..ChunkCount(u, p),
           NEW q \in DOMAIN Splits, NEW l \in 1..ChunkCount(u, q),
           NEW r \in ToSet(ChunkRows(u, p, k)), r \in ToSet(ChunkRows(u, q, l))
    PROVE  p = q /\ k = l
  <1> DEFINE B == u.batchSize
  <1>1. PICK i \in DOMAIN Splits[p] : Splits[p][i] = r /\ (k - 1) * B < i /\ i <= k * B
    BY ChunkFacts
  <1>2. PICK j \in DOMAIN Splits[q] : Splits[q][j] = r /\ (l - 1) * B < j /\ j <= l * B
    BY ChunkFacts
  <1>3. p = q /\ i = j
    BY <1>1, <1>2, ExtractionAssumption
  <1>4. k \in Int /\ l \in Int /\ i \in Int /\ B \in Nat \ {0}
    <2>1. DOMAIN Splits[p] \subseteq Int
      BY SplitFacts
    <2> QED
      BY <2>1, ExtractionAssumption
  <1> HIDE DEF B
  <1>5. ASSUME NEW a \in Int, NEW b \in Int, a < b PROVE a * B <= (b - 1) * B
    <2>1. a <= b - 1
      BY <1>5
    <2> QED
      BY <1>4, <2>1
  <1>6. ~ (k < l) /\ ~ (l < k)
    <2>1. \A a, b \in Int : a * B \in Int
      BY <1>4
    <2>2. k - 1 \in Int /\ l - 1 \in Int
      BY <1>4
    <2> QED
      BY <1>1, <1>2, <1>3, <1>4, <1>5, <2>1, <2>2
  <1> QED
    BY <1>3, <1>4, <1>6

\* The frozen batch of a row is the chunk it is in.
LEMMA FrozenBatchIs ==
    ASSUME NEW u \in Setup, NEW s \in DOMAIN Splits, NEW k \in 1..ChunkCount(u, s),
           NEW r \in ToSet(ChunkRows(u, s, k))
    PROVE  r \in Row /\ FrozenBatch[u][r] = ChunkRows(u, s, k)
  <1>1. PICK i \in DOMAIN Splits[s] : Splits[s][i] = r
    BY ChunkFacts
  <1>2. r \in ToSet(Splits[s]) /\ r \in Row
    BY <1>1 DEF ToSet, Row
  <1>3. \A t \in DOMAIN Splits : r \in ToSet(Splits[t]) => t = s
    BY <1>1, ExtractionAssumption DEF ToSet
  <1>4. \A j \in 1..ChunkCount(u, s) : r \in ToSet(ChunkRows(u, s, j)) => j = k
    BY ChunkUnique
  <1>5. s = CHOOSE t \in DOMAIN Splits : r \in ToSet(Splits[t])
    BY <1>2, <1>3
  <1>6. k = CHOOSE j \in 1..ChunkCount(u, s) : r \in ToSet(ChunkRows(u, s, j))
    BY <1>4
  <1> QED
    BY <1>2, <1>5, <1>6 DEF FrozenBatch

LEMMA FrozenBatchFacts ==
    ASSUME NEW u \in Setup, NEW r \in Row
    PROVE  FrozenBatch[u][r] \in Seq(Row) /\ FrozenBatch[u][r] # <<>>
  <1>1. PICK s \in DOMAIN Splits : r \in ToSet(Splits[s])
    BY DEF Row
  <1>2. PICK i \in DOMAIN Splits[s] : Splits[s][i] = r
    BY <1>1 DEF ToSet
  <1>3. PICK k \in 1..ChunkCount(u, s) : r \in ToSet(ChunkRows(u, s, k))
    BY <1>2, ChunkCovers
  <1> QED
    BY <1>3, FrozenBatchIs, ChunkFacts

-----------------------------------------------------------------------------
(* Sequences.                                                              *)

\* All rows of a batch are selected, or none.
LEMMA SelectedAll ==
    ASSUME NEW S, NEW batch \in Seq(S), NEW rows, \A r \in ToSet(batch) : r \in rows
    PROVE  Selected(batch, rows) = batch
  <1> DEFINE N == Len(batch)
             Prefix == [n \in 0..N |-> SubSeq(batch, 1, n)]
             Is(f) == f = [n \in 0..N |->
                 IF n = 0 THEN <<>>
                 ELSE IF batch[n] \in rows THEN Append(f[n - 1], batch[n]) ELSE f[n - 1]]
             upTo == CHOOSE f : Is(f)
  <1>1. N \in Nat /\ \A n \in 1..N : batch[n] \in rows /\ batch[n] \in S
    BY DEF ToSet
  <1>2. \A n \in 1..N : SubSeq(batch, 1, n) = Append(SubSeq(batch, 1, n - 1), batch[n])
    <2> TAKE n \in 1..N
    <2>1. n \in Nat /\ n - 1 \in Nat /\ n <= N
      BY <1>1
    <2> QED
      BY <1>1, <2>1
  <1>3. SubSeq(batch, 1, 0) = <<>> /\ SubSeq(batch, 1, N) = batch
    BY <1>1
  <1>4. Is(Prefix)
    <2>1. \A n \in 0..N : Prefix[n] =
            IF n = 0 THEN <<>>
            ELSE IF batch[n] \in rows THEN Append(Prefix[n - 1], batch[n]) ELSE Prefix[n - 1]
      <3> TAKE n \in 0..N
      <3>1. CASE n = 0
        BY <1>1, <1>3, <3>1
      <3>2. CASE n # 0
        <4>1. n \in 1..N /\ n - 1 \in 0..N
          BY <1>1, <3>2
        <4>2. Prefix[n] = SubSeq(batch, 1, n) /\ Prefix[n - 1] = SubSeq(batch, 1, n - 1)
          BY <4>1
        <4> QED
          BY <1>1, <1>2, <3>2, <4>1, <4>2
      <3> QED
        BY <3>1, <3>2
    <2> QED
      BY <2>1
  <1> HIDE DEF Prefix
  <1>5. Is(upTo)
    BY <1>4
  <1>6. Selected(batch, rows) = upTo[N]
    BY DEF Selected
  <1> HIDE DEF upTo
  <1>7. \A n \in 0..N : upTo[n] = SubSeq(batch, 1, n)
    <2> DEFINE Bad == {n \in 0..N : upTo[n] # SubSeq(batch, 1, n)}
    <2>1. SUFFICES ASSUME Bad # {} PROVE FALSE
      OBVIOUS
    <2>2. PICK n \in Bad : \A m \in Bad : n <= m
      <3>1. Bad \in SUBSET Nat
        BY <1>1
      <3> HIDE DEF Bad
      <3> QED
        BY <2>1, <3>1, LeastExists
    <2>3. n # 0
      BY <1>1, <1>3, <1>5, <2>2
    <2>4. n - 1 \in 0..N /\ ~ (n - 1 \in Bad) /\ n \in 1..N
      BY <1>1, <2>2, <2>3
    <2>5. upTo[n - 1] = SubSeq(batch, 1, n - 1)
      BY <2>4
    <2>6. upTo[n] = Append(upTo[n - 1], batch[n])
      <3>1. n \in 0..N /\ n # 0 /\ batch[n] \in rows
        BY <1>1, <2>3, <2>4
      <3> QED
        BY <1>5, <3>1
    <2> QED
      BY <1>2, <2>2, <2>4, <2>5, <2>6
  <1> QED
    BY <1>1, <1>3, <1>6, <1>7

LEMMA SelectedNone ==
    ASSUME NEW S, NEW batch \in Seq(S), NEW rows, \A r \in ToSet(batch) : r \notin rows
    PROVE  Selected(batch, rows) = <<>>
  <1> DEFINE N == Len(batch)
             Empty == [n \in 0..N |-> <<>>]
             Is(f) == f = [n \in 0..N |->
                 IF n = 0 THEN <<>>
                 ELSE IF batch[n] \in rows THEN Append(f[n - 1], batch[n]) ELSE f[n - 1]]
             upTo == CHOOSE f : Is(f)
  <1>1. N \in Nat /\ \A n \in 1..N : ~ (batch[n] \in rows)
    BY DEF ToSet
  <1>2. Is(Empty)
    <2>1. \A n \in 0..N : Empty[n] =
            IF n = 0 THEN <<>>
            ELSE IF batch[n] \in rows THEN Append(Empty[n - 1], batch[n]) ELSE Empty[n - 1]
      BY <1>1
    <2> QED
      BY <2>1
  <1> HIDE DEF Empty
  <1>3. Is(upTo)
    BY <1>2
  <1>4. Selected(batch, rows) = upTo[N]
    BY DEF Selected
  <1> HIDE DEF upTo
  <1>5. \A n \in 0..N : upTo[n] = <<>>
    <2> DEFINE Bad == {n \in 0..N : upTo[n] # <<>>}
    <2>1. SUFFICES ASSUME Bad # {} PROVE FALSE
      OBVIOUS
    <2>2. PICK n \in Bad : \A m \in Bad : n <= m
      <3>1. Bad \in SUBSET Nat
        BY <1>1
      <3> HIDE DEF Bad
      <3> QED
        BY <2>1, <3>1, LeastExists
    <2>3. n # 0
      BY <1>1, <1>3, <2>2
    <2>4. n - 1 \in 0..N /\ ~ (n - 1 \in Bad) /\ n \in 1..N
      BY <1>1, <2>2, <2>3
    <2>5. upTo[n] = upTo[n - 1]
      BY <1>1, <1>3, <2>4
    <2> QED
      BY <2>2, <2>4, <2>5
  <1> QED
    BY <1>1, <1>4, <1>5

LEMMA EmptySequence == IsSequence(<<>>) /\ Len(<<>>) = 0
  BY DEF IsSequence

LEMMA AppendSequence ==
    ASSUME NEW s, IsSequence(s), NEW e
    PROVE  /\ IsSequence(Append(s, e)) /\ Len(s) \in Nat /\ Len(Append(s, e)) = Len(s) + 1
           /\ \A i \in 1..Len(s) : Append(s, e)[i] = s[i]
           /\ Append(s, e)[Len(s) + 1] = e /\ DOMAIN s = 1..Len(s)
  <1> DEFINE S == {s[i] : i \in DOMAIN s} \cup {e}  t == Append(s, e)
  <1>1. s \in Seq(S) /\ e \in S
    <2>1. s \in Seq({s[i] : i \in DOMAIN s})
      BY DEF IsSequence
    <2>2. \A i \in 1..Len(s) : s[i] \in S
      BY <2>1
    <2> QED
      BY <2>1, <2>2
  <1> HIDE DEF S
  <1>2. t \in Seq(S) /\ Len(t) = Len(s) + 1 /\ Len(s) \in Nat /\ DOMAIN s = 1..Len(s)
        /\ DOMAIN t = 1..(Len(s) + 1) /\ (\A i \in 1..Len(s) : t[i] = s[i]) /\ t[Len(s) + 1] = e
    BY <1>1
  <1>3. t \in Seq({t[i] : i \in DOMAIN t})
    BY <1>2
  <1> QED
    BY <1>2, <1>3 DEF IsSequence

\* The rows of a part of a sequence.
LEMMA PartRows ==
    ASSUME NEW S, NEW b \in Seq(S), NEW p \in 1..(Len(b) + 1), NEW q \in 0..Len(b)
    PROVE  ToSet(SubSeq(b, p, q)) = {b[i] : i \in p..q}
  <1>1. Len(b) \in Nat /\ p \in Nat \ {0} /\ q \in Nat
    OBVIOUS
  <1>2. DOMAIN SubSeq(b, p, q) = 1..(IF p <= q THEN q - p + 1 ELSE 0)
        /\ \A i \in 1..(q - p + 1) : SubSeq(b, p, q)[i] = b[p + i - 1]
    BY <1>1
  <1>3. \A i \in p..q : i - p + 1 \in 1..(q - p + 1) /\ p <= q /\ p + (i - p + 1) - 1 = i
    BY <1>1
  <1>4. \A i \in 1..(IF p <= q THEN q - p + 1 ELSE 0) :
            i \in 1..(q - p + 1) /\ p + i - 1 \in p..q
    BY <1>1
  <1>5. ASSUME NEW r \in ToSet(SubSeq(b, p, q)) PROVE r \in {b[i] : i \in p..q}
    BY <1>2, <1>4 DEF ToSet
  <1>6. ASSUME NEW i \in p..q PROVE b[i] \in ToSet(SubSeq(b, p, q))
    <2>1. i - p + 1 \in DOMAIN SubSeq(b, p, q) /\ SubSeq(b, p, q)[i - p + 1] = b[i]
      BY <1>2, <1>3
    <2> QED
      BY <2>1 DEF ToSet
  <1> QED
    BY <1>5, <1>6

LEMMA WholeRows ==
    ASSUME NEW S, NEW b \in Seq(S), NEW n \in 0..Len(b)
    PROVE  ToSet(b) \subseteq ToSet(SubSeq(b, 1, n)) \cup ToSet(SubSeq(b, n + 1, Len(b)))
  <1>1. Len(b) \in Nat /\ n \in Nat /\ n + 1 \in 1..(Len(b) + 1) /\ 1 \in 1..(Len(b) + 1)
        /\ Len(b) \in 0..Len(b) /\ DOMAIN b = 1..Len(b)
    OBVIOUS
  <1>2. /\ ToSet(SubSeq(b, 1, n)) = {b[i] : i \in 1..n}
        /\ ToSet(SubSeq(b, n + 1, Len(b))) = {b[i] : i \in (n + 1)..Len(b)}
    BY <1>1, PartRows
  <1>3. \A i \in 1..Len(b) : i \in 1..n \/ i \in (n + 1)..Len(b)
    BY <1>1
  <1> QED
    BY <1>1, <1>2, <1>3 DEF ToSet

\* The first row of a nonempty rest of a batch, and the rest after it.
LEMMA NextRow ==
    ASSUME NEW S, NEW b \in Seq(S), NEW n \in 0..Len(b), SubSeq(b, n + 1, Len(b)) # <<>>,
           \A i, j \in DOMAIN b : b[i] = b[j] => i = j
    PROVE  LET rest == SubSeq(b, n + 1, Len(b))
           IN  /\ n + 1 \in 0..Len(b) /\ Head(rest) \in ToSet(b)
               /\ Tail(rest) = SubSeq(b, (n + 1) + 1, Len(b))
               /\ \A r \in ToSet(SubSeq(b, 1, n + 1)) :
                     r \in ToSet(SubSeq(b, 1, n)) \/ r = Head(rest)
               /\ \A r \in ToSet(Tail(rest)) :
                     r \in ToSet(rest) /\ r \in ToSet(b) /\ r # Head(rest)
               /\ ToSet(SubSeq(b, 1, n)) \subseteq ToSet(b)
  <1> DEFINE rest == SubSeq(b, n + 1, Len(b))
  <1>1. Len(b) \in Nat /\ n \in Nat /\ DOMAIN b = 1..Len(b)
    OBVIOUS
  <1>2. n < Len(b)
    BY <1>1
  <1>3. Head(rest) = b[n + 1] /\ Tail(rest) = SubSeq(b, (n + 1) + 1, Len(b))
    BY <1>1, <1>2
  <1>4. /\ ToSet(rest) = {b[i] : i \in (n + 1)..Len(b)}
        /\ ToSet(SubSeq(b, (n + 1) + 1, Len(b))) = {b[i] : i \in ((n + 1) + 1)..Len(b)}
        /\ ToSet(SubSeq(b, 1, n)) = {b[i] : i \in 1..n}
        /\ ToSet(SubSeq(b, 1, n + 1)) = {b[i] : i \in 1..(n + 1)}
    <2>1. /\ n + 1 \in 1..(Len(b) + 1) /\ (n + 1) + 1 \in 1..(Len(b) + 1)
          /\ 1 \in 1..(Len(b) + 1) /\ Len(b) \in 0..Len(b) /\ n + 1 \in 0..Len(b)
      BY <1>1, <1>2
    <2> QED
      BY <2>1, PartRows
  <1>5. ToSet(b) = {b[i] : i \in 1..Len(b)}
    BY <1>1 DEF ToSet
  <1>6. \A i \in 1..(n + 1) : i \in 1..n \/ i = n + 1
    BY <1>1
  <1>7. \A i \in ((n + 1) + 1)..Len(b) : i \in (n + 1)..Len(b) /\ i \in 1..Len(b) /\ i # n + 1
    BY <1>1
  <1>8. n + 1 \in 1..Len(b) /\ n + 1 \in 0..Len(b) /\ \A i \in 1..n : i \in 1..Len(b)
    BY <1>1, <1>2
  <1> HIDE DEF rest
  <1>9. ASSUME NEW r \in ToSet(Tail(rest))
        PROVE  r \in ToSet(rest) /\ r \in ToSet(b) /\ r # Head(rest)
    <2>1. PICK i \in ((n + 1) + 1)..Len(b) : r = b[i]
      BY <1>3, <1>4
    <2>2. i \in (n + 1)..Len(b) /\ i \in DOMAIN b /\ n + 1 \in DOMAIN b /\ i # n + 1
      BY <1>1, <1>7, <1>8
    <2>3. b[i] # b[n + 1]
      BY <2>2
    <2> QED
      BY <1>1, <1>3, <1>4, <1>5, <2>1, <2>2, <2>3
  <1>10. \A r \in ToSet(SubSeq(b, 1, n + 1)) : r \in ToSet(SubSeq(b, 1, n)) \/ r = Head(rest)
    BY <1>3, <1>4, <1>6
  <1>11. ToSet(SubSeq(b, 1, n)) \subseteq ToSet(b) /\ Head(rest) \in ToSet(b)
    BY <1>3, <1>4, <1>5, <1>8
  <1> QED
    BY <1>3, <1>8, <1>9, <1>10, <1>11 DEF rest

-----------------------------------------------------------------------------
(* What a step leaves alone.                                               *)

LEMMA CountFacts ==
    ASSUME NEW u \in Setup, NEW s \in DOMAIN Splits
    PROVE  ChunkCount(u, s) \in Nat \ {0}
  <1> DEFINE n == Len(Splits[s])  B == u.batchSize
  <1>1. n \in Nat \ {0} /\ B \in Nat \ {0}
    BY SplitFacts, ExtractionAssumption
  <1> HIDE DEF n, B
  <1>2. (n + B - 1) \div B \in Nat \ {0}
    <2>1. n + B - 1 \in Nat /\ B <= n + B - 1
      BY <1>1
    <2>2. PICK m : m = n + B - 1
      OBVIOUS
    <2>3. m \div B \in Int /\ m < (m \div B) * B + B /\ m \in Nat
      BY <1>1, <2>1, <2>2
    <2>4. ~ (m \div B <= 0)
      <3>1. SUFFICES ASSUME m \div B <= 0 PROVE FALSE
        OBVIOUS
      <3>2. (m \div B) * B <= 0
        BY <1>1, <2>3, <3>1
      <3> QED
        BY <1>1, <2>1, <2>2, <2>3, <3>2
    <2> QED
      BY <2>2, <2>3, <2>4
  <1> QED
    BY <1>2 DEF ChunkCount, n, B

\* A run that does not move keeps what is known of it.
LEMMA Rests ==
    ASSUME NEW z, RunInv(z), runs \in Nat, runs' \in Nat, runs <= runs', torn => torn',
           ~ torn' => z.mode = "off" \/ stored'[z.db][z.setup] = stored[z.db][z.setup]
    PROVE  RunInv(z)'
  <1>1. IsRun(z)'
    BY DEF RunInv, IsRun
  <1>2. ASSUME Sound(z.mode)'
        PROVE  HeldInv(z)' /\ MatricesInv(z.mode, z.setup, z.id, z.done, Done(z))
    <2>1. HeldInv(z) /\ MatricesInv(z.mode, z.setup, z.id, z.done, Done(z))
      BY <1>2 DEF RunInv, Sound
    <2>2. z.mode = "read-write" => stored'[z.db][z.setup] = stored[z.db][z.setup]
      BY <1>2 DEF Sound
    <2>3. HeldInv(z)'
      BY <2>1, <2>2 DEF HeldInv, Stored, NotStored
    <2> QED
      BY <2>1, <2>3
  <1>3. ASSUME z.stage = "put", ~ torn' PROVE PutInv(z)'
    <2>1. PutInv(z)
      BY <1>3 DEF RunInv
    <2> QED
      BY <1>3, <2>1 DEF PutInv, Stored, NotStored
  <1>4. ChunkInv(z)'
    BY DEF RunInv, ChunkInv
  <1> QED
    BY <1>1, <1>2, <1>3, <1>4 DEF RunInv

\* So does a report.
LEMMA ReportRests ==
    ASSUME NEW r, ReportInv(r), torn => torn'
    PROVE  ReportInv(r)'
  BY DEF ReportInv, Sound

LEMMA KnownRests == ASSUME UNCHANGED <<report, review>> PROVE Known' = Known
  BY DEF Known, Written, InReview

\* A run goes on.
LEMMA GoesOn ==
    ASSUME ExtractionInv, NEW w \in Worker, NEW x \in run[w], NEW y, Becomes(w, y),
           y.id = x.id, y.db = x.db, RunInv(y)',
           UNCHANGED <<report, review, checkpoint, torn, runs>>, Domains',
           ~ torn => FilesInv' /\ StoredInv',
           ~ torn => \A v \in Worker \ {w} : \A z \in run[v] :
              z.mode = "off" \/ stored'[z.db][z.setup] = stored[z.db][z.setup]
    PROVE  ExtractionInv'
  <1>1. run[w] = {x} /\ run'[w] = {y} /\ \A v \in Worker \ {w} : run'[v] = run[v]
    BY DEF ExtractionInv, IdInv, Domains, Becomes
  <1>2. Known' = Known
    BY KnownRests
  <1>3. IdInv'
    BY <1>1, <1>2 DEF ExtractionInv, IdInv
  <1>4. \A v \in Worker : \A z \in run'[v] : RunInv(z)'
    <2> TAKE v \in Worker
    <2> TAKE z \in run'[v]
    <2>1. CASE v = w
      BY <1>1, <2>1
    <2>2. CASE v # w
      <3>1. z \in run[v] /\ RunInv(z)
        BY <1>1, <2>2 DEF ExtractionInv
      <3>2. runs \in Nat /\ runs' = runs /\ torn' = torn
        BY DEF ExtractionInv, Domains
      <3> QED
        BY <2>2, <3>1, <3>2, Rests
    <2> QED
      BY <2>1, <2>2
  <1>5. \A r \in Known' : ReportInv(r)'
    BY <1>2, ReportRests DEF ExtractionInv
  <1>6. ~ torn => AloneInv'
    BY <1>1 DEF ExtractionInv, AloneInv
  <1>7. ReviewInv' /\ CheckpointIsReproduced'
    BY DEF ExtractionInv, ReviewInv, CheckpointIsReproduced
  <1> QED
    BY <1>3, <1>4, <1>5, <1>6, <1>7 DEF ExtractionInv

\* A run that does not put goes on; the database is as it was.
LEMMA Goes ==
    ASSUME ExtractionInv, NEW w \in Worker, NEW x \in run[w], NEW y, Becomes(w, y),
           y.id = x.id, y.db = x.db, x.stage # "put", RunInv(y),
           UNCHANGED <<stored, report, review, checkpoint, torn, runs>>, Domains',
           ~ torn => FilesInv'
    PROVE  ExtractionInv'
  <1>1. run[w] = {x} /\ run'[w] = {y} /\ \A v \in Worker \ {w} : run'[v] = run[v]
    BY DEF ExtractionInv, IdInv, Domains, Becomes
  <1>2. RunInv(y)'
    BY Rests DEF ExtractionInv, Domains
  <1>3. ASSUME ~ torn PROVE StoredInv'
    <2>1. \A d \in Db, c \in Chunk : Putting(d, c) => Putting(d, c)'
      BY <1>1 DEF Putting
    <2> QED
      BY <1>3, <2>1 DEF ExtractionInv, StoredInv, Stored, NotStored
  <1> QED
    BY <1>2, <1>3, GoesOn

-----------------------------------------------------------------------------
(* The steps of a run.                                                     *)

\* A run has asked for the rows of the batch at hand.
LEMMA BatchFacts ==
    ASSUME NEW x, IsRun(x)
    PROVE  /\ BatchOf(x) = ChunkRows(x.setup, x.split, x.chunk)
           /\ BatchOf(x) \in Seq(Row) /\ BatchOf(x) # <<>> /\ ToSet(BatchOf(x)) \subseteq Row
           /\ Here(x) \in Chunk
           /\ \A r \in ToSet(BatchOf(x)) : FrozenBatch[x.setup][r] = BatchOf(x)
           /\ \A k \in 1..(x.chunk - 1) :
                 /\ k \in 1..ChunkCount(x.setup, x.split)
                 /\ \A r \in ToSet(ChunkRows(x.setup, x.split, k)) :
                       r \in Row /\ r \notin ToSet(BatchOf(x))
  <1>1. x.setup \in Setup /\ x.split \in DOMAIN Splits
        /\ x.chunk \in 1..ChunkCount(x.setup, x.split)
    BY DEF IsRun
  <1>2. BatchOf(x) = ChunkRows(x.setup, x.split, x.chunk)
    BY DEF BatchOf
  <1>3. BatchOf(x) \in Seq(Row) /\ BatchOf(x) # <<>>
        /\ \A r \in ToSet(BatchOf(x)) : r \in Row /\ FrozenBatch[x.setup][r] = BatchOf(x)
    BY <1>1, <1>2, ChunkFacts, FrozenBatchIs
  <1>4. Here(x) \in Chunk
    <2> DEFINE C == {<<x.setup, x.split, k>> : k \in 1..ChunkCount(x.setup, x.split)}
    <2>1. <<x.setup, x.split, x.chunk>> \in C
      BY <1>1
    <2>2. C \in {{<<u, s, k>> : k \in 1..ChunkCount(u, s)} : u \in Setup, s \in DOMAIN Splits}
      BY <1>1
    <2>3. C \subseteq Chunk
      <3> HIDE DEF C
      <3> QED
        BY <2>2 DEF Chunk
    <2> QED
      BY <2>1, <2>3 DEF Here
  <1>5. ASSUME NEW k \in 1..(x.chunk - 1)
        PROVE  /\ k \in 1..ChunkCount(x.setup, x.split)
               /\ \A r \in ToSet(ChunkRows(x.setup, x.split, k)) :
                     r \in Row /\ r \notin ToSet(BatchOf(x))
    <2>1. ChunkCount(x.setup, x.split) \in Nat
      BY <1>1, CountFacts
    <2>2. k \in 1..ChunkCount(x.setup, x.split) /\ k # x.chunk
      BY <1>1, <1>5, <2>1
    <2> QED
      BY <1>1, <1>2, <2>2, ChunkUnique, FrozenBatchIs
  <1> QED
    BY <1>2, <1>3, <1>4, <1>5

\* A run at the same chunk as before.
Like(x, y) ==
    /\ y = [f \in Fields |-> y[f]]
    /\ y.id = x.id /\ y.dir = x.dir /\ y.db = x.db /\ y.mode = x.mode /\ y.setup = x.setup
    /\ y.grade = x.grade /\ y.split = x.split /\ y.chunk = x.chunk /\ y.done = x.done
    /\ DOMAIN y.held = Row

\* What a database has of a batch is usable.
LEMMA LookUpRun ==
    ASSUME NEW x, RunInv(x), x.stage = "lookup", ~ torn => StoredInv,
           x.mode = "read-write" /\ ~ torn => ~ Putting(x.db, Here(x)),
           NEW y, Like(x, y), y.stage = "embed",
           \A r \in Row : y.held[r] =
              IF r \in ToSet(BatchOf(x))
              THEN {v \in stored[x.db][x.setup][r] : ReadsEnabled(x.mode) /\ Intact(v)}
              ELSE x.held[r]
    PROVE  RunInv(y)
  <1>1. IsRun(x)
    BY DEF RunInv
  <1>2. IsRun(y)
    BY <1>1 DEF IsRun, Like, BatchStage
  <1>3. /\ y.mode = x.mode /\ y.id = x.id /\ y.db = x.db /\ y.setup = x.setup /\ y.split = x.split
        /\ y.chunk = x.chunk /\ y.done = x.done
    BY DEF Like
  <1>4. BatchOf(y) = BatchOf(x)
    BY <1>3 DEF BatchOf
  <1>5. ASSUME Sound(y.mode)
        PROVE  HeldInv(y) /\ MatricesInv(y.mode, y.setup, y.id, y.done, Done(y))
    <2>1. HeldInv(x) /\ MatricesInv(y.mode, y.setup, y.id, y.done, Done(y))
      BY <1>3, <1>5 DEF RunInv, Done
    <2>2. \A k \in 1..Reached(y) : \A r \in ToSet(ChunkRows(y.setup, y.split, k)) : Has(y, r)
      <3>1. Reached(y) = x.chunk - 1 /\ Reached(x) = x.chunk - 1
        BY <1>3 DEF Reached
      <3> QED
        BY <1>1, <1>3, <2>1, <3>1, BatchFacts DEF Has, HeldInv
    <2>3. CASE x.mode # "read-write"
      <3>1. \A r \in ToSet(BatchOf(x)) : y.held[r] = {}
        BY <1>1, <1>3, <2>3, BatchFacts DEF ReadsEnabled
      <3> QED
        BY <1>3, <1>4, <2>1, <2>2, <2>3, <3>1 DEF HeldInv
    <2>4. CASE x.mode = "read-write"
      <3>1. ~ torn /\ StoredInv /\ ~ Putting(x.db, Here(x)) /\ x.db \in Db /\ x.setup \in Setup
        BY <1>1, <1>3, <1>5, <2>4 DEF Sound, IsRun, Database
      <3>2. \A r \in ToSet(BatchOf(x)) : y.held[r] = stored[x.db][x.setup][r]
        <4> TAKE r \in ToSet(BatchOf(x))
        <4>1. r \in Row /\ \A v \in stored[x.db][x.setup][r] : Intact(v)
          <5>1. r \in Row /\ stored[x.db][x.setup][r] \subseteq FrozenVector(x.setup, r)
            BY <1>1, <3>1, BatchFacts DEF StoredInv
          <5> QED
            BY <3>1, <5>1, FrozenBatchFacts DEF FrozenVector, Intact
        <4>2. y.held[r] = {v \in stored[x.db][x.setup][r] : Intact(v)}
          BY <1>3, <2>4, <4>1 DEF ReadsEnabled
        <4> QED
          BY <4>1, <4>2
      <3>3. \A r \in ToSet(BatchOf(x)) : y.held[r] \subseteq MayHold(y.mode, y.setup, y.id, r)
        BY <1>1, <1>3, <2>4, <3>1, <3>2, BatchFacts DEF StoredInv, MayHold
      <3>4. Stored(x.db, x.setup, BatchOf(x)) \/ NotStored(x.db, x.setup, BatchOf(x))
        <4>1. Here(x) \in Chunk /\ Here(x) = <<x.setup, x.split, x.chunk>>
              /\ BatchOf(x) = ChunkRows(x.setup, x.split, x.chunk)
          BY <1>1, BatchFacts DEF Here
        <4> QED
          BY <3>1, <4>1 DEF StoredInv
      <3>5. CASE Stored(x.db, x.setup, BatchOf(x))
        <4>1. \A r \in ToSet(BatchOf(y)) : Has(y, r)
          BY <1>4, <3>2, <3>3, <3>5 DEF Has, Stored
        <4> QED
          BY <1>3, <1>4, <2>1, <2>2, <2>4, <3>5, <4>1 DEF HeldInv
      <3>6. CASE NotStored(x.db, x.setup, BatchOf(x))
        <4>1. \A r \in ToSet(BatchOf(y)) : y.held[r] = {}
          BY <1>4, <3>2, <3>6 DEF NotStored
        <4> QED
          BY <1>3, <1>4, <2>1, <2>2, <3>6, <4>1 DEF HeldInv
      <3> QED
        BY <3>4, <3>5, <3>6
    <2> QED
      BY <2>1, <2>3, <2>4
  <1> QED
    BY <1>2, <1>3, <1>5 DEF RunInv, ChunkInv

\* The rows that were not found are embedded.
LEMMA EmbedRun ==
    ASSUME NEW x, RunInv(x), x.stage = "embed", ~ torn => StoredInv,
           x.mode # "off" /\ ~ torn => ~ Putting(x.db, Here(x)),
           NEW misses,
           NEW y, y = [x EXCEPT !.stage = "put", !.misses = misses,
                   !.held = [r \in Row |->
                       IF r \in ToSet(MissingIn(x))
                       THEN {Embed(x.setup, MissingIn(x), r, x.grade, x.id)} ELSE @[r]],
                   !.put = IF WritesEnabled(x.mode) THEN MissingIn(x) ELSE <<>>]
    PROVE  RunInv(y)
  <1> DEFINE batch == BatchOf(x)
  <1>1. IsRun(x)
    BY DEF RunInv
  <1>2. IsRun(y)
    BY <1>1 DEF IsRun, Fields, BatchStage
  <1>3. /\ y.mode = x.mode /\ y.id = x.id /\ y.db = x.db /\ y.setup = x.setup /\ y.split = x.split
        /\ y.chunk = x.chunk /\ y.done = x.done /\ y.stage = "put"
        /\ y.put = (IF WritesEnabled(x.mode) THEN MissingIn(x) ELSE <<>>)
        /\ y.held = [r \in Row |->
                       IF r \in ToSet(MissingIn(x))
                       THEN {Embed(x.setup, MissingIn(x), r, x.grade, x.id)} ELSE x.held[r]]
    BY <1>1 DEF IsRun, Fields
  <1>4. BatchOf(y) = batch /\ batch \in Seq(Row) /\ ToSet(batch) \subseteq Row
    BY <1>1, <1>3, BatchFacts DEF BatchOf
  <1>5. SubSeq(batch, 1, 0) = <<>> /\ SubSeq(batch, 1, Len(batch)) = batch
        /\ SubSeq(batch, Len(batch) + 1, Len(batch)) = <<>> /\ Len(batch) \in Nat
        /\ ToSet(<<>>) = {}
    BY <1>4 DEF ToSet
  <1>6. \A d, u : Stored(d, u, <<>>) /\ NotStored(d, u, <<>>)
    BY <1>5 DEF Stored, NotStored
  <1>7. ASSUME Sound(y.mode)
        PROVE  /\ HeldInv(y) /\ MatricesInv(y.mode, y.setup, y.id, y.done, Done(y))
               /\ ~ torn => PutInv(y)
    <2>1. HeldInv(x) /\ MatricesInv(y.mode, y.setup, y.id, y.done, Done(y))
      BY <1>3, <1>7 DEF RunInv, Done
    <2>2. CASE /\ \A r \in ToSet(batch) : Has(x, r)
               /\ x.mode = "read-write" /\ Stored(x.db, x.setup, batch)
      <3>1. MissingIn(x) = <<>>
        <4>1. \A r \in ToSet(batch) : ~ (r \in {q \in Row : x.held[q] = {}})
          BY <2>2 DEF Has
        <4> QED
          BY <1>4, <4>1, SelectedNone DEF MissingIn
      <3>2. \A r \in Row : y.held[r] = x.held[r]
        BY <1>3, <1>5, <3>1
      <3>3. \A k \in 1..x.chunk : \A r \in ToSet(ChunkRows(x.setup, x.split, k)) : Has(x, r)
        <4>1. \A k \in 1..(x.chunk - 1) : \A r \in ToSet(ChunkRows(x.setup, x.split, k)) : Has(x, r)
          BY <2>1 DEF HeldInv, Reached
        <4>2. x.chunk \in Nat
          BY <1>1 DEF IsRun
        <4> QED
          BY <2>2, <4>1, <4>2 DEF BatchOf
      <3>4. HeldInv(y)
        <4>1. \A k \in 1..x.chunk : \A r \in ToSet(ChunkRows(x.setup, x.split, k)) : r \in Row
          BY <1>1, CountFacts, FrozenBatchIs DEF IsRun
        <4> QED
          BY <1>3, <3>2, <3>3, <4>1 DEF HeldInv, Has, Reached
      <3>5. PutInv(y)
        <4>1. y.put = SubSeq(batch, Len(batch) + 1, Len(batch))
          BY <1>3, <1>5, <3>1
        <4>2. y.mode # "off" /\ y.db = x.db /\ y.setup = x.setup
          BY <1>3, <2>2
        <4>3. Stored(y.db, y.setup, SubSeq(batch, 1, Len(batch))) /\ Stored(y.db, y.setup, y.put)
          BY <1>5, <1>6, <2>2, <4>1, <4>2
        <4>4. Len(batch) \in 0..Len(batch)
          BY <1>5
        <4> HIDE DEF batch
        <4> QED
          BY <1>4, <4>1, <4>2, <4>3, <4>4 DEF PutInv
      <3> QED
        BY <2>1, <3>4, <3>5
    <2>3. CASE /\ \A r \in ToSet(batch) : x.held[r] = {}
               /\ x.mode = "read-write" => NotStored(x.db, x.setup, batch)
      <3>1. MissingIn(x) = batch
        <4>1. \A r \in ToSet(batch) : r \in {q \in Row : x.held[q] = {}}
          BY <1>4, <2>3
        <4> QED
          BY <1>4, <4>1, SelectedAll DEF MissingIn
      <3>2. \A r \in ToSet(batch) : y.held[r] = {Embed(x.setup, batch, r, x.grade, x.id)}
        BY <1>3, <1>4, <3>1
      <3>3. \A r \in ToSet(batch) : Has(y, r) /\ \A v \in y.held[r] : v.by = x.id
        <4> TAKE r \in ToSet(batch)
        <4>1. FrozenBatch[x.setup][r] = batch
          BY <1>1, BatchFacts
        <4>2. x.grade \in Grade /\ x.id \in Nat
          BY <1>1 DEF IsRun
        <4>3. Embed(x.setup, batch, r, x.grade, x.id) \in MayHold(x.mode, x.setup, x.id, r)
          BY <4>1, <4>2 DEF Embed, MayHold, FrozenVector
        <4>4. Embed(x.setup, batch, r, x.grade, x.id).by = x.id
          BY DEF Embed
        <4>5. PICK e : e = Embed(x.setup, batch, r, x.grade, x.id)
          OBVIOUS
        <4>6. y.held[r] = {e} /\ e \in MayHold(y.mode, y.setup, y.id, r) /\ e.by = x.id
          BY <1>3, <3>2, <4>3, <4>4, <4>5
        <4> QED
          BY <4>6 DEF Has
      <3>4. \A k \in 1..x.chunk : \A r \in ToSet(ChunkRows(x.setup, x.split, k)) : Has(y, r)
        <4>1. \A k \in 1..(x.chunk - 1) : \A r \in ToSet(ChunkRows(x.setup, x.split, k)) : Has(y, r)
          <5> TAKE k \in 1..(x.chunk - 1)
          <5> TAKE r \in ToSet(ChunkRows(x.setup, x.split, k))
          <5>1. Has(x, r)
            BY <2>1 DEF HeldInv, Reached
          <5>2. y.held[r] = x.held[r]
            BY <1>1, <1>3, <3>1, BatchFacts
          <5> QED
            BY <1>3, <5>1, <5>2 DEF Has
        <4>2. x.chunk \in Nat /\ batch = ChunkRows(x.setup, x.split, x.chunk)
          BY <1>1, BatchFacts DEF IsRun
        <4>3. \A k \in 1..x.chunk : k \in 1..(x.chunk - 1) \/ k = x.chunk
          BY <4>2
        <4> QED
          BY <3>3, <4>1, <4>2, <4>3
      <3>5. HeldInv(y)
        BY <1>3, <3>4 DEF HeldInv, Reached
      <3>6. ASSUME ~ torn PROVE PutInv(y)
        <4>1. CASE x.mode = "off"
          BY <1>3, <4>1 DEF WritesEnabled, PutInv
        <4>2. CASE x.mode # "off"
          <5>1. y.put = batch /\ y.mode # "off"
            BY <1>1, <1>3, <3>1, <4>2 DEF WritesEnabled, IsRun, Mode
          <5>2. Stored(x.db, x.setup, batch) \/ NotStored(x.db, x.setup, batch)
            <6>1. x.db \in Db /\ ~ Putting(x.db, Here(x)) /\ StoredInv
              BY <1>1, <3>6, <4>2 DEF IsRun, Database
            <6>2. Here(x) \in Chunk /\ Here(x) = <<x.setup, x.split, x.chunk>>
                  /\ batch = ChunkRows(x.setup, x.split, x.chunk)
              BY <1>1, BatchFacts DEF Here
            <6> QED
              BY <6>1, <6>2 DEF StoredInv
          <5>3. y.put = SubSeq(batch, 0 + 1, Len(batch)) /\ 0 \in 0..Len(batch)
            BY <1>5, <5>1
          <5>4. Stored(y.db, y.setup, SubSeq(batch, 1, 0))
            BY <1>5, <1>6
          <5>5. Stored(y.db, y.setup, y.put)
                \/ (/\ NotStored(y.db, y.setup, y.put)
                    /\ \A r \in ToSet(batch) : \A v \in y.held[r] : v.by = y.id)
            BY <1>3, <3>3, <5>1, <5>2
          <5> HIDE DEF batch
          <5> QED
            BY <1>4, <5>1, <5>3, <5>4, <5>5 DEF PutInv
        <4> QED
          BY <4>1, <4>2
      <3> QED
        BY <2>1, <3>5, <3>6
    <2> QED
      BY <2>1, <2>2, <2>3 DEF HeldInv
  <1>8. ~ torn => Sound(y.mode)
    BY DEF Sound
  <1> QED
    BY <1>2, <1>7, <1>8 DEF RunInv, ChunkInv

\* A run whose chunk is complete goes on to the next one, or to the matrix.
LEMMA AdvanceRun ==
    ASSUME NEW z, IsRun(z),
           Sound(z.mode) =>
              /\ \A k \in 1..z.chunk : \A r \in ToSet(ChunkRows(z.setup, z.split, k)) : Has(z, r)
              /\ MatricesInv(z.mode, z.setup, z.id, z.done, z.split - 1)
    PROVE  RunInv(Advance(z)) /\ Advance(z).id = z.id /\ Advance(z).db = z.db
  <1>1. PICK y : y = Advance(z)
    OBVIOUS
  <1>2. ChunkCount(z.setup, z.split) \in Nat /\ z.chunk \in 1..ChunkCount(z.setup, z.split)
    BY CountFacts DEF IsRun
  <1>3. CASE z.chunk < ChunkCount(z.setup, z.split)
    <2>1. y = [z EXCEPT !.chunk = @ + 1, !.stage = "load"]
      BY <1>1, <1>3 DEF Advance
    <2>2. /\ y.mode = z.mode /\ y.id = z.id /\ y.db = z.db /\ y.setup = z.setup
          /\ y.split = z.split /\ y.chunk = z.chunk + 1 /\ y.done = z.done /\ y.stage = "load"
          /\ y.held = z.held
      BY <2>1 DEF IsRun, Fields
    <2>3. IsRun(y)
      <3>1. y.chunk \in 1..ChunkCount(y.setup, y.split)
        BY <1>2, <1>3, <2>2
      <3>2. y = [f \in Fields |-> y[f]] /\ y.dir = z.dir /\ y.grade = z.grade
        BY <2>1 DEF IsRun, Fields
      <3> QED
        BY <2>2, <3>1, <3>2 DEF IsRun
    <2>4. Reached(y) = z.chunk /\ Done(y) = z.split - 1
      BY <1>2, <2>2 DEF Reached, Done
    <2>5. Sound(y.mode) => HeldInv(y) /\ MatricesInv(y.mode, y.setup, y.id, y.done, Done(y))
      BY <2>2, <2>4 DEF HeldInv, Has
    <2> QED
      BY <1>1, <2>2, <2>3, <2>5 DEF RunInv, ChunkInv
  <1>4. CASE ~ (z.chunk < ChunkCount(z.setup, z.split))
    <2>1. y = [z EXCEPT !.stage = "final"]
      BY <1>1, <1>4 DEF Advance
    <2>2. /\ y.mode = z.mode /\ y.id = z.id /\ y.db = z.db /\ y.setup = z.setup
          /\ y.split = z.split /\ y.chunk = z.chunk /\ y.done = z.done /\ y.stage = "final"
          /\ y.held = z.held
      BY <2>1 DEF IsRun, Fields
    <2>3. IsRun(y)
      <3>1. y.chunk = ChunkCount(y.setup, y.split)
        BY <1>2, <1>4, <2>2
      <3>2. y = [f \in Fields |-> y[f]] /\ y.dir = z.dir /\ y.grade = z.grade
        BY <2>1 DEF IsRun, Fields
      <3> QED
        BY <2>2, <3>1, <3>2 DEF IsRun
    <2>4. Reached(y) = z.chunk /\ Done(y) = z.split - 1
      BY <1>2, <2>2 DEF Reached, Done
    <2>5. Sound(y.mode) => HeldInv(y) /\ MatricesInv(y.mode, y.setup, y.id, y.done, Done(y))
      BY <2>2, <2>4 DEF HeldInv, Has
    <2> QED
      BY <1>1, <2>2, <2>3, <2>5 DEF RunInv, ChunkInv
  <1> QED
    BY <1>3, <1>4

\* A run goes on to a stage in which it has the same rows.
LEMMA StageRun ==
    ASSUME NEW x, RunInv(x), NEW t,
           <<x.stage, t>> \in {<<"load", "lookup">>, <<"put", "matrix">>, <<"matrix", "sidecar">>,
                               <<"final", "digest">>},
           NEW y, y = [x EXCEPT !.stage = t]
    PROVE  RunInv(y) /\ y.id = x.id /\ y.db = x.db
  <1>1. IsRun(x)
    BY DEF RunInv
  <1>2. /\ y.mode = x.mode /\ y.id = x.id /\ y.db = x.db /\ y.setup = x.setup /\ y.split = x.split
        /\ y.chunk = x.chunk /\ y.done = x.done /\ y.stage = t /\ y.held = x.held
        /\ y.dir = x.dir /\ y.grade = x.grade /\ y = [f \in Fields |-> y[f]]
    BY <1>1 DEF IsRun, Fields
  <1>3. t \in {"lookup", "matrix", "sidecar", "digest"} /\ (t = "digest" => x.stage = "final")
    OBVIOUS
  <1>4. IsRun(y)
    BY <1>1, <1>2, <1>3 DEF IsRun, BatchStage
  <1>5. Reached(y) = Reached(x) /\ Done(y) = Done(x) /\ x.stage # "report"
    BY <1>2 DEF Reached, Done
  <1>6. ASSUME Sound(y.mode)
        PROVE  HeldInv(y) /\ MatricesInv(y.mode, y.setup, y.id, y.done, Done(y))
    <2>1. HeldInv(x) /\ MatricesInv(x.mode, x.setup, x.id, x.done, Done(x))
      BY <1>2, <1>6 DEF RunInv
    <2>2. \A k \in 1..Reached(y) : \A r \in ToSet(ChunkRows(y.setup, y.split, k)) : Has(y, r)
      BY <1>2, <1>5, <2>1 DEF HeldInv, Has
    <2>3. HeldInv(y)
      BY <1>2, <1>3, <2>2 DEF HeldInv
    <2> QED
      BY <1>2, <1>5, <2>1, <2>3
  <1> QED
    BY <1>2, <1>3, <1>4, <1>6 DEF RunInv, ChunkInv

\* The rows of a sequence are assembled from vectors that a run may have.
LEMMA AssembledFacts ==
    ASSUME NEW x, IsRun(x), NEW rows \in Seq(Row), \A r \in ToSet(rows) : Has(x, r)
    PROVE  /\ DOMAIN Assembled(x, rows) = DOMAIN rows
           /\ \A i \in DOMAIN rows :
                 Assembled(x, rows)[i] \in MayHold(x.mode, x.setup, x.id, rows[i])
           /\ Assembled(x, rows) \in Seq(AnyVector)
  <1>1. DOMAIN Assembled(x, rows) = DOMAIN rows
    BY DEF Assembled
  <1>2. ASSUME NEW i \in DOMAIN rows
        PROVE  Assembled(x, rows)[i] \in MayHold(x.mode, x.setup, x.id, rows[i])
    <2>1. Has(x, rows[i])
      BY DEF ToSet
    <2>2. Assembled(x, rows)[i] \in x.held[rows[i]]
      BY <2>1 DEF Assembled, Has
    <2> QED
      BY <2>1, <2>2 DEF Has
  <1>3. ASSUME NEW i \in DOMAIN rows PROVE Assembled(x, rows)[i] \in AnyVector
    <2>1. rows[i] \in Row /\ x.setup \in Setup
      BY DEF IsRun
    <2>2. FrozenBatch[x.setup][rows[i]] \in Seq(Row)
      BY <2>1, FrozenBatchFacts
    <2> QED
      BY <1>2, <2>1, <2>2 DEF MayHold, FrozenVector, AnyVector
  <1>4. Assembled(x, rows) \in Seq(AnyVector)
    <2>1. DOMAIN rows = 1..Len(rows) /\ Len(rows) \in Nat
      OBVIOUS
    <2>2. Assembled(x, rows) = [i \in 1..Len(rows) |-> CHOOSE v \in x.held[rows[i]] : TRUE]
      BY <2>1 DEF Assembled
    <2>3. PICK a : a = Assembled(x, rows)
      OBVIOUS
    <2>4. a = [i \in 1..Len(rows) |-> CHOOSE v \in x.held[rows[i]] : TRUE]
          /\ \A i \in 1..Len(rows) : a[i] \in AnyVector
      BY <1>3, <2>1, <2>2, <2>3
    <2> QED
      BY <2>1, <2>3, <2>4
  <1> QED
    BY <1>1, <1>2, <1>4

\* A chunk file that its sidecar names has the vectors of the frozen batch.
LEMMA LoadRun ==
    ASSUME NEW x, RunInv(x), x.stage = "verify",
           NEW m \in x.loaded, NEW c \in x.digests, NEW file,
           VerifiedPayload(m, file, c), NEW z, Like(x, z), z.stage = x.stage,
           \A r \in Row : z.held[r] = IF r \in ToSet(BatchOf(x))
                                      THEN {v \in ToSet(m) : v.row = r} ELSE x.held[r]
    PROVE  RunInv(Advance(z)) /\ Advance(z).id = x.id /\ Advance(z).db = x.db
  <1> DEFINE batch == BatchOf(x)
  <1>1. IsRun(x)
    BY DEF RunInv
  <1>2. /\ z.mode = x.mode /\ z.id = x.id /\ z.db = x.db /\ z.setup = x.setup /\ z.split = x.split
        /\ z.chunk = x.chunk /\ z.done = x.done
    BY DEF Like
  <1>3. IsRun(z)
    BY <1>1 DEF IsRun, Like
  <1>4. ASSUME Sound(z.mode)
        PROVE  \A k \in 1..z.chunk : \A r \in ToSet(ChunkRows(z.setup, z.split, k)) : Has(z, r)
    <2>1. ~ torn /\ HeldInv(x) /\ x.mode = "read-write"
      BY <1>2, <1>4 DEF Sound, RunInv
    <2>2. /\ batch = ChunkRows(x.setup, x.split, x.chunk) /\ batch \in Seq(Row)
          /\ ToSet(batch) \subseteq Row
      BY <1>1, BatchFacts
    <2>3. m \in Seq(AnyVector) /\ c.array = Bits(m) /\ DOMAIN c.array = DOMAIN batch
          /\ \A i \in DOMAIN batch : c.array[i] \in FrozenVector(x.setup, batch[i])
      BY <2>1, <2>2 DEF RunInv, ChunkInv, VerifiedPayload
    <2>4. DOMAIN m = DOMAIN batch
      BY <2>3 DEF Bits
    <2>5. \A i \in DOMAIN batch : m[i] \in FrozenVector(x.setup, batch[i])
      <3> TAKE i \in DOMAIN batch
      <3>1. m[i] \in AnyVector /\ [m[i] EXCEPT !.by = 0] \in FrozenVector(x.setup, batch[i])
        BY <2>3, <2>4 DEF Bits
      <3> QED
        BY <3>1 DEF AnyVector, FrozenVector
    <2>6. \A r \in ToSet(batch) : Has(z, r)
      <3> TAKE r \in ToSet(batch)
      <3>1. z.held[r] = {v \in ToSet(m) : v.row = r}
        BY <1>2, <2>2
      <3>2. PICK i \in DOMAIN batch : batch[i] = r
        BY DEF ToSet
      <3>3. m[i] \in z.held[r]
        BY <2>4, <2>5, <3>1, <3>2 DEF ToSet, FrozenVector
      <3>4. ASSUME NEW v \in z.held[r] PROVE v \in FrozenVector(x.setup, r)
        <4>1. PICK j \in DOMAIN m : v = m[j] /\ v.row = r
          BY <3>1 DEF ToSet
        <4>2. v \in FrozenVector(x.setup, batch[j])
          BY <2>4, <2>5, <4>1
        <4> QED
          BY <4>1, <4>2 DEF FrozenVector
      <3> QED
        BY <1>2, <2>1, <3>3, <3>4 DEF Has, MayHold
    <2>7. \A k \in 1..(x.chunk - 1) : \A r \in ToSet(ChunkRows(x.setup, x.split, k)) : Has(z, r)
      <3> TAKE k \in 1..(x.chunk - 1)
      <3> TAKE r \in ToSet(ChunkRows(x.setup, x.split, k))
      <3>1. Has(x, r)
        BY <2>1 DEF HeldInv, Reached
      <3>2. z.held[r] = x.held[r]
        BY <1>1, <1>2, BatchFacts
      <3> QED
        BY <1>2, <3>1, <3>2 DEF Has
    <2>8. x.chunk \in Nat
      BY <1>1 DEF IsRun
    <2>9. \A k \in 1..x.chunk : k \in 1..(x.chunk - 1) \/ k = x.chunk
      BY <2>8
    <2> QED
      BY <1>2, <2>2, <2>6, <2>7, <2>9
  <1>5. Sound(z.mode) => MatricesInv(z.mode, z.setup, z.id, z.done, z.split - 1)
    BY <1>2 DEF RunInv, Done
  <1>6. /\ RunInv(Advance(z)) /\ Advance(z).id = z.id /\ Advance(z).db = z.db
    BY <1>3, <1>4, <1>5, AdvanceRun
  <1> QED
    BY <1>2, <1>6

\* The rows of a split are those of its chunks.
LEMMA SplitHeld ==
    ASSUME NEW x, RunInv(x), x.stage \in {"final", "digest"}, Sound(x.mode)
    PROVE  \A r \in ToSet(Splits[x.split]) : Has(x, r)
  <1>1. IsRun(x) /\ HeldInv(x)
    BY DEF RunInv
  <1>2. \A k \in 1..ChunkCount(x.setup, x.split) :
            \A r \in ToSet(ChunkRows(x.setup, x.split, k)) : Has(x, r)
    BY <1>1 DEF HeldInv, Reached, IsRun
  <1>3. x.setup \in Setup /\ x.split \in DOMAIN Splits
    BY <1>1 DEF IsRun
  <1>4. ASSUME NEW r \in ToSet(Splits[x.split]) PROVE Has(x, r)
    <2>1. PICK i \in DOMAIN Splits[x.split] : Splits[x.split][i] = r
      BY DEF ToSet
    <2> QED
      BY <1>2, <1>3, <2>1, ChunkCovers
  <1> QED
    BY <1>4

\* The matrix of a split is added to those before it.
LEMMA DigestRun ==
    ASSUME NEW x, RunInv(x), x.stage = "digest",
           NEW artifact, artifact.array = Assembled(x, Splits[x.split]),
           NEW y, y = [f \in Fields |-> y[f]],
           y.mode = x.mode /\ y.id = x.id /\ y.db = x.db /\ y.setup = x.setup /\ y.held = x.held,
           y.dir = x.dir /\ y.grade = x.grade /\ y.done = Append(x.done, artifact),
           y.split = (IF x.split < Len(Splits) THEN x.split + 1 ELSE x.split),
           y.chunk = (IF x.split < Len(Splits) THEN 1 ELSE x.chunk),
           y.stage = (IF x.split < Len(Splits) THEN "load" ELSE "report")
    PROVE  RunInv(y) /\ y.id = x.id /\ y.db = x.db
  <1> DEFINE here == x.split < Len(Splits)
  <1>1. IsRun(x)
    BY DEF RunInv
  <1>2. x.split \in 1..Len(Splits) /\ Len(Splits) \in Nat /\ DOMAIN Splits = 1..Len(Splits)
    BY <1>1, SplitFacts DEF IsRun
  <1>3. IsRun(y)
    <2>1. y.split \in DOMAIN Splits
      BY <1>2
    <2>2. y.chunk \in 1..ChunkCount(y.setup, y.split)
      <3>1. CASE here
        BY <1>1, <2>1, <3>1, CountFacts DEF IsRun
      <3>2. CASE ~ here
        BY <1>1, <3>2 DEF IsRun
      <3> QED
        BY <3>1, <3>2
    <2>3. y.stage \in {"load", "report"}
      OBVIOUS
    <2>4. y.id \in 1..runs /\ y.dir \in Dir /\ y.mode \in Mode /\ y.db \in Database(y.mode)
          /\ y.setup \in Setup /\ y.grade \in Grade /\ DOMAIN y.held = Row
      BY <1>1 DEF IsRun
    <2> QED
      BY <2>1, <2>2, <2>3, <2>4 DEF IsRun
  <1>4. ASSUME Sound(y.mode)
        PROVE  HeldInv(y) /\ MatricesInv(y.mode, y.setup, y.id, y.done, Done(y))
    <2>1. MatricesInv(x.mode, x.setup, x.id, x.done, x.split - 1)
      BY <1>4 DEF RunInv, Done
    <2>2. Done(y) = x.split
      BY <1>2 DEF Done
    <2>3. HeldInv(y)
      BY DEF HeldInv, Reached
    <2>4. /\ DOMAIN artifact.array = DOMAIN Splits[x.split]
          /\ \A i \in DOMAIN Splits[x.split] :
                artifact.array[i] \in MayHold(x.mode, x.setup, x.id, Splits[x.split][i])
      <3>1. RunInv(x) /\ x.stage \in {"final", "digest"} /\ Sound(x.mode)
        BY <1>4
      <3>2. \A r \in ToSet(Splits[x.split]) : Has(x, r)
        BY <3>1, SplitHeld
      <3>3. Splits[x.split] \in Seq(Row)
        BY <1>2, SplitFacts
      <3> QED
        BY <1>1, <3>2, <3>3, AssembledFacts
    <2>5. /\ IsSequence(y.done) /\ Len(y.done) = x.split /\ y.done[x.split] = artifact
          /\ \A i \in 1..(x.split - 1) : y.done[i] = x.done[i]
      <3>1. PICK s : s = x.done
        OBVIOUS
      <3>2. IsSequence(s) /\ Len(s) = x.split - 1 /\ y.done = Append(s, artifact)
        BY <2>1, <3>1 DEF MatricesInv
      <3>3. /\ IsSequence(Append(s, artifact)) /\ Len(Append(s, artifact)) = Len(s) + 1
            /\ Append(s, artifact)[Len(s) + 1] = artifact
            /\ \A i \in 1..Len(s) : Append(s, artifact)[i] = s[i]
        BY <3>2, AppendSequence
      <3>4. Len(s) + 1 = x.split
        BY <1>2, <3>2
      <3> QED
        BY <3>1, <3>2, <3>3, <3>4
    <2>6. \A s \in 1..x.split : s \in 1..(x.split - 1) \/ s = x.split
      BY <1>2
    <2>7. MatricesInv(y.mode, y.setup, y.id, y.done, x.split)
      BY <2>1, <2>4, <2>5, <2>6 DEF MatricesInv
    <2> QED
      BY <2>2, <2>3, <2>7
  <1> QED
    BY <1>3, <1>4 DEF RunInv, ChunkInv

-----------------------------------------------------------------------------
(* The steps of the specification.                                         *)

\* Nobody puts to the database of a run that does not.
LEMMA NobodyPuts ==
    ASSUME ExtractionInv, ~ torn, NEW w \in Worker, NEW x \in run[w], x.stage # "put",
           x.mode # "off", NEW c
    PROVE  ~ Putting(x.db, c)
  <1>1. x.db \in Db /\ x.db # "none"
    BY ExtractionAssumption DEF ExtractionInv, RunInv, IsRun, Database
  <1>2. run[w] = {x}
    BY DEF ExtractionInv, IdInv
  <1> QED
    BY <1>1, <1>2 DEF ExtractionInv, AloneInv, Putting

\* A run reads what it may reuse of a chunk, or does not reuse it.
LEMMA ReadRun ==
    ASSUME NEW x, RunInv(x), x.stage \in {"load", "read", "verify"},
           NEW y, Like(x, y), y.held = x.held, y.stage \in {"read", "verify", "lookup"},
           y.stage # "lookup" => x.mode = "read-write", ChunkInv(y)
    PROVE  RunInv(y) /\ y.id = x.id /\ y.db = x.db
  <1>1. IsRun(x)
    BY DEF RunInv
  <1>2. /\ y.mode = x.mode /\ y.id = x.id /\ y.db = x.db /\ y.setup = x.setup /\ y.split = x.split
        /\ y.chunk = x.chunk /\ y.done = x.done
    BY DEF Like
  <1>3. IsRun(y)
    BY <1>1 DEF IsRun, Like, BatchStage
  <1>4. Reached(y) = Reached(x) /\ Done(y) = Done(x)
    BY <1>2 DEF Reached, Done
  <1>5. ASSUME Sound(y.mode)
        PROVE  HeldInv(y) /\ MatricesInv(y.mode, y.setup, y.id, y.done, Done(y))
    <2>1. HeldInv(x) /\ MatricesInv(x.mode, x.setup, x.id, x.done, Done(x))
      BY <1>2, <1>5 DEF RunInv
    <2>2. \A k \in 1..Reached(y) : \A r \in ToSet(ChunkRows(y.setup, y.split, k)) : Has(y, r)
      BY <1>2, <1>4, <2>1 DEF HeldInv, Has
    <2>3. HeldInv(y)
      BY <2>2 DEF HeldInv
    <2> QED
      BY <1>2, <1>4, <2>1, <2>3
  <1> QED
    BY <1>2, <1>3, <1>5 DEF RunInv

LEMMA SidecarRead ==
    ASSUME ExtractionInv, NEW w \in Worker, ReadSidecar(w)
    PROVE  ExtractionInv'
  <1>1. PICK x \in run[w] :
          LET read == {c \in sidecar[x.dir][Here(x)] :
                          x.mode = "read-write" /\ matrix[x.dir][Here(x)] # {}}
          IN  /\ x.stage = "load"
              /\ \/ \E c \in read : Becomes(w, [x EXCEPT !.stage = "read", !.digests = {c}])
                 \/ read = {} /\ Becomes(w, [x EXCEPT !.stage = "lookup"])
    BY DEF ReadSidecar
  <1>2. UNCHANGED <<diskVars, review, checkpoint, torn, runs>> /\ RunInv(x)
    BY DEF ReadSidecar, ExtractionInv
  <1>3. Domains' /\ (~ torn => FilesInv')
    <2>1. DOMAIN run' = Worker
      BY <1>1 DEF Becomes, ExtractionInv, Domains
    <2> QED
      BY <1>2, <2>1 DEF ExtractionInv, Domains, FilesInv, diskVars
  <1>4. \E y : /\ Becomes(w, y) /\ RunInv(y) /\ y.id = x.id /\ y.db = x.db
    <2>1. CASE Becomes(w, [x EXCEPT !.stage = "lookup"])
      <3>1. PICK y : y = [x EXCEPT !.stage = "lookup"]
        OBVIOUS
      <3>2. x.stage = "load"
        BY <1>1
      <3> QED
        BY <1>2, <2>1, <3>1, <3>2, StageRun
    <2>2. CASE \E c \in sidecar[x.dir][Here(x)] :
                  /\ x.mode = "read-write"
                  /\ Becomes(w, [x EXCEPT !.stage = "read", !.digests = {c}])
      <3>1. PICK c \in sidecar[x.dir][Here(x)] :
                  /\ x.mode = "read-write"
                  /\ Becomes(w, [x EXCEPT !.stage = "read", !.digests = {c}])
        BY <2>2
      <3>2. PICK y : y = [x EXCEPT !.stage = "read", !.digests = {c}]
        OBVIOUS
      <3>3. Like(x, y) /\ y.held = x.held /\ y.stage = "read" /\ y.digests = {c}
        BY <1>2, <3>2 DEF RunInv, IsRun, Fields, Like
      <3>4. ChunkInv(y)
        <4>1. SUFFICES ASSUME ~ torn
                       PROVE  /\ DOMAIN c.array = DOMAIN BatchOf(x)
                              /\ \A i \in DOMAIN BatchOf(x) :
                                    c.array[i] \in FrozenVector(x.setup, BatchOf(x)[i])
          BY <3>3 DEF ChunkInv, Like, BatchOf
        <4>2. Here(x) \in Chunk /\ Here(x) = <<x.setup, x.split, x.chunk>> /\ x.dir \in Dir
              /\ BatchOf(x) = ChunkRows(x.setup, x.split, x.chunk)
          BY <1>2, BatchFacts DEF Here, RunInv, IsRun
        <4>3. FilesInv
          BY <4>1 DEF ExtractionInv
        <4> QED
          BY <4>2, <4>3 DEF FilesInv
      <3> QED
        BY <1>1, <1>2, <3>1, <3>2, <3>3, <3>4, ReadRun
    <2> QED
      BY <1>1, <2>1, <2>2
  <1>5. PICK y : Becomes(w, y) /\ RunInv(y) /\ y.id = x.id /\ y.db = x.db
    BY <1>4
  <1> QED
    BY <1>1, <1>2, <1>3, <1>5, Goes DEF diskVars

LEMMA LoadStep ==
    ASSUME ExtractionInv, NEW w \in Worker, LoadChunk(w)
    PROVE  ExtractionInv'
  <1>0. PICK x \in run[w] : \E m \in matrix[x.dir][Here(x)] :
          x.stage = "read" /\ Becomes(w, [x EXCEPT !.stage = "verify", !.loaded = {m}])
    BY DEF LoadChunk
  <1>1. PICK m \in matrix[x.dir][Here(x)] :
          x.stage = "read" /\ Becomes(w, [x EXCEPT !.stage = "verify", !.loaded = {m}])
    BY <1>0
  <1>2. UNCHANGED <<diskVars, review, checkpoint, torn, runs>> /\ RunInv(x)
    BY DEF LoadChunk, ExtractionInv
  <1>3. Domains' /\ (~ torn => FilesInv')
    <2>1. DOMAIN run' = Worker
      BY <1>1 DEF Becomes, ExtractionInv, Domains
    <2> QED
      BY <1>2, <2>1 DEF ExtractionInv, Domains, FilesInv, diskVars
  <1>4. PICK y : y = [x EXCEPT !.stage = "verify", !.loaded = {m}]
    OBVIOUS
  <1>5. Like(x, y) /\ y.held = x.held /\ y.stage = "verify" /\ y.digests = x.digests
        /\ y.loaded = {m}
    BY <1>2, <1>4 DEF RunInv, IsRun, Fields, Like
  <1>6. ChunkInv(y)
    <2>1. SUFFICES ASSUME ~ torn
                   PROVE  /\ {m} \subseteq Seq(AnyVector)
                          /\ \A c \in x.digests :
                                /\ DOMAIN c.array = DOMAIN BatchOf(x)
                                /\ \A i \in DOMAIN BatchOf(x) :
                                      c.array[i] \in FrozenVector(x.setup, BatchOf(x)[i])
      BY <1>5 DEF ChunkInv, Like, BatchOf
    <2>2. Here(x) \in Chunk /\ x.dir \in Dir /\ FilesInv
      BY <1>2, <2>1, BatchFacts DEF ExtractionInv, RunInv, IsRun
    <2>3. m \in Seq(AnyVector)
      BY <2>2 DEF FilesInv
    <2> QED
      BY <1>1, <1>2, <2>1, <2>3 DEF RunInv, ChunkInv
  <1>7. RunInv(y) /\ y.id = x.id /\ y.db = x.db
    <2>1. x.mode = "read-write"
      BY <1>1, <1>2 DEF RunInv
    <2> QED
      BY <1>1, <1>2, <1>5, <1>6, <2>1, ReadRun
  <1> QED
    BY <1>1, <1>2, <1>3, <1>4, <1>7, Goes DEF diskVars

LEMMA VerifyStep ==
    ASSUME ExtractionInv, NEW w \in Worker, VerifyChunk(w)
    PROVE  ExtractionInv'
  <1>0. PICK x \in run[w] :
          \E m \in x.loaded, c \in x.digests, file \in matrix[x.dir][Here(x)] :
          LET dropped == [x EXCEPT !.digests = {}, !.loaded = {}]
          IN  /\ x.stage = "verify"
              /\ \/ /\ VerifiedPayload(m, file, c)
                    /\ Becomes(w, Advance([dropped EXCEPT !.resumed = @ + 1,
                           !.held = [r \in Row |->
                               IF r \in ToSet(BatchOf(x))
                               THEN {v \in ToSet(m) : v.row = r} ELSE @[r]]]))
                 \/ /\ ~ VerifiedPayload(m, file, c)
                    /\ Becomes(w, [dropped EXCEPT !.stage = "lookup"])
    BY DEF VerifyChunk
  <1>1. PICK m \in x.loaded, c \in x.digests, file \in matrix[x.dir][Here(x)] :
          LET dropped == [x EXCEPT !.digests = {}, !.loaded = {}]
          IN  /\ x.stage = "verify"
              /\ \/ /\ VerifiedPayload(m, file, c)
                    /\ Becomes(w, Advance([dropped EXCEPT !.resumed = @ + 1,
                           !.held = [r \in Row |->
                               IF r \in ToSet(BatchOf(x))
                               THEN {v \in ToSet(m) : v.row = r} ELSE @[r]]]))
                 \/ /\ ~ VerifiedPayload(m, file, c)
                    /\ Becomes(w, [dropped EXCEPT !.stage = "lookup"])
    BY <1>0
  <1>2. UNCHANGED <<diskVars, review, checkpoint, torn, runs>> /\ RunInv(x)
    BY DEF VerifyChunk, ExtractionInv
  <1>3. Domains' /\ (~ torn => FilesInv')
    <2>1. DOMAIN run' = Worker
      BY <1>1 DEF Becomes, ExtractionInv, Domains
    <2> QED
      BY <1>2, <2>1 DEF ExtractionInv, Domains, FilesInv, diskVars
  <1>4. PICK dropped : dropped = [x EXCEPT !.digests = {}, !.loaded = {}]
    OBVIOUS
  <1>5. dropped.held = x.held /\ dropped.stage = "verify" /\ Like(x, dropped)
        /\ dropped.digests = {} /\ dropped.loaded = {}
    BY <1>1, <1>2, <1>4 DEF RunInv, IsRun, Fields, Like
  <1>6. CASE Becomes(w, [dropped EXCEPT !.stage = "lookup"])
    <2>1. PICK y : y = [dropped EXCEPT !.stage = "lookup"]
      OBVIOUS
    <2>2. Like(x, y) /\ y.held = x.held /\ y.stage = "lookup"
      <3>1. dropped = [f \in Fields |-> dropped[f]]
        BY <1>5 DEF Like
      <3>2. /\ y = [f \in Fields |-> y[f]] /\ y.stage = "lookup"
            /\ \A f \in Fields : f # "stage" => y[f] = dropped[f]
        BY <2>1, <3>1 DEF Fields
      <3> QED
        BY <1>5, <3>2 DEF Like, Fields
    <2>3. ChunkInv(y)
      BY <2>2 DEF ChunkInv
    <2>4. RunInv(y) /\ y.id = x.id /\ y.db = x.db
      BY <1>1, <1>2, <2>2, <2>3, ReadRun
    <2> QED
      BY <1>1, <1>2, <1>3, <1>6, <2>1, <2>4, Goes DEF diskVars
  <1>7. CASE /\ VerifiedPayload(m, file, c)
             /\ Becomes(w, Advance([dropped EXCEPT !.resumed = @ + 1,
                           !.held = [r \in Row |->
                               IF r \in ToSet(BatchOf(x))
                               THEN {v \in ToSet(m) : v.row = r} ELSE @[r]]]))
    <2>1. PICK held : held = [r \in Row |-> IF r \in ToSet(BatchOf(x))
                                  THEN {v \in ToSet(m) : v.row = r} ELSE x.held[r]]
      OBVIOUS
    <2>2. PICK z : z = [dropped EXCEPT !.resumed = @ + 1, !.held = held]
      OBVIOUS
    <2>3. Becomes(w, Advance(z))
      BY <1>5, <1>7, <2>1, <2>2
    <2>4. Like(x, z) /\ z.stage = "verify" /\ z.held = held
      <3>1. dropped = [f \in Fields |-> dropped[f]]
        BY <1>5 DEF Like
      <3>2. /\ z = [f \in Fields |-> z[f]] /\ z.held = held
            /\ \A f \in Fields : f \notin {"resumed", "held"} => z[f] = dropped[f]
        BY <2>2, <3>1 DEF Fields
      <3>3. DOMAIN z.held = Row
        BY <2>1, <3>2
      <3> QED
        BY <1>5, <3>2, <3>3 DEF Like, Fields
    <2>5. \A r \in Row : z.held[r] = IF r \in ToSet(BatchOf(x))
                                     THEN {v \in ToSet(m) : v.row = r} ELSE x.held[r]
      BY <2>1, <2>4
    <2>6. RunInv(Advance(z)) /\ Advance(z).id = x.id /\ Advance(z).db = x.db
      <3>1. x.stage = "verify" /\ z.stage = x.stage /\ VerifiedPayload(m, file, c)
        BY <1>1, <1>7, <2>4
      <3> QED
        BY <1>2, <2>4, <2>5, <3>1, LoadRun
    <2>7. PICK y : y = Advance(z)
      OBVIOUS
    <2> QED
      BY <1>1, <1>2, <1>3, <2>3, <2>6, <2>7, Goes DEF diskVars
  <1> QED
    BY <1>1, <1>4, <1>6, <1>7

LEMMA LookUpStep ==
    ASSUME ExtractionInv, NEW w \in Worker, LookUp(w)
    PROVE  ExtractionInv'
  <1>1. PICK x \in run[w] :
          LET found == [r \in Row |->
                IF r \in ToSet(BatchOf(x)) /\ ReadsEnabled(x.mode)
                THEN {v \in stored[x.db][x.setup][r] : Intact(v)} ELSE {}]
              hits == {r \in ToSet(BatchOf(x)) : found[r] # {}}
          IN  /\ x.stage = "lookup"
              /\ Becomes(w, [x EXCEPT !.stage = "embed", !.hits = @ + Cardinality(hits),
                   !.held = [r \in Row |-> IF r \in ToSet(BatchOf(x)) THEN found[r] ELSE @[r]]])
    BY DEF LookUp
  <1>2. UNCHANGED <<diskVars, review, checkpoint, torn, runs>> /\ RunInv(x)
    BY DEF LookUp, ExtractionInv
  <1>3. Domains' /\ (~ torn => FilesInv')
    <2>1. DOMAIN run' = Worker
      BY <1>1 DEF Becomes, ExtractionInv, Domains
    <2> QED
      BY <1>2, <2>1 DEF ExtractionInv, Domains, FilesInv, diskVars
  <1>4. PICK found : found = [r \in Row |->
                IF r \in ToSet(BatchOf(x)) /\ ReadsEnabled(x.mode)
                THEN {v \in stored[x.db][x.setup][r] : Intact(v)} ELSE {}]
    OBVIOUS
  <1>5. PICK held : held = [r \in Row |-> IF r \in ToSet(BatchOf(x)) THEN found[r] ELSE x.held[r]]
    OBVIOUS
  <1>6. PICK y : y = [x EXCEPT !.stage = "embed", !.held = held,
                       !.hits = @ + Cardinality({r \in ToSet(BatchOf(x)) : found[r] # {}})]
    OBVIOUS
  <1>7. Becomes(w, y) /\ x.stage = "lookup"
    BY <1>1, <1>4, <1>5, <1>6
  <1>8. Like(x, y) /\ y.stage = "embed" /\ y.held = held
    BY <1>2, <1>5, <1>6 DEF RunInv, IsRun, Fields, Like
  <1>9. \A r \in Row : y.held[r] =
            IF r \in ToSet(BatchOf(x))
            THEN {v \in stored[x.db][x.setup][r] : ReadsEnabled(x.mode) /\ Intact(v)}
            ELSE x.held[r]
    BY <1>4, <1>5, <1>8
  <1>10. RunInv(y)
    <2>1. x.mode = "read-write" /\ ~ torn => ~ Putting(x.db, Here(x))
      BY <1>7, NobodyPuts
    <2>2. ~ torn => StoredInv
      BY DEF ExtractionInv
    <2> QED
      BY <1>2, <1>7, <1>8, <1>9, <2>1, <2>2, LookUpRun
  <1> QED
    BY <1>2, <1>3, <1>7, <1>8, <1>10, Goes DEF diskVars, Like

LEMMA EmbedStep ==
    ASSUME ExtractionInv, NEW w \in Worker, EmbedMissing(w)
    PROVE  ExtractionInv'
  <1>1. PICK x \in run[w] :
          LET batch == MissingIn(x)
          IN  /\ x.stage = "embed"
              /\ Becomes(w, [x EXCEPT !.stage = "put", !.misses = @ + Len(batch),
                   !.held = [r \in Row |->
                       IF r \in ToSet(batch)
                       THEN {Embed(x.setup, batch, r, x.grade, x.id)} ELSE @[r]],
                   !.put = IF WritesEnabled(x.mode) THEN batch ELSE <<>>])
    BY DEF EmbedMissing
  <1>2. UNCHANGED <<diskVars, review, checkpoint, torn, runs>> /\ RunInv(x)
    BY DEF EmbedMissing, ExtractionInv
  <1>3. Domains' /\ (~ torn => FilesInv')
    <2>1. DOMAIN run' = Worker
      BY <1>1 DEF Becomes, ExtractionInv, Domains
    <2> QED
      BY <1>2, <2>1 DEF ExtractionInv, Domains, FilesInv, diskVars
  <1>4. PICK misses : misses = x.misses + Len(MissingIn(x))
    OBVIOUS
  <1>5. PICK y : y = [x EXCEPT !.stage = "put", !.misses = misses,
                   !.held = [r \in Row |->
                       IF r \in ToSet(MissingIn(x))
                       THEN {Embed(x.setup, MissingIn(x), r, x.grade, x.id)} ELSE @[r]],
                   !.put = IF WritesEnabled(x.mode) THEN MissingIn(x) ELSE <<>>]
    OBVIOUS
  <1>6. Becomes(w, y) /\ x.stage = "embed"
    BY <1>1, <1>4, <1>5
  <1>7. x.mode # "off" /\ ~ torn => ~ Putting(x.db, Here(x))
    BY <1>6, NobodyPuts
  <1>8. RunInv(y)
    BY <1>2, <1>5, <1>6, <1>7, EmbedRun DEF ExtractionInv
  <1>9. y.id = x.id /\ y.db = x.db
    BY <1>2, <1>5 DEF RunInv, IsRun, Fields
  <1> QED
    BY <1>2, <1>3, <1>6, <1>8, <1>9, Goes DEF diskVars

LEMMA MatrixStep ==
    ASSUME ExtractionInv, NEW w \in Worker, WriteMatrix(w)
    PROVE  ExtractionInv'
  <1>1. PICK x \in run[w] :
          /\ x.stage = "matrix"
          /\ matrix' = [matrix EXCEPT ![x.dir][Here(x)] = {Assembled(x, BatchOf(x))}]
          /\ Becomes(w, [x EXCEPT !.stage = "sidecar"])
    BY DEF WriteMatrix
  <1>2. UNCHANGED <<stored, sidecar, report, review, checkpoint, torn, runs>> /\ RunInv(x)
    BY DEF WriteMatrix, ExtractionInv
  <1>3. Domains'
    BY <1>1, <1>2 DEF Becomes, ExtractionInv, Domains
  <1>4. ASSUME ~ torn PROVE FilesInv'
    <2>1. IsRun(x) /\ \A r \in ToSet(BatchOf(x)) : Has(x, r)
      <3>1. IsRun(x) /\ HeldInv(x)
        BY <1>2, <1>4 DEF RunInv, Sound
      <3>2. x.chunk \in 1..x.chunk /\ Reached(x) = x.chunk
        BY <1>1, <3>1 DEF Reached, IsRun
      <3>3. BatchOf(x) = ChunkRows(x.setup, x.split, x.chunk)
        BY <3>1, BatchFacts
      <3> QED
        BY <1>1, <3>1, <3>2, <3>3 DEF HeldInv
    <2>2. Assembled(x, BatchOf(x)) \in Seq(AnyVector)
      BY <2>1, BatchFacts, AssembledFacts
    <2>3. \A d \in Dir, c \in Chunk :
              matrix'[d][c] = matrix[d][c] \/ matrix'[d][c] = {Assembled(x, BatchOf(x))}
      BY <1>1 DEF ExtractionInv, Domains
    <2> QED
      BY <1>2, <1>4, <2>2, <2>3 DEF ExtractionInv, FilesInv
  <1>5. PICK y : y = [x EXCEPT !.stage = "sidecar"]
    OBVIOUS
  <1>6. RunInv(y) /\ y.id = x.id /\ y.db = x.db
    BY <1>1, <1>2, <1>5, StageRun
  <1> QED
    BY <1>1, <1>2, <1>3, <1>4, <1>5, <1>6, Goes

LEMMA SidecarStep ==
    ASSUME ExtractionInv, NEW w \in Worker, WriteSidecar(w)
    PROVE  ExtractionInv'
  <1>1. PICK x \in run[w] : \E m \in matrix[x.dir][Here(x)] :
          /\ x.stage = "sidecar"
          /\ sidecar' = [sidecar EXCEPT ![x.dir][Here(x)] =
                {[array |-> Bits(Assembled(x, BatchOf(x))), file |-> Bits(m)]}]
          /\ Becomes(w, Advance(x))
    BY DEF WriteSidecar
  <1>2. UNCHANGED <<stored, matrix, report, review, checkpoint, torn, runs>> /\ RunInv(x)
    BY DEF WriteSidecar, ExtractionInv
  <1>3. PICK file : sidecar' = [sidecar EXCEPT ![x.dir][Here(x)] =
                {[array |-> Bits(Assembled(x, BatchOf(x))), file |-> file]}]
    BY <1>1
  <1>4. Domains'
    BY <1>1, <1>2, <1>3 DEF Becomes, ExtractionInv, Domains
  <1>5. IsRun(x) /\ (Sound(x.mode) =>
            /\ \A k \in 1..x.chunk : \A r \in ToSet(ChunkRows(x.setup, x.split, k)) : Has(x, r)
            /\ MatricesInv(x.mode, x.setup, x.id, x.done, x.split - 1))
    BY <1>1, <1>2 DEF RunInv, HeldInv, Reached, Done
  <1>6. ASSUME ~ torn PROVE FilesInv'
    <2>1. \A r \in ToSet(BatchOf(x)) : Has(x, r)
      <3>1. x.chunk \in 1..x.chunk
        BY <1>5 DEF IsRun
      <3> QED
        BY <1>5, <1>6, <3>1, BatchFacts DEF Sound
    <2>2. PICK a : a = Assembled(x, BatchOf(x))
      OBVIOUS
    <2>3. DOMAIN a = DOMAIN BatchOf(x)
          /\ \A i \in DOMAIN a : a[i] \in FrozenVector(x.setup, BatchOf(x)[i])
      BY <1>5, <2>1, <2>2, BatchFacts, AssembledFacts DEF MayHold
    <2>4. DOMAIN Bits(a) = DOMAIN BatchOf(x)
          /\ \A i \in DOMAIN a : Bits(a)[i] \in FrozenVector(x.setup, BatchOf(x)[i])
      BY <2>3 DEF Bits, FrozenVector
    <2>5. Here(x) \in Chunk /\ x.dir \in Dir /\ Here(x) = <<x.setup, x.split, x.chunk>>
          /\ BatchOf(x) = ChunkRows(x.setup, x.split, x.chunk)
      BY <1>5, BatchFacts DEF Here, IsRun
    <2>6. ASSUME NEW d \in Dir, NEW c \in Chunk, NEW s \in sidecar'[d][c]
          PROVE  LET batch == ChunkRows(c[1], c[2], c[3])
                 IN  /\ DOMAIN s.array = DOMAIN batch
                     /\ \A i \in DOMAIN batch : s.array[i] \in FrozenVector(c[1], batch[i])
      <3>1. CASE s \in sidecar[d][c]
        BY <1>6, <3>1 DEF ExtractionInv, FilesInv
      <3>2. CASE s \notin sidecar[d][c]
        <4>1. d = x.dir /\ c = Here(x) /\ s = [array |-> Bits(a), file |-> file]
          BY <1>3, <2>2, <2>6, <3>2 DEF ExtractionInv, Domains
        <4>2. s.array = Bits(a) /\ c[1] = x.setup /\ ChunkRows(c[1], c[2], c[3]) = BatchOf(x)
          BY <2>5, <4>1
        <4> QED
          BY <2>3, <2>4, <4>2
      <3> QED
        BY <3>1, <3>2
    <2> QED
      BY <1>2, <1>6, <2>6 DEF ExtractionInv, FilesInv
  <1>7. PICK y : y = Advance(x)
    OBVIOUS
  <1>8. RunInv(y) /\ y.id = x.id /\ y.db = x.db
    BY <1>5, <1>7, AdvanceRun
  <1> QED
    BY <1>1, <1>2, <1>4, <1>6, <1>7, <1>8, Goes

LEMMA FinalSteps ==
    ASSUME ExtractionInv, NEW w \in Worker, WriteFinal(w) \/ DigestFinal(w)
    PROVE  ExtractionInv'
  <1>1. CASE WriteFinal(w)
    <2>1. PICK x \in run[w] : x.stage = "final" /\ Becomes(w, [x EXCEPT !.stage = "digest"])
      BY <1>1 DEF WriteFinal
    <2>2. UNCHANGED <<stored, matrix, sidecar, report, review, checkpoint, torn, runs>> /\ RunInv(x)
      BY <1>1 DEF WriteFinal, ExtractionInv
    <2>3. Domains' /\ (~ torn => FilesInv')
      BY <2>1, <2>2 DEF Becomes, ExtractionInv, Domains, FilesInv
    <2>4. PICK y : y = [x EXCEPT !.stage = "digest"]
      OBVIOUS
    <2>5. RunInv(y) /\ y.id = x.id /\ y.db = x.db
      BY <2>1, <2>2, <2>4, StageRun
    <2> QED
      BY <2>1, <2>2, <2>3, <2>4, <2>5, Goes
  <1>2. CASE DigestFinal(w)
    <2>1. PICK x \in run[w] : \E m \in final[x.dir][x.split] :
        LET artifact == [array |-> Assembled(x, Splits[x.split]), file |-> Bits(m),
                         hits |-> x.hits, misses |-> x.misses, resumed |-> x.resumed]
            next == [x EXCEPT !.done = Append(@, artifact), !.hits = 0, !.misses = 0,
                              !.resumed = 0]
        IN  /\ x.stage = "digest"
            /\ IF x.split < Len(Splits)
               THEN Becomes(w, [next EXCEPT !.split = @ + 1, !.chunk = 1, !.stage = "load"])
               ELSE Becomes(w, [next EXCEPT !.stage = "report"])
      BY <1>2 DEF DigestFinal
    <2>2. UNCHANGED <<stored, matrix, sidecar, report, review, checkpoint, torn, runs>> /\ RunInv(x)
      BY <1>2 DEF DigestFinal, ExtractionInv, diskVars
    <2>3. PICK m \in final[x.dir][x.split] :
        LET artifact == [array |-> Assembled(x, Splits[x.split]), file |-> Bits(m),
                         hits |-> x.hits, misses |-> x.misses, resumed |-> x.resumed]
            next == [x EXCEPT !.done = Append(@, artifact), !.hits = 0, !.misses = 0,
                              !.resumed = 0]
        IN  /\ x.stage = "digest"
            /\ IF x.split < Len(Splits)
               THEN Becomes(w, [next EXCEPT !.split = @ + 1, !.chunk = 1, !.stage = "load"])
               ELSE Becomes(w, [next EXCEPT !.stage = "report"])
      BY <2>1
    <2>4. PICK artifact : artifact =
                  [array |-> Assembled(x, Splits[x.split]), file |-> Bits(m),
                   hits |-> x.hits, misses |-> x.misses, resumed |-> x.resumed]
      OBVIOUS
    <2>5. PICK next : next = [x EXCEPT !.done = Append(@, artifact), !.hits = 0, !.misses = 0,
                              !.resumed = 0]
      OBVIOUS
    <2>6. PICK y : y = IF x.split < Len(Splits)
                      THEN [next EXCEPT !.split = @ + 1, !.chunk = 1, !.stage = "load"]
                      ELSE [next EXCEPT !.stage = "report"]
      OBVIOUS
    <2>7. x.stage = "digest" /\ Becomes(w, y)
      BY <2>3, <2>4, <2>5, <2>6
    <2>8. artifact.array = Assembled(x, Splits[x.split])
      BY <2>4
    <2>9. /\ next.mode = x.mode /\ next.id = x.id /\ next.db = x.db /\ next.setup = x.setup
          /\ next.split = x.split /\ next.chunk = x.chunk /\ next.held = x.held
          /\ next.dir = x.dir /\ next.grade = x.grade /\ next = [f \in Fields |-> next[f]]
          /\ next.done = Append(x.done, artifact)
      BY <2>2, <2>5 DEF RunInv, IsRun, Fields
    <2>10. RunInv(y) /\ y.id = x.id /\ y.db = x.db
      <3>1. CASE x.split < Len(Splits)
        <4>1. y = [next EXCEPT !.split = @ + 1, !.chunk = 1, !.stage = "load"]
          BY <2>6, <3>1
        <4>2. next = [f \in Fields |-> next[f]]
          BY <2>9
        <4>3. /\ y.mode = next.mode /\ y.id = next.id /\ y.db = next.db /\ y.setup = next.setup
              /\ y.held = next.held /\ y.dir = next.dir /\ y.grade = next.grade
              /\ y.done = next.done /\ y = [f \in Fields |-> y[f]]
              /\ y.split = next.split + 1 /\ y.chunk = 1 /\ y.stage = "load"
          BY <4>1, <4>2 DEF Fields
        <4>4. /\ y.split = (IF x.split < Len(Splits) THEN x.split + 1 ELSE x.split)
              /\ y.chunk = (IF x.split < Len(Splits) THEN 1 ELSE x.chunk)
              /\ y.stage = (IF x.split < Len(Splits) THEN "load" ELSE "report")
          BY <2>9, <3>1, <4>3
        <4>5. /\ y.mode = x.mode /\ y.id = x.id /\ y.db = x.db /\ y.setup = x.setup
              /\ y.held = x.held /\ y.dir = x.dir /\ y.grade = x.grade
              /\ y.done = Append(x.done, artifact) /\ y = [f \in Fields |-> y[f]]
          BY <2>9, <4>3
        <4> QED
          BY <2>2, <2>7, <2>8, <4>4, <4>5, DigestRun
      <3>2. CASE ~ (x.split < Len(Splits))
        <4>1. y = [next EXCEPT !.stage = "report"]
          BY <2>6, <3>2
        <4>2. next = [f \in Fields |-> next[f]]
          BY <2>9
        <4>3. /\ y.mode = next.mode /\ y.id = next.id /\ y.db = next.db /\ y.setup = next.setup
              /\ y.held = next.held /\ y.dir = next.dir /\ y.grade = next.grade
              /\ y.done = next.done /\ y = [f \in Fields |-> y[f]]
              /\ y.split = next.split /\ y.chunk = next.chunk /\ y.stage = "report"
          BY <4>1, <4>2 DEF Fields
        <4>4. /\ y.split = (IF x.split < Len(Splits) THEN x.split + 1 ELSE x.split)
              /\ y.chunk = (IF x.split < Len(Splits) THEN 1 ELSE x.chunk)
              /\ y.stage = (IF x.split < Len(Splits) THEN "load" ELSE "report")
          BY <2>9, <3>2, <4>3
        <4>5. /\ y.mode = x.mode /\ y.id = x.id /\ y.db = x.db /\ y.setup = x.setup
              /\ y.held = x.held /\ y.dir = x.dir /\ y.grade = x.grade
              /\ y.done = Append(x.done, artifact) /\ y = [f \in Fields |-> y[f]]
          BY <2>9, <4>3
        <4> QED
          BY <2>2, <2>7, <2>8, <4>4, <4>5, DigestRun
      <3> QED
        BY <3>1, <3>2
    <2>11. Domains' /\ (~ torn => FilesInv')
      BY <2>2, <2>7 DEF Becomes, ExtractionInv, Domains, FilesInv
    <2> QED
      BY <2>2, <2>7, <2>10, <2>11, Goes
  <1> QED
    BY <1>1, <1>2

\* The chunks of the selection.
LEMMA ChunkIs ==
    ASSUME NEW c \in Chunk
    PROVE  /\ c = <<c[1], c[2], c[3]>>
           /\ c[1] \in Setup /\ c[2] \in DOMAIN Splits /\ c[3] \in 1..ChunkCount(c[1], c[2])
  <1>1. PICK u \in Setup, s \in DOMAIN Splits : c \in {<<u, s, k>> : k \in 1..ChunkCount(u, s)}
    BY DEF Chunk
  <1> QED
    BY <1>1

\* Where a run may stop to put, its batch is stored or none of it is.
LEMMA PutStops ==
    ASSUME NEW x, RunInv(x), ~ torn, x.stage = "put", x.mode # "off",
           x.put \in {<<>>, MissingOf(x)}
    PROVE  Stored(x.db, x.setup, BatchOf(x)) \/ NotStored(x.db, x.setup, BatchOf(x))
  <1>1. IsRun(x) /\ HeldInv(x) /\ PutInv(x)
    BY DEF RunInv, Sound
  <1>2. PICK b : b = BatchOf(x)
    OBVIOUS
  <1>3. b \in Seq(Row) /\ ToSet(b) \subseteq Row /\ b = ChunkRows(x.setup, x.split, x.chunk)
    BY <1>1, <1>2, BatchFacts
  <1>4. PICK n \in 0..Len(b) :
           /\ x.put = SubSeq(b, n + 1, Len(b))
           /\ Stored(x.db, x.setup, SubSeq(b, 1, n))
           /\ \/ Stored(x.db, x.setup, x.put)
              \/ /\ NotStored(x.db, x.setup, x.put)
                 /\ \A r \in ToSet(b) : \A v \in x.held[r] : v.by = x.id
    BY <1>1, <1>2 DEF PutInv
  <1>5. CASE Stored(x.db, x.setup, x.put)
    <2>1. ToSet(b) \subseteq ToSet(SubSeq(b, 1, n)) \cup ToSet(SubSeq(b, n + 1, Len(b)))
      BY <1>3, WholeRows
    <2> QED
      BY <1>2, <1>4, <1>5, <2>1 DEF Stored
  <1>6. CASE ~ Stored(x.db, x.setup, x.put)
    <2>1. x.put = MissingOf(x)
      <3>1. ToSet(<<>>) = {}
        BY DEF ToSet
      <3> QED
        BY <1>6, <3>1 DEF Stored
    <2>2. \A r \in ToSet(b) : r \in {q \in Row : \E v \in x.held[q] : v.by = x.id}
      <3>1. Reached(x) = x.chunk /\ x.chunk \in 1..x.chunk
        BY <1>1 DEF Reached, IsRun
      <3>2. \A r \in ToSet(b) : Has(x, r)
        BY <1>1, <1>3, <3>1 DEF HeldInv
      <3> QED
        BY <1>3, <1>4, <1>6, <3>2 DEF Has
    <2>3. x.put = b
      BY <1>2, <1>3, <2>1, <2>2, SelectedAll DEF MissingOf
    <2> QED
      BY <1>2, <1>4, <1>6, <2>3
  <1> QED
    BY <1>5, <1>6

\* The batch of a run has been put.
LEMMA PutEnds ==
    ASSUME ExtractionInv, NEW w \in Worker, NEW x \in run[w], x.stage = "put", x.put = <<>>,
           Becomes(w, [x EXCEPT !.stage = "matrix"]),
           UNCHANGED <<diskVars, review, checkpoint, torn, runs>>
    PROVE  ExtractionInv'
  <1>1. RunInv(x) /\ IsRun(x)
    BY DEF ExtractionInv, RunInv
  <1>2. PICK y : y = [x EXCEPT !.stage = "matrix"]
    OBVIOUS
  <1>3. RunInv(y) /\ y.id = x.id /\ y.db = x.db
    BY <1>1, <1>2, StageRun
  <1>4. RunInv(y)' /\ stored' = stored
    BY <1>3, Rests DEF ExtractionInv, Domains, diskVars
  <1>5. Domains' /\ (~ torn => FilesInv')
    <2>1. DOMAIN run' = Worker
      BY DEF Becomes, ExtractionInv, Domains
    <2> QED
      BY <2>1 DEF ExtractionInv, Domains, FilesInv, diskVars
  <1>6. ASSUME ~ torn, NEW d \in Db, NEW c \in Chunk
        PROVE  LET batch == ChunkRows(c[1], c[2], c[3])
               IN  Stored(d, c[1], batch) \/ NotStored(d, c[1], batch) \/ Putting(d, c)'
    <2>1. run[w] = {x} /\ \A v \in Worker \ {w} : run'[v] = run[v]
      BY DEF ExtractionInv, IdInv, Domains, Becomes
    <2>2. CASE d = x.db /\ c = Here(x)
      <3>1. x.mode # "off"
        BY <1>1, <2>2, ExtractionAssumption DEF IsRun, Database
      <3>2. Stored(x.db, x.setup, BatchOf(x)) \/ NotStored(x.db, x.setup, BatchOf(x))
        BY <1>1, <1>6, <3>1, PutStops
      <3>5. c[1] = x.setup /\ ChunkRows(c[1], c[2], c[3]) = BatchOf(x)
        BY <2>2 DEF Here, BatchOf
      <3> QED
        BY <2>2, <3>2, <3>5
    <2>3. CASE ~ (d = x.db /\ c = Here(x))
      <3>1. Putting(d, c) => Putting(d, c)'
        BY <2>1, <2>3 DEF Putting
      <3> QED
        BY <1>6, <3>1 DEF ExtractionInv, StoredInv
    <2> QED
      BY <2>2, <2>3
  <1>7. ~ torn => StoredInv'
    BY <1>4, <1>6 DEF ExtractionInv, StoredInv, Stored, NotStored
  <1> QED
    BY <1>2, <1>3, <1>4, <1>5, <1>7, GoesOn DEF diskVars

\* The next row of the batch is put.
LEMMA PutNext ==
    ASSUME ExtractionInv, NEW w \in Worker, NEW x \in run[w], x.stage = "put", x.put # <<>>,
           stored' = [stored EXCEPT ![x.db][x.setup][Head(x.put)] = x.held[Head(x.put)]],
           Becomes(w, [x EXCEPT !.put = Tail(@)]),
           UNCHANGED <<matrix, sidecar, final, report, review, checkpoint, torn, runs>>
    PROVE  ExtractionInv'
  <1>1. RunInv(x) /\ IsRun(x)
    BY DEF ExtractionInv, RunInv
  <1>2. PICK y : y = [x EXCEPT !.put = Tail(@)]
    OBVIOUS
  <1>3. /\ y.mode = x.mode /\ y.id = x.id /\ y.db = x.db /\ y.setup = x.setup /\ y.split = x.split
        /\ y.chunk = x.chunk /\ y.done = x.done /\ y.stage = x.stage /\ y.held = x.held
        /\ y.dir = x.dir /\ y.grade = x.grade /\ y = [f \in Fields |-> y[f]]
        /\ y.put = Tail(x.put)
    BY <1>1, <1>2 DEF IsRun, Fields
  <1>4. Domains' /\ (~ torn => FilesInv')
    <2>1. DOMAIN run' = Worker
      BY DEF Becomes, ExtractionInv, Domains
    <2>2. /\ DOMAIN stored' = Db /\ \A d \in Db : DOMAIN stored'[d] = Setup
          /\ \A d \in Db, u \in Setup : DOMAIN stored'[d][u] = Row
      BY DEF ExtractionInv, Domains
    <2> QED
      BY <2>1, <2>2 DEF ExtractionInv, Domains, FilesInv
  <1>5. IsRun(y)'
    <2>1. IsRun(y)
      BY <1>1, <1>3 DEF IsRun
    <2> QED
      BY <2>1 DEF IsRun
  <1>6. ASSUME Sound(y.mode)'
        PROVE  HeldInv(y)' /\ MatricesInv(y.mode, y.setup, y.id, y.done, Done(y))'
    <2>1. HeldInv(x) /\ MatricesInv(x.mode, x.setup, x.id, x.done, Done(x))
      BY <1>1, <1>3, <1>6 DEF RunInv, Sound
    <2>2. Reached(y) = Reached(x) /\ Done(y) = Done(x)
      BY <1>3 DEF Reached, Done
    <2>3. HeldInv(y)'
      BY <1>3, <2>1, <2>2 DEF HeldInv, Has
    <2> QED
      BY <1>3, <2>1, <2>2, <2>3
  <1>7. PICK r : r = Head(x.put)
    OBVIOUS
  <1>8. PICK b : b = BatchOf(x)
    OBVIOUS
  <1>9. b \in Seq(Row) /\ (\A i, j \in DOMAIN b : b[i] = b[j] => i = j) /\ BatchOf(y) = b
        /\ b = ChunkRows(x.setup, x.split, x.chunk)
    <2>1. b = ChunkRows(x.setup, x.split, x.chunk)
      BY <1>1, <1>8, BatchFacts
    <2> QED
      BY <1>1, <1>3, <1>8, <2>1, ChunkFacts DEF IsRun, BatchOf
  <1>10. ASSUME ~ torn
         PROVE  /\ PutInv(y)' /\ x.db \in Db /\ r \in ToSet(b) /\ r \in Row
                /\ \A v \in x.held[r] : v \in FrozenVector(x.setup, r)
    <2>1. x.mode # "off" /\ PutInv(x)
      BY <1>1, <1>10 DEF RunInv, PutInv
    <2>2. x.db \in Db /\ x.setup \in Setup
      BY <1>1, <2>1 DEF IsRun, Database
    <2>3. PICK n \in 0..Len(b) :
             /\ x.put = SubSeq(b, n + 1, Len(b))
             /\ Stored(x.db, x.setup, SubSeq(b, 1, n))
             /\ \/ Stored(x.db, x.setup, x.put)
                \/ /\ NotStored(x.db, x.setup, x.put)
                   /\ \A q \in ToSet(b) : \A v \in x.held[q] : v.by = x.id
      BY <1>8, <2>1 DEF PutInv
    <2>4. /\ n + 1 \in 0..Len(b) /\ r \in ToSet(b)
          /\ y.put = SubSeq(b, (n + 1) + 1, Len(b))
          /\ \A q \in ToSet(SubSeq(b, 1, n + 1)) : q \in ToSet(SubSeq(b, 1, n)) \/ q = r
          /\ \A q \in ToSet(y.put) : q \in ToSet(x.put) /\ q \in ToSet(b) /\ q # r
          /\ ToSet(SubSeq(b, 1, n)) \subseteq ToSet(b)
      <3>1. SubSeq(b, n + 1, Len(b)) # <<>> /\ b \in Seq(Row) /\ n \in 0..Len(b)
        BY <1>9, <2>3
      <3>2. \A i, j \in DOMAIN b : b[i] = b[j] => i = j
        BY <1>9
      <3>3. LET rest == SubSeq(b, n + 1, Len(b))
            IN  /\ n + 1 \in 0..Len(b) /\ Head(rest) \in ToSet(b)
                /\ Tail(rest) = SubSeq(b, (n + 1) + 1, Len(b))
                /\ \A q \in ToSet(SubSeq(b, 1, n + 1)) :
                      q \in ToSet(SubSeq(b, 1, n)) \/ q = Head(rest)
                /\ \A q \in ToSet(Tail(rest)) :
                      q \in ToSet(rest) /\ q \in ToSet(b) /\ q # Head(rest)
                /\ ToSet(SubSeq(b, 1, n)) \subseteq ToSet(b)
        BY <3>1, <3>2, NextRow
      <3>4. r = Head(SubSeq(b, n + 1, Len(b))) /\ y.put = Tail(SubSeq(b, n + 1, Len(b)))
        BY <1>3, <1>7, <2>3
      <3> QED
        BY <2>3, <3>3, <3>4
    <2>5. ToSet(b) \subseteq Row
      BY <1>1, <1>8, BatchFacts
    <2>6. \A q \in Row : stored'[x.db][x.setup][q] =
              IF q = r THEN x.held[r] ELSE stored[x.db][x.setup][q]
      BY <1>7, <2>2 DEF ExtractionInv, Domains
    <2>7. Has(x, r)
      <3>1. HeldInv(x) /\ Reached(x) = x.chunk /\ x.chunk \in 1..x.chunk
        BY <1>1, <1>10 DEF RunInv, Sound, Reached, IsRun
      <3> QED
        BY <1>9, <2>4, <3>1 DEF HeldInv
    <2>8. Stored(y.db, y.setup, SubSeq(b, 1, n + 1))'
      <3>1. \A q \in ToSet(SubSeq(b, 1, n + 1)) :
                q \in Row /\ (q \in ToSet(SubSeq(b, 1, n)) \/ q = r)
        BY <2>4, <2>5
      <3>2. \A q \in ToSet(SubSeq(b, 1, n)) : stored[x.db][x.setup][q] # {}
        BY <2>3 DEF Stored
      <3>3. x.held[r] # {}
        BY <2>7 DEF Has
      <3>4. \A q \in ToSet(SubSeq(b, 1, n + 1)) : stored'[x.db][x.setup][q] # {}
        BY <2>6, <3>1, <3>2, <3>3
      <3> QED
        BY <1>3, <3>4 DEF Stored
    <2>9. Stored(y.db, y.setup, y.put)' \/ (/\ NotStored(y.db, y.setup, y.put)'
                                            /\ \A q \in ToSet(b) : \A v \in y.held[q] : v.by = y.id)
      <3>1. \A q \in ToSet(y.put) :
                q \in ToSet(x.put) /\ stored'[x.db][x.setup][q] = stored[x.db][x.setup][q]
        BY <2>4, <2>5, <2>6
      <3>2. CASE Stored(x.db, x.setup, x.put)
        BY <1>3, <3>1, <3>2 DEF Stored
      <3>3. CASE ~ Stored(x.db, x.setup, x.put)
        BY <1>3, <2>3, <3>1, <3>3 DEF NotStored
      <3> QED
        BY <3>2, <3>3
    <2>10. PutInv(y)'
      BY <1>3, <1>9, <2>1, <2>4, <2>8, <2>9 DEF PutInv
    <2> QED
      BY <2>2, <2>4, <2>5, <2>7, <2>10 DEF Has, MayHold
  <1>11. RunInv(y)'
    BY <1>3, <1>5, <1>6, <1>10 DEF RunInv, ChunkInv
  <1>12. ASSUME ~ torn PROVE StoredInv'
    <2>1. x.db \in Db /\ x.setup \in Setup /\ StoredInv
      BY <1>1, <1>10, <1>12 DEF IsRun, ExtractionInv
    <2>2. \A d \in Db, u \in Setup, q \in Row : stored'[d][u][q] =
              IF d = x.db /\ u = x.setup /\ q = r THEN x.held[r] ELSE stored[d][u][q]
      BY <1>7, <2>1 DEF ExtractionInv, Domains
    <2>3. \A d \in Db, u \in Setup, q \in Row : stored'[d][u][q] \subseteq FrozenVector(u, q)
      BY <1>10, <1>12, <2>1, <2>2 DEF StoredInv
    <2>4. ASSUME NEW d \in Db, NEW c \in Chunk
          PROVE  LET batch == ChunkRows(c[1], c[2], c[3])
                 IN  Stored(d, c[1], batch)' \/ NotStored(d, c[1], batch)' \/ Putting(d, c)'
      <3>1. run[w] = {x} /\ run'[w] = {y} /\ \A v \in Worker \ {w} : run'[v] = run[v]
        BY <1>2 DEF ExtractionInv, IdInv, Domains, Becomes
      <3>2. Putting(d, c) => Putting(d, c)'
        BY <1>3, <3>1 DEF Putting, Here
      <3>3. CASE d = x.db /\ c = Here(x)
        BY <1>3, <3>1, <3>3 DEF Putting, Here
      <3>4. CASE ~ (d = x.db /\ c = Here(x))
        <4>1. c = <<c[1], c[2], c[3]>> /\ c[1] \in Setup /\ c[2] \in DOMAIN Splits
              /\ c[3] \in 1..ChunkCount(c[1], c[2])
          BY ChunkIs
        <4>2. \A q \in ToSet(ChunkRows(c[1], c[2], c[3])) : q \in Row
          BY <4>1, FrozenBatchIs
        <4>3. ~ (d = x.db /\ c[1] = x.setup /\ r \in ToSet(ChunkRows(c[1], c[2], c[3])))
          <5>1. SUFFICES ASSUME d = x.db, c[1] = x.setup,
                                r \in ToSet(ChunkRows(x.setup, c[2], c[3]))
                         PROVE  FALSE
            OBVIOUS
          <5>2. x.split \in DOMAIN Splits /\ x.chunk \in 1..ChunkCount(x.setup, x.split)
            BY <1>1 DEF IsRun
          <5>3. r \in ToSet(ChunkRows(x.setup, x.split, x.chunk))
            BY <1>9, <1>10, <1>12
          <5>4. c[2] \in DOMAIN Splits /\ c[3] \in 1..ChunkCount(x.setup, c[2])
            BY <4>1, <5>1
          <5>5. c[2] = x.split /\ c[3] = x.chunk
            BY <2>1, <5>1, <5>2, <5>3, <5>4, ChunkUnique
          <5> QED
            BY <3>4, <4>1, <5>1, <5>5 DEF Here
        <4>4. \A q \in ToSet(ChunkRows(c[1], c[2], c[3])) :
                  stored'[d][c[1]][q] = stored[d][c[1]][q]
          BY <2>2, <4>1, <4>2, <4>3
        <4> QED
          BY <2>1, <3>2, <4>4 DEF StoredInv, Stored, NotStored
      <3> QED
        BY <3>3, <3>4
    <2> QED
      BY <2>3, <2>4 DEF StoredInv
  <1>13. ASSUME ~ torn, NEW v \in Worker \ {w}, NEW z \in run[v]
         PROVE  z.mode = "off" \/ stored'[z.db][z.setup] = stored[z.db][z.setup]
    <2>1. x.db \in Db /\ x.db # "none"
      BY <1>10, <1>13, ExtractionAssumption
    <2>2. z.db # x.db
      BY <1>13, <2>1 DEF ExtractionInv, AloneInv
    <2> QED
      BY <2>2 DEF ExtractionInv, Domains
  <1> QED
    BY <1>2, <1>3, <1>4, <1>11, <1>12, <1>13, GoesOn

LEMMA PutStep ==
    ASSUME ExtractionInv, NEW w \in Worker, PutRow(w)
    PROVE  ExtractionInv'
  BY PutEnds, PutNext DEF PutRow, diskVars

\* A run comes or goes, and nothing is stored.
LEMMA Changes ==
    ASSUME ExtractionInv, NEW w \in Worker, \A v \in Worker \ {w} : run'[v] = run[v],
           UNCHANGED <<stored, review, checkpoint>>, Domains', runs <= runs', torn => torn',
           IdInv', \A z \in run'[w] : RunInv(z)', \A r \in Known' : ReportInv(r)',
           ~ torn' => AloneInv' /\ FilesInv',
           ~ torn' => \A d \in Db, c \in Chunk :
              \/ Putting(d, c) => Putting(d, c)'
              \/ LET batch == ChunkRows(c[1], c[2], c[3])
                 IN  Stored(d, c[1], batch) \/ NotStored(d, c[1], batch)
    PROVE  ExtractionInv'
  <1>1. \A v \in Worker : \A z \in run'[v] : RunInv(z)'
    <2> TAKE v \in Worker
    <2> TAKE z \in run'[v]
    <2>1. CASE v # w
      <3>1. RunInv(z) /\ runs \in Nat /\ runs' \in Nat /\ stored' = stored
        BY <2>1 DEF ExtractionInv, Domains
      <3> QED
        BY <3>1, Rests
    <2> QED
      BY <2>1
  <1>2. ~ torn' => StoredInv'
    BY DEF ExtractionInv, StoredInv, Stored, NotStored
  <1>3. ReviewInv' /\ CheckpointIsReproduced'
    BY DEF ExtractionInv, ReviewInv, CheckpointIsReproduced
  <1> QED
    BY <1>1, <1>2, <1>3 DEF ExtractionInv

\* The report of a run has its matrices.
LEMMA ReportStep ==
    ASSUME ExtractionInv, NEW w \in Worker, WriteReport(w)
    PROVE  ExtractionInv'
  <1>1. PICK x \in run[w] :
        /\ x.stage = "report"
        /\ report' = [report EXCEPT ![x.dir] =
              {[by |-> x.id, setup |-> x.setup, mode |-> x.mode, db |-> x.db,
                artifacts |-> x.done]}]
        /\ run' = [run EXCEPT ![w] = {}]
    BY DEF WriteReport
  <1>2. UNCHANGED <<stored, matrix, sidecar, final, review, checkpoint, torn, runs>>
        /\ RunInv(x) /\ IsRun(x)
    BY DEF WriteReport, ExtractionInv, RunInv
  <1>3. PICK new : new = [by |-> x.id, setup |-> x.setup, mode |-> x.mode, db |-> x.db,
                          artifacts |-> x.done]
    OBVIOUS
  <1>4. new.by = x.id /\ new.setup = x.setup /\ new.mode = x.mode /\ new.db = x.db
        /\ new.artifacts = x.done
    BY <1>3
  <1>5. report' = [report EXCEPT ![x.dir] = {new}]
    BY <1>1, <1>3
  <1>6. run[w] = {x} /\ run'[w] = {} /\ \A v \in Worker \ {w} : run'[v] = run[v]
    BY <1>1 DEF ExtractionInv, IdInv, Domains
  <1>7. Domains' /\ (~ torn => FilesInv')
    BY <1>1, <1>2, <1>5 DEF ExtractionInv, Domains, FilesInv
  <1>8. \A r \in Known' : r \in Known \/ r = new
    <2>1. \A d \in Dir : report'[d] = report[d] \/ report'[d] = {new}
      BY <1>5 DEF ExtractionInv, Domains
    <2> QED
      BY <1>2, <2>1 DEF Known, Written, InReview
  <1>9. ReportInv(new)'
    <2>1. x.setup \in Setup /\ Done(x) = Len(Splits)
      BY <1>1, <1>2 DEF IsRun, Done
    <2>2. Sound(x.mode)' => MatricesInv(x.mode, x.setup, x.id, x.done, Done(x))
      BY <1>2 DEF RunInv, Sound
    <2> QED
      BY <1>4, <2>1, <2>2 DEF ReportInv
  <1>10. \A r \in Known' : ReportInv(r)'
    BY <1>2, <1>8, <1>9, ReportRests DEF ExtractionInv
  <1>11. IdInv'
    <2>1. x.id \in 1..runs
      BY <1>2 DEF IsRun
    <2>2. \A r \in Known : r.by # x.id /\ r.by \in 1..runs
      BY DEF ExtractionInv, IdInv
    <2>3. \A v \in Worker : \A y \in run'[v] : y \in run[v] /\ v # w /\ y.id # x.id
      BY <1>6 DEF ExtractionInv, IdInv
    <2>4. \A v \in Worker : \A y \in run'[v] :
             /\ run'[v] = {y}
             /\ \A u \in Worker : \A z \in run'[u] : z.id = y.id => u = v
             /\ \A r \in Known' : r.by # y.id
      BY <1>4, <1>6, <1>8, <2>3 DEF ExtractionInv, IdInv
    <2>5. \A r \in Known' : r.by \in 1..runs
      BY <1>4, <1>8, <2>1, <2>2
    <2>6. \A r, q \in Known' : r.by = q.by => r.db = q.db
      BY <1>4, <1>8, <2>2 DEF ExtractionInv, IdInv
    <2> QED
      BY <1>2, <2>4, <2>5, <2>6 DEF IdInv
  <1>12. ~ torn => AloneInv'
    BY <1>6 DEF ExtractionInv, AloneInv
  <1>13. \A d \in Db, c \in Chunk : Putting(d, c) => Putting(d, c)'
    BY <1>1, <1>6 DEF Putting
  <1>14. runs <= runs'
    BY <1>2 DEF ExtractionInv, Domains
  <1> QED
    BY <1>2, <1>6, <1>7, <1>10, <1>11, <1>12, <1>13, <1>14, Changes

LEMMA StartStep ==
    ASSUME ExtractionInv, NEW w \in Worker, NEW dir \in Dir, NEW mode \in Mode,
           NEW m \in Machine[w], NEW db \in Database(mode),
           StartExtraction(w, dir, db, mode, m[1], m[2])
    PROVE  ExtractionInv'
  <1>1. PICK x : x = [id |-> runs + 1, dir |-> dir, db |-> db, mode |-> mode, setup |-> m[1],
                   grade |-> m[2], stage |-> "load", split |-> 1, chunk |-> 1,
                   digests |-> {}, loaded |-> {}, held |-> [r \in Row |-> {}], put |-> <<>>,
                   hits |-> 0, misses |-> 0, resumed |-> 0, done |-> <<>>]
    OBVIOUS
  <1>2. /\ run[w] = {} /\ runs' = runs + 1 /\ run' = [run EXCEPT ![w] = {x}]
        /\ torn' = (torn \/ \E v \in Worker \ {w} : \E z \in run[v] : z.db = db /\ db # "none")
        /\ UNCHANGED <<diskVars, review, checkpoint>>
    BY <1>1 DEF StartExtraction, Becomes
  <1>3. /\ x.id = runs + 1 /\ x.dir = dir /\ x.db = db /\ x.mode = mode /\ x.setup = m[1]
        /\ x.grade = m[2] /\ x.stage = "load" /\ x.split = 1 /\ x.chunk = 1
        /\ x.held = [r \in Row |-> {}] /\ x.done = <<>>
        /\ x = [f \in Fields |-> x[f]]
    BY <1>1 DEF Fields
  <1>4. run'[w] = {x} /\ \A v \in Worker \ {w} : run'[v] = run[v]
    BY <1>2 DEF ExtractionInv, Domains
  <1>5. runs \in Nat /\ runs' \in Nat /\ runs <= runs' /\ runs + 1 \in 1..runs'
        /\ \A i \in 1..runs : i \in 1..runs' /\ i # runs + 1
    BY <1>2 DEF ExtractionInv, Domains
  <1>6. Domains' /\ (~ torn => FilesInv')
    <2>1. torn' \in BOOLEAN
      BY <1>2
    <2> QED
      BY <1>2, <1>5, <2>1 DEF ExtractionInv, Domains, FilesInv, diskVars
  <1>7. RunInv(x)'
    <2>1. m[1] \in Setup /\ m[2] \in Grade
      BY ExtractionAssumption
    <2>2. 1 \in DOMAIN Splits
      BY SplitFacts
    <2>3. 1 \in 1..ChunkCount(m[1], 1)
      BY <2>1, <2>2, CountFacts
    <2>4. IsRun(x)'
      BY <1>3, <1>5, <2>1, <2>2, <2>3 DEF IsRun
    <2>5. HeldInv(x)'
      <3>1. Reached(x) = 0
        BY <1>3 DEF Reached
      <3> QED
        BY <1>3, <3>1 DEF HeldInv
    <2>6. MatricesInv(x.mode, x.setup, x.id, x.done, Done(x))'
      <3>1. Done(x) = 0
        BY <1>3 DEF Done
      <3> QED
        BY <1>3, <3>1, EmptySequence DEF MatricesInv
    <2> QED
      BY <1>3, <2>4, <2>5, <2>6 DEF RunInv, ChunkInv
  <1>8. Known' = Known
    BY <1>2, KnownRests DEF diskVars
  <1>9. \A r \in Known' : ReportInv(r)'
    BY <1>2, <1>8, ReportRests DEF ExtractionInv
  <1>10. IdInv'
    <2>1. \A v \in Worker : \A z \in run[v] : z.id \in 1..runs
      BY DEF ExtractionInv, RunInv, IsRun
    <2>2. \A r \in Known : r.by \in 1..runs
      BY DEF ExtractionInv, IdInv
    <2>3. \A v \in Worker : \A z \in run'[v] : (v = w /\ z = x) \/ (v # w /\ z \in run[v])
      BY <1>4
    <2>4. \A v \in Worker : \A z \in run'[v] :
             /\ run'[v] = {z}
             /\ \A u \in Worker : \A y \in run'[u] : y.id = z.id => u = v
             /\ \A r \in Known : r.by # z.id
      <3> TAKE v \in Worker
      <3> TAKE z \in run'[v]
      <3>1. CASE v = w
        BY <1>3, <1>4, <1>5, <2>1, <2>2, <2>3, <3>1
      <3>2. CASE v # w
        BY <1>3, <1>4, <1>5, <2>1, <2>3, <3>2 DEF ExtractionInv, IdInv
      <3> QED
        BY <3>1, <3>2
    <2> QED
      BY <1>5, <1>8, <2>2, <2>4 DEF ExtractionInv, IdInv
  <1>11. ~ torn' => AloneInv'
    <2>1. ASSUME ~ torn', NEW v \in Worker, NEW u \in Worker, NEW z \in run'[v],
                 NEW y \in run'[u], z.db = y.db
          PROVE  z.db = "none" \/ v = u
      <3>1. ~ torn /\ AloneInv /\ \A t \in Worker \ {w} : \A q \in run[t] : q.db = db => db = "none"
        BY <1>2, <2>1 DEF ExtractionInv
      <3>2. CASE v = w \/ u = w
        BY <1>3, <1>4, <2>1, <3>1, <3>2
      <3>3. CASE v # w /\ u # w
        BY <1>4, <2>1, <3>1, <3>3 DEF AloneInv
      <3> QED
        BY <3>2, <3>3
    <2> QED
      BY <2>1 DEF AloneInv
  <1>12. \A d \in Db, c \in Chunk : Putting(d, c) => Putting(d, c)'
    BY <1>2, <1>4 DEF Putting
  <1> QED
    BY <1>2, <1>4, <1>5, <1>6, <1>7, <1>9, <1>10, <1>11, <1>12, Changes DEF diskVars

LEMMA FailStep ==
    ASSUME ExtractionInv, NEW w \in Worker, ExtractionFails(w)
    PROVE  ExtractionInv'
  <1>1. PICK x \in run[w] :
        /\ run' = [run EXCEPT ![w] = {}]
        /\ torn' = (torn \/ (x.stage = "put" /\ x.put \notin {<<>>, MissingOf(x)}))
        /\ UNCHANGED <<diskVars, review, checkpoint, runs>>
    BY DEF ExtractionFails
  <1>2. RunInv(x) /\ IsRun(x)
    BY DEF ExtractionInv, RunInv
  <1>3. run[w] = {x} /\ run'[w] = {} /\ \A v \in Worker \ {w} : run'[v] = run[v]
    BY <1>1 DEF ExtractionInv, IdInv, Domains
  <1>4. Domains' /\ (~ torn => FilesInv') /\ runs <= runs'
    <2>1. torn' \in BOOLEAN
      BY <1>1
    <2>2. DOMAIN run' = Worker
      BY <1>1 DEF ExtractionInv, Domains
    <2> QED
      BY <1>1, <2>1, <2>2 DEF ExtractionInv, Domains, FilesInv, diskVars
  <1>5. Known' = Known
    BY <1>1, KnownRests DEF diskVars
  <1>6. \A r \in Known' : ReportInv(r)'
    BY <1>1, <1>5, ReportRests DEF ExtractionInv
  <1>7. IdInv'
    <2>1. \A v \in Worker : \A z \in run'[v] : z \in run[v] /\ run'[v] = run[v]
      BY <1>3
    <2>2. runs' = runs
      BY <1>1
    <2> QED
      BY <1>5, <2>1, <2>2 DEF ExtractionInv, IdInv
  <1>8. ASSUME ~ torn' PROVE AloneInv'
    <2>1. ~ torn
      BY <1>1, <1>8
    <2>2. \A v \in Worker : \A z \in run'[v] : z \in run[v]
      BY <1>3
    <2> QED
      BY <2>1, <2>2 DEF ExtractionInv, AloneInv
  <1>9. ASSUME ~ torn', NEW d \in Db, NEW c \in Chunk
        PROVE  \/ Putting(d, c) => Putting(d, c)'
               \/ LET batch == ChunkRows(c[1], c[2], c[3])
                  IN  Stored(d, c[1], batch) \/ NotStored(d, c[1], batch)
    <2>1. CASE d = x.db /\ c = Here(x) /\ x.stage = "put"
      <3>1. x.mode # "off"
        BY <1>2, <2>1, ExtractionAssumption DEF IsRun, Database
      <3>2. ~ torn /\ x.put \in {<<>>, MissingOf(x)}
        BY <1>1, <1>9, <2>1
      <3>3. Stored(x.db, x.setup, BatchOf(x)) \/ NotStored(x.db, x.setup, BatchOf(x))
        BY <1>2, <2>1, <3>1, <3>2, PutStops
      <3>4. c[1] = x.setup /\ ChunkRows(c[1], c[2], c[3]) = BatchOf(x)
        BY <2>1 DEF Here, BatchOf
      <3> QED
        BY <2>1, <3>3, <3>4
    <2>2. CASE ~ (d = x.db /\ c = Here(x) /\ x.stage = "put")
      BY <1>3, <2>2 DEF Putting
    <2> QED
      BY <2>1, <2>2
  <1> QED
    BY <1>1, <1>3, <1>4, <1>6, <1>7, <1>8, <1>9, Changes DEF diskVars

\* No run moves and none ends.
LEMMA Idle ==
    ASSUME ExtractionInv, UNCHANGED <<run, report, runs>>, torn => torn', Domains',
           ~ torn' => stored' = stored /\ FilesInv', \A r \in Known' : r \in Known,
           ReviewInv', CheckpointIsReproduced'
    PROVE  ExtractionInv'
  <1>1. runs \in Nat /\ runs <= runs'
    BY DEF ExtractionInv, Domains
  <1>2. \A w \in Worker : \A x \in run'[w] : RunInv(x)'
    <2> TAKE w \in Worker
    <2> TAKE x \in run'[w]
    <2>1. RunInv(x)
      BY DEF ExtractionInv
    <2> QED
      BY <1>1, <2>1, Rests DEF Domains
  <1>3. \A r \in Known' : ReportInv(r)'
    BY ReportRests DEF ExtractionInv
  <1>4. IdInv'
    BY DEF ExtractionInv, IdInv
  <1>5. ASSUME ~ torn' PROVE AloneInv' /\ StoredInv'
    <2>1. ~ torn /\ stored' = stored
      BY <1>5
    <2>2. AloneInv'
      BY <2>1 DEF ExtractionInv, AloneInv
    <2>3. StoredInv'
      <3>1. \A d \in Db, c \in Chunk : Putting(d, c)' = Putting(d, c)
        BY DEF Putting
      <3> QED
        BY <2>1, <3>1 DEF ExtractionInv, StoredInv, Stored, NotStored
    <2> QED
      BY <2>2, <2>3
  <1> QED
    BY <1>2, <1>3, <1>4, <1>5 DEF ExtractionInv

LEMMA DamageStep ==
    ASSUME ExtractionInv,
           \/ \E d \in Db, u \in Setup, r \in Row : DamageRow(d, u, r)
           \/ \E d \in Dir, c \in Chunk : DamageFile(d, c)
    PROVE  ExtractionInv'
  <1>1. CASE \E d \in Db, u \in Setup, r \in Row : DamageRow(d, u, r)
    <2>1. PICK d \in Db, u \in Setup, r \in Row : DamageRow(d, u, r)
      BY <1>1
    <2>2. Domains' /\ torn' /\ UNCHANGED <<run, report, runs, review, checkpoint>>
      BY <2>1 DEF DamageRow, ExtractionInv, Domains
    <2>3. Known' = Known /\ ReviewInv' /\ CheckpointIsReproduced'
      BY <2>2, KnownRests DEF ExtractionInv, ReviewInv, CheckpointIsReproduced
    <2> QED
      BY <2>2, <2>3, Idle
  <1>2. CASE \E d \in Dir, c \in Chunk : DamageFile(d, c)
    <2>1. PICK d \in Dir, c \in Chunk : DamageFile(d, c)
      BY <1>2
    <2>2. PICK m \in matrix[d][c] :
              matrix' = [matrix EXCEPT ![d][c] = {[i \in DOMAIN m |-> Damaged(m[i])]}]
      BY <2>1 DEF DamageFile
    <2>3. UNCHANGED <<stored, sidecar, run, report, runs, review, checkpoint, torn>>
      BY <2>1 DEF DamageFile
    <2>4. Domains'
      BY <2>2, <2>3 DEF ExtractionInv, Domains
    <2>5. Known' = Known /\ ReviewInv' /\ CheckpointIsReproduced'
      BY <2>3, KnownRests DEF ExtractionInv, ReviewInv, CheckpointIsReproduced
    <2>6. ASSUME ~ torn PROVE FilesInv'
      <3>1. PICK a : a = [i \in DOMAIN m |-> Damaged(m[i])]
        OBVIOUS
      <3>2. m \in Seq(AnyVector)
        BY <2>6 DEF ExtractionInv, FilesInv
      <3>3. \A i \in DOMAIN m : Damaged(m[i]) \in AnyVector
        <4>1. <<>> \in Seq(Row)
          OBVIOUS
        <4>2. \A v \in AnyVector : Damaged(v) \in AnyVector
          BY <4>1 DEF Damaged, AnyVector
        <4>3. \A i \in DOMAIN m : m[i] \in AnyVector
          BY <3>2
        <4> QED
          BY <4>2, <4>3
      <3>4. a \in Seq(AnyVector)
        <4>1. DOMAIN m = 1..Len(m) /\ Len(m) \in Nat
          BY <3>2
        <4>2. a = [i \in 1..Len(m) |-> a[i]] /\ \A i \in 1..Len(m) : a[i] \in AnyVector
          BY <3>1, <3>3, <4>1
        <4> QED
          BY <4>1, <4>2
      <3>5. \A e \in Dir, k \in Chunk : matrix'[e][k] = matrix[e][k] \/ matrix'[e][k] = {a}
        BY <2>2, <3>1 DEF ExtractionInv, Domains
      <3> QED
        BY <2>3, <2>6, <3>4, <3>5 DEF ExtractionInv, FilesInv
    <2> QED
      BY <2>3, <2>4, <2>5, <2>6, Idle
  <1> QED
    BY <1>1, <1>2

-----------------------------------------------------------------------------
(* The verification of two runs.                                           *)

\* The vectors of a report that relies on nothing are its own.
LEMMA ReportVectors ==
    ASSUME NEW r, ReportInv(r), Sound(r.mode)
    PROVE  \A s \in DOMAIN Splits :
              /\ DOMAIN r.artifacts[s].array = DOMAIN Splits[s]
              /\ \A i \in DOMAIN Splits[s] :
                    LET v == r.artifacts[s].array[i]
                    IN  /\ v.setup = r.setup /\ v.row = Splits[s][i]
                        /\ v.batch = FrozenBatch[r.setup][v.row]
                        /\ r.mode # "read-write" => v.by = r.by
  <1>1. MatricesInv(r.mode, r.setup, r.by, r.artifacts, Len(Splits))
    BY DEF ReportInv
  <1>2. DOMAIN Splits = 1..Len(Splits)
    BY SplitFacts
  <1> TAKE s \in DOMAIN Splits
  <1>3. DOMAIN r.artifacts[s].array = DOMAIN Splits[s]
    BY <1>1, <1>2 DEF MatricesInv
  <1>4. ASSUME NEW i \in DOMAIN Splits[s]
        PROVE  LET v == r.artifacts[s].array[i]
               IN  /\ v.setup = r.setup /\ v.row = Splits[s][i]
                   /\ v.batch = FrozenBatch[r.setup][v.row]
                   /\ r.mode # "read-write" => v.by = r.by
    <2>1. PICK v : v = r.artifacts[s].array[i]
      OBVIOUS
    <2>2. v \in MayHold(r.mode, r.setup, r.by, Splits[s][i])
      BY <1>1, <1>2, <2>1 DEF MatricesInv
    <2> QED
      BY <2>1, <2>2 DEF MayHold, FrozenVector
  <1> QED
    BY <1>3, <1>4

LEMMA FreshVectors ==
    ASSUME NEW r, ReportInv(r), r.mode # "read-write"
    PROVE  \A s \in DOMAIN Splits : \A v \in ToSet(r.artifacts[s].array) :
              v.by = r.by /\ v.batch = FrozenBatch[r.setup][v.row]
  <1>1. Sound(r.mode)
    BY DEF Sound
  <1> TAKE s \in DOMAIN Splits
  <1> TAKE v \in ToSet(r.artifacts[s].array)
  <1>2. PICK i \in DOMAIN r.artifacts[s].array : v = r.artifacts[s].array[i]
    BY DEF ToSet
  <1> QED
    BY <1>1, <1>2, ReportVectors

LEMMA ReviewKnown ==
    ASSUME NEW v \in review
    PROVE  \A i \in DOMAIN v.reports : v.reports[i] \in Known
  <1>1. \A i \in DOMAIN v.reports : v.reports[i] \in ToSet(v.reports)
    BY DEF ToSet
  <1>2. ToSet(v.reports) \subseteq InReview
    BY DEF InReview
  <1> QED
    BY <1>1, <1>2 DEF Known

LEMMA VerifySteps ==
    ASSUME ExtractionInv, (\E a, b \in Dir : StartReview(a, b)) \/ ReadReport
           \/ LoadFinal \/ VerifyFinal \/ HashReport
    PROVE  ExtractionInv'
  <1>1. UNCHANGED <<diskVars, run, checkpoint, torn, runs>>
    BY DEF StartReview, ReadReport, LoadFinal, VerifyFinal, HashReport
  <1>2. Domains' /\ CheckpointIsReproduced' /\ (~ torn => FilesInv')
    BY <1>1 DEF ExtractionInv, Domains, CheckpointIsReproduced, FilesInv, diskVars
  <1>3. ReviewInv' /\ \A r \in Known' : r \in Known
    <2>1. CASE \E a, b \in Dir : StartReview(a, b)
      <3>1. PICK a \in Dir, b \in Dir : StartReview(a, b)
        BY <2>1
      <3>2. PICK v : v = [dirs |-> <<a, b>>, reports |-> <<>>, checked |-> 0, loaded |-> {},
                        named |-> <<>>]
        OBVIOUS
      <3>3. review' = {v} /\ v.dirs = <<a, b>> /\ v.reports = <<>>
            /\ v = [dirs |-> v.dirs, reports |-> v.reports, checked |-> v.checked,
                    loaded |-> v.loaded, named |-> v.named]
        BY <3>1, <3>2 DEF StartReview
      <3>4. ToSet(<<>>) = {}
        BY DEF ToSet
      <3> QED
        BY <1>1, <3>3, <3>4, EmptySequence DEF ReviewInv, Known, Written, InReview, diskVars
    <2>2. CASE ReadReport
      <3>1. PICK v \in review :
              /\ Len(v.reports) < 2
              /\ review' = {[v EXCEPT !.reports = Append(@, r), !.checked = 0] :
                              r \in {q \in report[v.dirs[Len(v.reports) + 1]] : VerifiedReport(q)}}
        BY <2>2 DEF ReadReport
      <3>2. /\ v = [dirs |-> v.dirs, reports |-> v.reports, checked |-> v.checked,
                    loaded |-> v.loaded, named |-> v.named]
            /\ v.dirs \in Dir \X Dir /\ IsSequence(v.reports)
            /\ \A i \in DOMAIN v.reports : v.reports[i].mode = "refresh"
        BY DEF ExtractionInv, ReviewInv
      <3>3. PICK d : d = v.dirs[Len(v.reports) + 1]
        OBVIOUS
      <3>4. d \in Dir
        <4>1. Len(v.reports) \in Nat
          BY <3>2, AppendSequence
        <4>2. Len(v.reports) + 1 = 1 \/ Len(v.reports) + 1 = 2
          <5>1. Len(v.reports) < 2
            BY <3>1
          <5>2. \A n \in Nat : n < 2 => n + 1 = 1 \/ n + 1 = 2
            OBVIOUS
          <5> QED
            BY <4>1, <5>1, <5>2
        <4>3. v.dirs[1] \in Dir /\ v.dirs[2] \in Dir
          BY <3>2
        <4> QED
          BY <3>3, <4>2, <4>3
      <3>5. ASSUME NEW z \in review'
            PROVE  /\ z = [dirs |-> z.dirs, reports |-> z.reports, checked |-> z.checked,
                           loaded |-> z.loaded, named |-> z.named]
                   /\ z.dirs \in Dir \X Dir /\ IsSequence(z.reports)
                   /\ \A i \in DOMAIN z.reports :
                         z.reports[i].mode = "refresh" /\ z.reports[i] \in Known
        <4>1. PICK r \in report[d] :
                  VerifiedReport(r) /\ z = [v EXCEPT !.reports = Append(@, r), !.checked = 0]
          BY <3>1, <3>3
        <4>2. z.dirs = v.dirs /\ z.reports = Append(v.reports, r)
              /\ z = [dirs |-> z.dirs, reports |-> z.reports, checked |-> z.checked,
                           loaded |-> z.loaded, named |-> z.named]
          BY <3>2, <4>1
        <4>3. PICK t : t = v.reports
          OBVIOUS
        <4>4. /\ IsSequence(Append(t, r)) /\ Len(t) \in Nat /\ DOMAIN t = 1..Len(t)
              /\ Len(Append(t, r)) = Len(t) + 1 /\ Append(t, r)[Len(t) + 1] = r
              /\ \A i \in 1..Len(t) : Append(t, r)[i] = t[i]
          BY <3>2, <4>3, AppendSequence
        <4>5. DOMAIN Append(t, r) = 1..(Len(t) + 1)
          BY <4>4 DEF IsSequence
        <4>6. \A i \in 1..(Len(t) + 1) : i \in 1..Len(t) \/ i = Len(t) + 1
          BY <4>4
        <4>7. r.mode = "refresh" /\ r \in Known
          BY <3>4, <4>1 DEF VerifiedReport, Known, Written, InReview
        <4>8. \A i \in 1..Len(t) : t[i].mode = "refresh" /\ t[i] \in Known
          <5>1. \A i \in DOMAIN t : t[i] \in Known
            BY <4>3, ReviewKnown
          <5> QED
            BY <3>2, <4>3, <4>4, <5>1
        <4>9. \A i \in DOMAIN z.reports : z.reports[i].mode = "refresh" /\ z.reports[i] \in Known
          BY <4>2, <4>3, <4>4, <4>5, <4>6, <4>7, <4>8
        <4> QED
          BY <3>2, <4>2, <4>3, <4>4, <4>9
      <3> QED
        <4>1. ReviewInv'
          BY <3>5 DEF ReviewInv
        <4>2. \A q \in Known' : \/ \E e \in Dir : q \in report[e]
                               \/ \E z \in review' : q \in ToSet(z.reports)
          <5>1. \A q \in Written' : \E e \in Dir : q \in report[e]
            BY <1>1 DEF Written, diskVars
          <5>2. \A q \in InReview' : \E z \in review' : q \in ToSet(z.reports)
            BY DEF InReview
          <5> QED
            BY <5>1, <5>2 DEF Known
        <4>3. \A z \in review' : \A q \in ToSet(z.reports) : q \in Known
          BY <3>5 DEF ToSet
        <4>4. \A e \in Dir : \A q \in report[e] : q \in Known
          BY DEF Known, Written, InReview
        <4> QED
          BY <4>1, <4>2, <4>3, <4>4
    <2>3. CASE LoadFinal \/ VerifyFinal \/ HashReport
      <3>1. PICK v \in review : \A z \in review' :
                \/ \E m : z = [v EXCEPT !.loaded = {m}]
                \/ z = [v EXCEPT !.checked = v.checked + 1, !.loaded = {}]
                \/ \E r : z = [v EXCEPT !.named = Append(@, r)]
        BY <2>3 DEF LoadFinal, VerifyFinal, HashReport
      <3>2. v = [dirs |-> v.dirs, reports |-> v.reports, checked |-> v.checked,
                 loaded |-> v.loaded, named |-> v.named]
        BY DEF ExtractionInv, ReviewInv
      <3>3. \A z \in review' : /\ z.reports = v.reports /\ z.dirs = v.dirs
              /\ z = [dirs |-> z.dirs, reports |-> z.reports, checked |-> z.checked,
                      loaded |-> z.loaded, named |-> z.named]
        <4> TAKE z \in review'
        <4>1. CASE \E m : z = [v EXCEPT !.loaded = {m}]
          BY <3>2, <4>1
        <4>2. CASE z = [v EXCEPT !.checked = v.checked + 1, !.loaded = {}]
          BY <3>2, <4>2
        <4>3. CASE \E r : z = [v EXCEPT !.named = Append(@, r)]
          <5>1. PICK named : z = [v EXCEPT !.named = named]
            BY <4>3
          <5> QED
            BY <3>2, <5>1
        <4> QED
          BY <3>1, <4>1, <4>2, <4>3
      <3> QED
        BY <1>1, <3>3 DEF ExtractionInv, ReviewInv, Known, Written, InReview, diskVars
    <2> QED
      BY <2>1, <2>2, <2>3
  <1> QED
    BY <1>1, <1>2, <1>3, Idle DEF diskVars

\* The checkpoint is written from two reports.
LEMMA CompareStep ==
    ASSUME ExtractionInv, CompareRuns
    PROVE  ExtractionInv'
  <1>1. PICK v \in review :
        /\ Len(v.reports) = 2 /\ review' = {} /\ UNCHANGED <<diskVars, run, torn, runs>>
        /\ LET a == v.reports[1]
               b == v.reports[2]
               same == /\ a.setup = b.setup /\ a.db # b.db
                       /\ \A s \in DOMAIN Splits :
                             Bits(a.artifacts[s].array) = Bits(b.artifacts[s].array)
           IN  checkpoint' = IF same THEN {[a |-> a, b |-> b, named |-> v.named]}
                             ELSE checkpoint
    BY DEF CompareRuns
  <1>2. Domains' /\ (~ torn => FilesInv')
    BY <1>1 DEF ExtractionInv, Domains, FilesInv, diskVars
  <1>3. ReviewInv' /\ \A r \in Known' : r \in Known
    BY <1>1 DEF ReviewInv, Known, Written, InReview, diskVars
  <1>4. PICK a, b : a = v.reports[1] /\ b = v.reports[2]
    OBVIOUS
  <1>5. CheckpointIsReproduced'
    <2>1. CASE checkpoint' = checkpoint
      BY <2>1 DEF ExtractionInv, CheckpointIsReproduced
    <2>2. CASE checkpoint' # checkpoint
      <3>1. /\ a.setup = b.setup /\ a.db # b.db
            /\ \A s \in DOMAIN Splits : Bits(a.artifacts[s].array) = Bits(b.artifacts[s].array)
            /\ checkpoint' = {[a |-> a, b |-> b, named |-> v.named]}
        BY <1>1, <1>4, <2>2
      <3>2. \A r \in {a, b} : r \in Known /\ r.mode = "refresh"
        <4>1. DOMAIN v.reports = 1..2
          BY <1>1, AppendSequence DEF ExtractionInv, ReviewInv
        <4>2. \A i \in 1..2 : v.reports[i] \in Known
          BY <4>1, ReviewKnown
        <4>3. \A i \in 1..2 : v.reports[i].mode = "refresh"
          BY <4>1 DEF ExtractionInv, ReviewInv
        <4>4. 1 \in 1..2 /\ 2 \in 1..2
          OBVIOUS
        <4> QED
          BY <1>4, <4>2, <4>3, <4>4
      <3>3. a.by # b.by
        BY <3>1, <3>2 DEF ExtractionInv, IdInv
      <3>4. \A r \in {a, b} : \A s \in DOMAIN Splits : \A w \in ToSet(r.artifacts[s].array) :
                w.by = r.by /\ w.batch = FrozenBatch[r.setup][w.row]
        BY <3>2, FreshVectors DEF ExtractionInv
      <3>5. \A c \in checkpoint' : c.a = a /\ c.b = b
        BY <3>1
      <3> QED
        BY <3>1, <3>3, <3>4, <3>5 DEF CheckpointIsReproduced
    <2> QED
      BY <2>1, <2>2
  <1> QED
    BY <1>1, <1>2, <1>3, <1>5, Idle DEF diskVars

-----------------------------------------------------------------------------
(* The theorems.                                                           *)

LEMMA InitInv ==
    ASSUME ExtractionInit
    PROVE  ExtractionInv
  <1>1. Domains
    BY DEF ExtractionInit, Domains
  <1>2. Known = {}
    BY DEF ExtractionInit, Known, Written, InReview
  <1>3. AloneInv /\ FilesInv /\ IdInv /\ \A w \in Worker : \A x \in run[w] : RunInv(x)
    BY <1>2 DEF ExtractionInit, AloneInv, FilesInv, IdInv
  <1>4. StoredInv
    <2>1. ASSUME NEW d \in Db, NEW c \in Chunk
          PROVE  NotStored(d, c[1], ChunkRows(c[1], c[2], c[3]))
      <3>1. c[1] \in Setup /\ c[2] \in DOMAIN Splits /\ c[3] \in 1..ChunkCount(c[1], c[2])
        BY ChunkIs
      <3>2. \A r \in ToSet(ChunkRows(c[1], c[2], c[3])) : r \in Row
        BY <3>1, FrozenBatchIs
      <3> QED
        BY <3>1, <3>2 DEF ExtractionInit, NotStored
    <2> QED
      BY <2>1 DEF ExtractionInit, StoredInv
  <1>5. ReviewInv /\ CheckpointIsReproduced
    BY DEF ExtractionInit, ReviewInv, CheckpointIsReproduced
  <1> QED
    BY <1>1, <1>2, <1>3, <1>4, <1>5 DEF ExtractionInv

LEMMA StepInv ==
    ASSUME ExtractionInv, ExtractionNext
    PROVE  ExtractionInv'
  <1>1. ASSUME NEW w \in Worker,
               \E dir \in Dir, mode \in Mode, m \in Machine[w] : \E db \in Database(mode) :
                   StartExtraction(w, dir, db, mode, m[1], m[2])
        PROVE  ExtractionInv'
    BY <1>1, StartStep
  <1>2. ASSUME NEW w \in Worker, ExtractionStep(w) PROVE ExtractionInv'
    BY <1>2, SidecarRead, LoadStep, VerifyStep, LookUpStep, EmbedStep, PutStep, MatrixStep,
       SidecarStep, FinalSteps, ReportStep DEF ExtractionStep
  <1>3. ASSUME NEW w \in Worker, ExtractionFails(w) PROVE ExtractionInv'
    BY <1>3, FailStep
  <1>4. CASE \/ \E d \in Db, u \in Setup, r \in Row : DamageRow(d, u, r)
             \/ \E d \in Dir, c \in Chunk : DamageFile(d, c)
    BY <1>4, DamageStep
  <1>5. CASE (\E a, b \in Dir : StartReview(a, b)) \/ ReviewStep
    BY <1>5, VerifySteps, CompareStep DEF ReviewStep
  <1> QED
    BY <1>1, <1>2, <1>3, <1>4, <1>5 DEF ExtractionNext

LEMMA StutterInv ==
    ASSUME ExtractionInv, UNCHANGED extractionVars
    PROVE  ExtractionInv'
  <1>1. UNCHANGED <<stored, matrix, sidecar, report, run, review, checkpoint, torn, runs>>
    BY DEF extractionVars, diskVars
  <1>2. Domains' /\ FilesInv' = FilesInv
    BY <1>1 DEF ExtractionInv, Domains, FilesInv
  <1>3. Known' = Known /\ ReviewInv' /\ CheckpointIsReproduced'
    BY <1>1, KnownRests DEF ExtractionInv, ReviewInv, CheckpointIsReproduced
  <1> QED
    BY <1>1, <1>2, <1>3, Idle DEF ExtractionInv

\* Whatever runs are started, die, share directories and databases or find damaged
\* files, ExtractionInv holds: what _cached_batch, _write_chunk and
\* _load_verified_chunk leave behind is of whole frozen batches unless the history
\* torn says otherwise.
THEOREM ExtractionInvariance == ExtractionSpec => []ExtractionInv
  <1>1. ExtractionInit => ExtractionInv
    BY InitInv
  <1>2. ExtractionInv /\ [ExtractionNext]_extractionVars => ExtractionInv'
    BY StepInv, StutterInv
  <1> QED
    BY <1>1, <1>2, PTL DEF ExtractionSpec

\* A run in refresh or off mode reports only vectors it computed itself, in frozen
\* batches: OptionBCache.reads_enabled and _load_verified_chunk keep it from
\* reading anything, whatever was left by others.
THEOREM FreshRuns == ExtractionSpec => []FreshRunsRecompute
  <1>1. ExtractionInv => FreshRunsRecompute
    BY FreshVectors DEF ExtractionInv, FreshRunsRecompute, Known, Written, InReview
  <1> QED
    BY <1>1, ExtractionInvariance, PTL

\* A run that reuses chunk files and cached rows reports the vectors of whole
\* frozen batches, as long as nothing tore a batch in the cache.
THEOREM Reuse == ExtractionSpec => []ReuseKeepsFrozenBatches
  <1>1. ASSUME ExtractionInv PROVE ReuseKeepsFrozenBatches
    <2>1. SUFFICES ASSUME ~ torn, NEW d \in Dir, NEW r \in report[d], NEW s \in DOMAIN Splits,
                          NEW i \in DOMAIN r.artifacts[s].array
                   PROVE  LET v == r.artifacts[s].array[i]
                          IN  /\ v.setup = r.setup /\ v.row = Splits[s][i]
                              /\ v.batch = FrozenBatch[r.setup][v.row]
      BY DEF ReuseKeepsFrozenBatches
    <2>2. r \in Known
      BY DEF Known, Written, InReview
    <2>3. ReportInv(r) /\ Sound(r.mode)
      BY <1>1, <2>1, <2>2 DEF ExtractionInv, Sound
    <2> QED
      BY <2>3, ReportVectors
  <1> QED
    BY <1>1, ExtractionInvariance, PTL

\* The checkpoint that verify_independent_runs writes is of two different runs, each
\* of which computed all its rows in frozen batches, with the same bits.
THEOREM Reproduced == ExtractionSpec => []CheckpointIsReproduced
  <1>1. ExtractionInv => CheckpointIsReproduced
    BY DEF ExtractionInv
  <1> QED
    BY <1>1, ExtractionInvariance, PTL

=============================================================================
