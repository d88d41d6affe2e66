---------------------------- MODULE IntegrityScan ----------------------------
(***************************************************************************)
(* The D1 integrity audit (experiments/option_c0_d1_integrity_audit.py):   *)
(* a scan for near-duplicate rows that keeps its progress in a SQLite      *)
(* cache, and the report it publishes.                                     *)
(*                                                                         *)
(* One process runs at a time.  Every step is one committed transaction of *)
(* the cache, or a read; the process can die between any two of them, and  *)
(* the next one resumes from the tables.  The context digest covers the    *)
(* rows, the sources and the limits, and every table is keyed by it, so    *)
(* the tables here are those of one context.  The statuses of the phases   *)
(* candidate_generation and pair_comparison are never read and left out.   *)
(***************************************************************************)
EXTENDS Integers, FiniteSets, Sequences, FiniteSetsExt

CONSTANTS
    Dataset,      \* the visible rows, in the order (role, stable key)
    Limits,       \* the limits an audit can be given
    Output,       \* output paths
    SimhashBits,  \* width of a SimHash, a set of bit positions
    SimhashBands, \* bands it is cut into
    RowBatch,     \* rows per put_visible_rows
    StageSize,    \* pairs staged before they are put
    CompareBatch, \* CANDIDATE_COMPARISON_BATCH_SIZE
    MaxCrashes,   \* bound on the deaths of the process
    MaxEdits      \* bound on the edits of the cache by others

Bit == 0..(SimhashBits - 1)
Width == SimhashBits \div SimhashBands
Radius == SimhashBands - 1  \* MAX_EXHAUSTIVE_SIMHASH_RADIUS

IsRow(row) ==
    /\ row.key \in Nat /\ row.role \in {"c0_fit", "c0_iteration"}
    /\ row.simhash \subseteq Bit

\* reconstruct_visible_records sorts by role and key, and load_visible_rows does.
Ordered(data) ==
    \A i, j \in DOMAIN data :
        i < j => \/ data[i].role = "c0_fit" /\ data[j].role = "c0_iteration"
                 \/ data[i].role = data[j].role /\ data[i].key < data[j].key

ASSUME ScanAssumption ==
    /\ SimhashBits \in Nat /\ SimhashBands \in Nat \ {0} /\ SimhashBits % SimhashBands = 0
    /\ \A data \in Dataset :
          /\ Len(data) \in Nat \ {0} /\ DOMAIN data = 1..Len(data) /\ Ordered(data)
          /\ \A i \in DOMAIN data : IsRow(data[i])
          /\ \A i, j \in DOMAIN data : data[i].key = data[j].key => i = j
    /\ \A l \in Limits :
          /\ l.hamming \in 0..Radius
          /\ l.bucket \in Nat \ {0} /\ l.candidates \in Nat \ {0} /\ l.pairs \in Nat \ {0}
    /\ {RowBatch, StageSize, CompareBatch} \subseteq Nat \ {0}
    /\ {MaxCrashes, MaxEdits} \subseteq Nat

VARIABLES
    rows, limits,  \* the context
    \* the cache
    visible,       \* indices of the cached rows; 0 stands for an altered row
    rowsMarked,    \* is the phase visible_rows COMPLETE
    candidates,    \* candidate_pairs
    near,          \* near_pairs
    genMark,       \* checkpoint of candidate_generation, none or one
    cmpMark,       \* checkpoint of pair_comparison, none or one
    scanPhase,     \* metadata of near_duplicate_scan, none or one
    \* the process
    pc, run,       \* next step; the output and the input checks of the run
    pos, at,       \* bucket at hand, pairs of it already staged
    oversized, truncated, full,  \* counters and flags of the generation
    cursor, cut,   \* last pair compared, comparison_truncated
    \* the world
    reports,       \* the report at each output path, none or one
    crashes, edits

context == <<rows, limits>>
tables == <<visible, rowsMarked, candidates, near, genMark, cmpMark, scanPhase>>
locals == <<pos, at, oversized, truncated, full, cursor, cut>>
world == <<reports, crashes, edits>>
scanVars == <<context, tables, pc, run, locals, world>>

-----------------------------------------------------------------------------
(* SimHash banding and pairs.                                              *)

\* _simhash_band_values: the value of the hash in each of its bands, as its bits.
BandValues(hash) ==
    {<<band, {b \in hash : b \div Width = band}>> : band \in 0..(SimhashBands - 1)}

\* Which of two values is less: the other has the highest bit they differ in.
Below(low, high) == \E b \in high \ low : \A c \in low \ high : c < b
BucketBefore(u, v) == u[1] < v[1] \/ (u[1] = v[1] /\ Below(u[2], v[2]))

Hamming(left, right) == Cardinality((left \ right) \cup (right \ left))

Lex(p, q) == p[1] < q[1] \/ (p[1] = q[1] /\ p[2] < q[2])

\* A set as a sequence, given which of its elements come before each of them.
Ranked(before) == [k \in 1..Cardinality(DOMAIN before) |->
    CHOOSE p \in DOMAIN before : Cardinality(before[p]) = k - 1]
InOrder(pairs) == Ranked([p \in pairs |-> {q \in pairs : Lex(q, p)}])

\* The rows that share a band value, as ordered_buckets lists them.
Buckets == [data \in Dataset |->
    LET values == UNION {BandValues(data[i].simhash) : i \in DOMAIN data}
    IN  Ranked([v \in values |-> {u \in values : BucketBefore(u, v)}])]
OrderedBuckets == Buckets[rows]
Members == [data \in Dataset |-> [k \in DOMAIN Buckets[data] |->
    {i \in DOMAIN data : Buckets[data][k] \in BandValues(data[i].simhash)}]]

Across(left, right) == left.role # right.role /\ left.repository # right.repository
Crosses(i, j) == Across(rows[i], rows[j])

\* The pairs of row indices the nested loops of a bucket come to, in their order.
LoopPairs == [data \in Dataset |-> [k \in DOMAIN Buckets[data] |->
    LET members == Members[data][k] IN
        InOrder({p \in members \X members : p[1] < p[2] /\ Across(data[p[1]], data[p[2]])})]]

Sorted(a, b) == IF a < b THEN <<a, b>> ELSE <<b, a>>

\* The cache keeps a pair of indices as the sorted pair of the stable keys.
Keys(p) == Sorted(rows[p[1]].key, rows[p[2]].key)
RowOf(key) == CHOOSE i \in DOMAIN rows : rows[i].key = key
Distance(pair) == Hamming(rows[RowOf(pair[1])].simhash, rows[RowOf(pair[2])].simhash)

\* What the scan is for: all pairs of rows across roles and repositories that are
\* within the radius.
NearDuplicates ==
    {Keys(p) : p \in {q \in (DOMAIN rows) \X (DOMAIN rows) :
        /\ q[1] < q[2] /\ Crosses(q[1], q[2])
        /\ Hamming(rows[q[1]].simhash, rows[q[2]].simhash) <= limits.hamming}}

CrossPairs == {Keys(p) : p \in {q \in (DOMAIN rows) \X (DOMAIN rows) : Crosses(q[1], q[2])}}

\* exact_overlap_report: is some content in rows of both roles.
ExactOverlap ==
    \E i, j \in DOMAIN rows : rows[i].code = rows[j].code /\ rows[i].role # rows[j].role

-----------------------------------------------------------------------------

Checks == {"verified", "unidentified", "unsourced"}
Statuses ==
    {"C0_D1_AUDIT_INPUT_IDENTITY_FAILED", "C0_D1_AUDIT_INCOMPLETE_SOURCE_MANIFEST",
     "C0_D1_AUDIT_INCOMPLETE_NEAR_SCAN", "C0_D1_AUDIT_COMPLETE_PENDING_HUMAN_REVIEW"}
Report ==
    [status : Statuses, complete : BOOLEAN, pairs : SUBSET CrossPairs, overlap : BOOLEAN]
Working == {"rows", "store", "near", "bucket", "compare", "report"}
NoRun == [output |-> "none", checks |-> "verified"]
NoPair == <<-1, -1>>  \* the cursor ("", ""), before every pair

ScanTypeOK ==
    /\ rows \in Dataset /\ limits \in Limits
    /\ visible \subseteq 0..Len(rows) /\ rowsMarked \in BOOLEAN
    /\ candidates \subseteq CrossPairs /\ near \subseteq CrossPairs
    /\ genMark \subseteq [position : DOMAIN OrderedBuckets, oversized : Nat]
    /\ cmpMark \subseteq CrossPairs \cup {NoPair}
    /\ \A m \in scanPhase :
          /\ m.candidates \subseteq CrossPairs /\ m.pairs \subseteq CrossPairs
          /\ m.complete \in BOOLEAN
    /\ Cardinality(genMark) <= 1 /\ Cardinality(cmpMark) <= 1 /\ Cardinality(scanPhase) <= 1
    /\ pc \in {"idle", "failed"} \cup Working
    /\ run \in [output : Output, checks : Checks] \cup {NoRun}
    /\ pos \in 0..(Len(OrderedBuckets) + 1) /\ at \in Nat /\ oversized \in Nat
    /\ {truncated, full, cut} \subseteq BOOLEAN
    /\ cursor \in CrossPairs \cup {NoPair}
    /\ \A o \in Output : reports[o] \subseteq Report /\ Cardinality(reports[o]) <= 1
    /\ crashes \in 0..MaxCrashes /\ edits \in 0..MaxEdits

ScanInit ==
    /\ rows \in Dataset /\ limits \in Limits
    /\ visible = {} /\ rowsMarked = FALSE /\ candidates = {} /\ near = {}
    /\ genMark = {} /\ cmpMark = {} /\ scanPhase = {}
    /\ pc = "idle" /\ run = NoRun
    /\ pos = 0 /\ at = 0 /\ oversized = 0 /\ truncated = FALSE /\ full = FALSE
    /\ cursor = NoPair /\ cut = FALSE
    /\ reports = [o \in Output |-> {}]
    /\ crashes = 0 /\ edits = 0

Proceed(step) == pc' = step /\ UNCHANGED run
End(step) ==
    /\ pc' = step /\ run' = NoRun
    /\ pos' = 0 /\ at' = 0 /\ oversized' = 0 /\ truncated' = FALSE /\ full' = FALSE
    /\ cursor' = NoPair /\ cut' = FALSE

-----------------------------------------------------------------------------
(* The audit, and the visible rows.                                        *)

\* run_d1_integrity_audit up to the cache: the output must not exist; an audit of
\* unverified inputs or sources goes on (fixture override) and says so at the end.
StartAudit(o, checks) ==
    /\ pc \in {"idle", "failed"}
    /\ reports[o] = {}
    /\ pc' = "rows" /\ run' = [output |-> o, checks |-> checks]
    /\ UNCHANGED <<context, tables, locals, world>>

\* load_or_reconstruct_visible_rows: count, phase and commitment agree.
ReuseRows ==
    /\ pc = "rows"
    /\ rowsMarked /\ visible = DOMAIN rows
    /\ Proceed("near")
    /\ UNCHANGED <<context, tables, locals, world>>

\* clear_visible_rows, when some rows are cached: all tables of the context.
DiscardRows ==
    /\ pc = "rows" /\ ~ (rowsMarked /\ visible = DOMAIN rows)
    /\ IF visible = {} THEN UNCHANGED tables
       ELSE /\ visible' = {} /\ rowsMarked' = FALSE /\ candidates' = {} /\ near' = {}
            /\ genMark' = {} /\ cmpMark' = {} /\ scanPhase' = {}
    /\ Proceed("store")
    /\ UNCHANGED <<context, locals, world>>

\* put_visible_rows of the next batch.
PutVisibleRows ==
    /\ pc = "store" /\ visible # DOMAIN rows
    /\ LET n == Cardinality(visible) IN
           visible' = visible \cup {i \in DOMAIN rows : n < i /\ i <= n + RowBatch}
    /\ UNCHANGED <<context, rowsMarked, candidates, near, genMark, cmpMark, scanPhase,
                   pc, run, locals, world>>

MarkRowsComplete ==
    /\ pc = "store" /\ visible = DOMAIN rows
    /\ rowsMarked' = TRUE
    /\ Proceed("near")
    /\ UNCHANGED <<context, visible, candidates, near, genMark, cmpMark, scanPhase,
                   locals, world>>

-----------------------------------------------------------------------------
(* near_duplicate_report and _compute_near_pairs.                          *)

\* Mutant: a finished scan is reused as it is found.
ReuseScanUnchecked ==
    /\ pc = "near" /\ scanPhase # {}
    /\ Proceed("report")
    /\ UNCHANGED <<context, tables, locals, world>>

\* A finished scan is reused if both commitments hold, and is an error otherwise.
ReuseScan ==
    /\ pc = "near" /\ scanPhase # {}
    /\ IF \A m \in scanPhase : m.candidates = candidates /\ m.pairs = near
       THEN Proceed("report") /\ UNCHANGED locals
       ELSE End("failed")
    /\ UNCHANGED <<context, tables, world>>

\* The generation starts, or resumes after the last completed bucket.
BeginGeneration ==
    /\ pc = "near" /\ scanPhase = {}
    /\ IF genMark = {} THEN pos' = 1 /\ oversized' = 0
       ELSE \E m \in genMark : pos' = m.position + 1 /\ oversized' = m.oversized
    /\ at' = 0 /\ truncated' = FALSE
    /\ full' = (Cardinality(candidates) >= limits.candidates)
    /\ Proceed("bucket")
    /\ UNCHANGED <<context, tables, cursor, cut, world>>

InRange == pos <= Len(OrderedBuckets)
Oversized == Cardinality(Members[rows][pos]) > limits.bucket
BucketPairs == LoopPairs[rows][pos]
Pending == SubSeq(BucketPairs, at + 1, Len(BucketPairs))
Upcoming == {Keys(Pending[k]) : k \in DOMAIN Pending}

Staging == pc = "bucket" /\ InRange /\ ~ Oversized /\ ~ full

\* put_candidate_pairs: what is above the limit is cut off, pairs that are
\* there already included.
PutCandidates(staged) ==
    LET room == Max({limits.candidates - Cardinality(candidates), 0})
        selected == SubSeq(staged, 1, Min({room, Len(staged)}))
    IN  candidates \cup {Keys(selected[k]) : k \in DOMAIN selected}

\* Staged pairs are put.  When that fills the table the inner loop is left: the
\* other pairs of the same left row are passed over.
Flush(size) ==
    /\ candidates' = PutCandidates(SubSeq(Pending, 1, size))
    /\ full' = (Cardinality(candidates') >= limits.candidates)
    /\ LET last == at + size
           skip == {k \in DOMAIN BucketPairs :
                      k > last /\ BucketPairs[k][1] = BucketPairs[last][1]}
       IN  at' = last + IF full' /\ size = StageSize THEN Cardinality(skip) ELSE 0
    /\ UNCHANGED <<context, visible, rowsMarked, near, genMark, cmpMark, scanPhase,
                   pc, run, pos, oversized, truncated, cursor, cut, world>>

FlushFull == Staging /\ Len(Pending) >= StageSize /\ Flush(StageSize)
FlushRest == Staging /\ Len(Pending) \in 1..(StageSize - 1) /\ Flush(Len(Pending))

\* Mutant: the checkpoint of a bucket is saved before its last pairs are put.
CompleteBucketEarly ==
    /\ pc = "bucket" /\ InRange
    /\ oversized' = oversized + IF Oversized THEN 1 ELSE 0
    /\ Oversized \/ full \/ Len(Pending) < StageSize
    /\ truncated' = (full /\ ~ Oversized /\ ~ (Upcoming \subseteq candidates))
    /\ genMark' = {[position |-> pos, oversized |-> oversized']}
    /\ pos' = IF truncated' THEN Len(OrderedBuckets) + 1 ELSE pos + 1
    /\ at' = 0
    /\ UNCHANGED <<context, visible, rowsMarked, candidates, near, cmpMark, scanPhase,
                   pc, run, full, cursor, cut, world>>

\* A bucket is left and its checkpoint saved: it is oversized, all its pairs
\* are put, or the table is full, and then a pair that is not in it truncates the
\* generation.
CompleteBucket ==
    /\ pc = "bucket" /\ InRange
    /\ oversized' = oversized + IF Oversized THEN 1 ELSE 0
    /\ Oversized \/ full \/ Pending = <<>>
    /\ truncated' = (full /\ ~ Oversized /\ ~ (Upcoming \subseteq candidates))
    /\ genMark' = {[position |-> pos, oversized |-> oversized']}
    /\ pos' = IF truncated' THEN Len(OrderedBuckets) + 1 ELSE pos + 1
    /\ at' = 0
    /\ UNCHANGED <<context, visible, rowsMarked, candidates, near, cmpMark, scanPhase,
                   pc, run, full, cursor, cut, world>>

\* The comparison starts, or resumes after the last pair compared.
BeginComparison ==
    /\ pc = "bucket" /\ ~ InRange
    /\ cursor' \in IF cmpMark = {} THEN {NoPair} ELSE cmpMark
    /\ cut' = FALSE
    /\ Proceed("compare")
    /\ UNCHANGED <<context, tables, pos, at, oversized, truncated, full, world>>

\* fetch_candidate_pair_batch
FetchBatch ==
    LET after == InOrder({p \in candidates : Lex(cursor, p)})
    IN  SubSeq(after, 1, Min({CompareBatch, Len(after)}))

NearIn(batch, k) == {batch[j] : j \in {i \in 1..k : Distance(batch[i]) <= limits.hamming}}

\* How many pairs of the batch are processed: up to the near pair that finds the
\* table full.
Compared(batch) ==
    Max({k \in 0..Len(batch) :
            Cardinality(near) + Cardinality(NearIn(batch, k)) <= limits.pairs})

\* Mutant: a truncated batch does not end the loop.
CompareOn ==
    /\ pc = "compare" /\ FetchBatch # <<>>
    /\ LET batch == FetchBatch  n == Compared(batch) IN
           /\ near' = near \cup NearIn(batch, n)
           /\ cursor' = IF n = 0 THEN cursor ELSE batch[n]
    /\ cmpMark' = {cursor'}
    /\ UNCHANGED <<context, visible, rowsMarked, candidates, genMark, scanPhase,
                   pc, run, pos, at, oversized, truncated, full, cut, world>>

\* Mutant: the cursor passes the near pair that finds the table full.
ComparePast ==
    /\ pc = "compare" /\ ~ cut /\ FetchBatch # <<>>
    /\ LET batch == FetchBatch  n == Compared(batch) IN
           /\ near' = near \cup NearIn(batch, n)
           /\ cut' = (n < Len(batch))
           /\ cursor' = batch[Min({n + 1, Len(batch)})]
    /\ cmpMark' = {cursor'}
    /\ UNCHANGED <<context, visible, rowsMarked, candidates, genMark, scanPhase,
                   pc, run, pos, at, oversized, truncated, full, world>>

\* One batch is compared; its near pairs and the cursor are one transaction
\* (commit_comparison_batch).
CompareNext ==
    /\ pc = "compare" /\ ~ cut /\ FetchBatch # <<>>
    /\ LET batch == FetchBatch  n == Compared(batch) IN
           /\ near' = near \cup NearIn(batch, n)
           /\ cut' = (n < Len(batch))
           /\ cursor' = IF n = 0 THEN cursor ELSE batch[n]
    /\ cmpMark' = {cursor'}
    /\ UNCHANGED <<context, visible, rowsMarked, candidates, genMark, scanPhase,
                   pc, run, pos, at, oversized, truncated, full, world>>

ScanComplete == oversized = 0 /\ ~ truncated /\ ~ cut /\ limits.hamming <= Radius

\* The phase near_duplicate_scan is set, COMPLETE or TRUNCATED.
FinishScan ==
    /\ pc = "compare" /\ (cut \/ FetchBatch = <<>>)
    /\ scanPhase' = {[candidates |-> candidates, pairs |-> near, complete |-> ScanComplete]}
    /\ Proceed("report")
    /\ UNCHANGED <<context, visible, rowsMarked, candidates, near, genMark, cmpMark,
                   locals, world>>

Status(complete) ==
    CASE run.checks = "unidentified" -> "C0_D1_AUDIT_INPUT_IDENTITY_FAILED"
      [] run.checks = "unsourced" -> "C0_D1_AUDIT_INCOMPLETE_SOURCE_MANIFEST"
      [] run.checks = "verified" /\ ~ complete -> "C0_D1_AUDIT_INCOMPLETE_NEAR_SCAN"
      [] OTHER -> "C0_D1_AUDIT_COMPLETE_PENDING_HUMAN_REVIEW"

\* The report is written to the output (_atomic_write_json).
PublishReport ==
    /\ pc = "report"
    /\ \E m \in scanPhase :
          reports' = [reports EXCEPT ![run.output] =
              {[status |-> Status(m.complete), complete |-> m.complete, pairs |-> near,
                overlap |-> ExactOverlap]}]
    /\ End("idle")
    /\ UNCHANGED <<context, tables, crashes, edits>>

-----------------------------------------------------------------------------
(* The world.                                                              *)

\* The process dies; what was not committed is gone.
Crash ==
    /\ pc \in Working /\ crashes < MaxCrashes
    /\ crashes' = crashes + 1
    /\ End("idle")
    /\ UNCHANGED <<context, tables, reports, edits>>

\* Someone else edits the cache of a finished scan: a row is altered, or a pair
\* is lost.
EditCache ==
    /\ pc = "idle" /\ scanPhase # {} /\ edits < MaxEdits
    /\ edits' = edits + 1
    /\ \/ \E i \in visible \ {0} : visible' = (visible \ {i}) \cup {0}
          /\ UNCHANGED <<candidates, near>>
       \/ \E p \in candidates : candidates' = candidates \ {p} /\ UNCHANGED <<visible, near>>
       \/ \E p \in near : near' = near \ {p} /\ UNCHANGED <<visible, candidates>>
    /\ UNCHANGED <<context, rowsMarked, genMark, cmpMark, scanPhase, pc, run, locals,
                   reports, crashes>>

ScanStep ==
    \/ ReuseRows \/ DiscardRows \/ PutVisibleRows \/ MarkRowsComplete
    \/ ReuseScan \/ BeginGeneration \/ FlushFull \/ FlushRest \/ CompleteBucket
    \/ BeginComparison \/ CompareNext \/ FinishScan \/ PublishReport

ScanNext ==
    \/ \E o \in Output, checks \in Checks : StartAudit(o, checks)
    \/ ScanStep
    \/ Crash
    \/ EditCache

\* The process runs: nothing an audit does waits for anyone else.
ScanSpec == ScanInit /\ [][ScanNext]_scanVars /\ WF_scanVars(ScanStep)

-----------------------------------------------------------------------------
(* Safety.                                                                 *)

Published == UNION {reports[o] : o \in Output}

\* The candidate limit is so high that put_candidate_pairs never cuts anything off.
Ample == limits.candidates >= Cardinality(CrossPairs) + StageSize

\* A report that says the scan is complete lists every pair of rows across roles
\* and repositories within the radius, whatever the banding, the bounds, the
\* deaths of the process and the edits of the cache; as long as the candidate
\* limit is ample.
CompleteScanIsExhaustive ==
    Ample => \A r \in Published : r.complete => r.pairs = NearDuplicates

\* Audits of one context agree, however often they died, resumed, found the cache
\* complete or had to begin again; as long as the candidate limit is ample.
AuditsAgree ==
    Ample => \A r, s \in Published : r.complete = s.complete /\ r.pairs = s.pairs

\* The comparison checkpoint never runs ahead of what is stored: each candidate up
\* to the cursor that is near is a stored near pair, and nothing else is.
CursorCoversNearPairs ==
    edits = 0 =>
        /\ near \subseteq {p \in candidates : Distance(p) <= limits.hamming}
        /\ \A m \in cmpMark, p \in candidates :
              Distance(p) <= limits.hamming /\ ~ Lex(m, p) => p \in near

(* Liveness.                                                               *)

\* An audit comes to an end: its loops over buckets and batches always advance.
AuditEnds == pc \in Working ~> pc \in {"idle", "failed"}

-----------------------------------------------------------------------------
(* What the report says of itself, which the code does not keep.           *)

\* "oversized buckets and maximum output pairs are explicit; any skip or
\* truncation marks the scan incomplete".
AnySkipMarksIncomplete ==
    \A r \in Published : r.complete => r.pairs = NearDuplicates

=============================================================================
