-------------------------- MODULE EmbeddingExtraction ------------------------
(***************************************************************************)
(* Extracting the canonical embeddings of Option B and verifying two       *)
(* independent extractions (experiments/option_b_embeddings_hardened.py,   *)
(* option_b_cache.py, option_b_embedding_reproduction.py).                 *)
(*                                                                         *)
(* A run keeps three things that outlive it: rows of a cache database,     *)
(* chunk files with sidecars, and the matrices and the report of its       *)
(* directory.  What the backend computes for a row is taken to depend on   *)
(* the batch, and on something of the machine that the fingerprint does    *)
(* not tell, the grade.  A digest stands for what it is the digest of.     *)
(***************************************************************************)
EXTENDS Integers, Sequences, FiniteSets, SequencesExt

CONSTANTS
    Worker,        \* processes that extract
    Dir,           \* output directories
    Db,            \* cache databases
    Splits,        \* the canonical selection: a sequence of sequences of rows
    Setup,         \* what a fingerprint tells apart: runtime and batch size
    Grade,         \* what it does not
    Machine,       \* per worker: the setup and grade pairs of its machine
    RequiredDevice, \* device of the independent runs
    MaxRuns,       \* bound on the runs started
    MaxFaults      \* bound on deaths, exceptions and damaged rows or files

Row == UNION {ToSet(Splits[s]) : s \in DOMAIN Splits}
Mode == {"off", "read-write", "refresh"}

ASSUME ExtractionAssumption ==
    /\ Splits \in Seq(Seq(Row) \ {<<>>}) /\ Splits # <<>>
    /\ \A s, t \in DOMAIN Splits : \A i \in DOMAIN Splits[s], j \in DOMAIN Splits[t] :
          Splits[s][i] = Splits[t][j] => s = t /\ i = j
    /\ \A u \in Setup : u.batchSize \in Nat \ {0} /\ u.device \in {"cpu", "cuda"}
    /\ "none" \notin Db
    /\ Machine \in [Worker -> SUBSET (Setup \X Grade)]
    /\ MaxRuns \in Nat /\ MaxFaults \in Nat

-----------------------------------------------------------------------------
(* Chunks: the frozen batches of a split, of batchSize rows from its start. *)

Least(a, b) == IF a < b THEN a ELSE b

ChunkCount(setup, s) == (Len(Splits[s]) + setup.batchSize - 1) \div setup.batchSize

ChunkRows(setup, s, k) ==
    LET start == (k - 1) * setup.batchSize + 1
    IN  SubSeq(Splits[s], start, Least(start + setup.batchSize - 1, Len(Splits[s])))

Chunk == UNION {{<<setup, s, k>> : k \in 1..ChunkCount(setup, s)} :
                  setup \in Setup, s \in DOMAIN Splits}

FrozenBatch == [setup \in Setup |-> [r \in Row |->
    LET s == CHOOSE t \in DOMAIN Splits : r \in ToSet(Splits[t])
        k == CHOOSE j \in 1..ChunkCount(setup, s) : r \in ToSet(ChunkRows(setup, s, j))
    IN  ChunkRows(setup, s, k)]]

\* A vector; by is the run that computed it, which its bytes do not show.
Embed(setup, batch, r, grade, run) ==
    [setup |-> setup, row |-> r, batch |-> batch, grade |-> grade, by |-> run]

\* What the digest of a matrix, a sequence of vectors, tells.
Bits(m) == [i \in DOMAIN m |-> [m[i] EXCEPT !.by = 0]]

\* A vector or a file whose bytes do not have the digest kept with them.
Damaged(v) == [v EXCEPT !.batch = <<>>]
Intact(v) == v.batch # <<>>

VARIABLES
    stored,     \* per database, setup and row: the vector kept, none or one
    matrix,     \* per directory and chunk: the file of the matrix, none or one
    sidecar,    \* per directory and chunk: the digests of the sidecar, none or one
    final,      \* per directory and split: the assembled matrix, none or one
    report,     \* per directory: the report, none or one
    run,        \* per worker: its run, none or one
    review,     \* the verification of two reports under way, none or one
    checkpoint, \* the checkpoint, none or one
    torn,       \* history: a batch was left partly put, a cached row was damaged,
                \* or two runs shared a database
    runs, faults

diskVars == <<stored, matrix, sidecar, final, report>>
extractionVars == <<diskVars, run, review, checkpoint, torn, runs, faults>>

ExtractionInit ==
    /\ stored = [d \in Db |-> [u \in Setup |-> [r \in Row |-> {}]]]
    /\ matrix = [d \in Dir |-> [c \in Chunk |-> {}]]
    /\ sidecar = [d \in Dir |-> [c \in Chunk |-> {}]]
    /\ final = [d \in Dir |-> [s \in DOMAIN Splits |-> {}]]
    /\ report = [d \in Dir |-> {}]
    /\ run = [w \in Worker |-> {}]
    /\ review = {} /\ checkpoint = {}
    /\ torn = FALSE /\ runs = 0 /\ faults = 0

-----------------------------------------------------------------------------

\* Mutant: refresh mode reads the cache it writes.
ReadsUnlessOff(mode) == mode # "off"

\* OptionBCache.reads_enabled and writes_enabled
ReadsEnabled(mode) == mode = "read-write"

WritesEnabled(mode) == mode \in {"read-write", "refresh"}

\* A worker goes on to stage; the fields of its run change with it.
Becomes(w, x) == run' = [run EXCEPT ![w] = {x}]

\* The database of a run; off mode opens none.
Database(mode) == IF mode = "off" THEN {"none"} ELSE Db

\* Inputs, preflight and source code are verified; a run starts at the first chunk.
StartExtraction(w, dir, db, mode, setup, grade) ==
    /\ run[w] = {} /\ runs < MaxRuns
    /\ runs' = runs + 1
    /\ Becomes(w, [id |-> runs + 1, dir |-> dir, db |-> db, mode |-> mode, setup |-> setup,
                   grade |-> grade, stage |-> "load", split |-> 1, chunk |-> 1,
                   digests |-> {}, loaded |-> {}, held |-> [r \in Row |-> {}], put |-> <<>>,
                   hits |-> 0, misses |-> 0, resumed |-> 0, done |-> <<>>])
    /\ torn' = (torn \/ \E v \in Worker \ {w} : \E x \in run[v] : x.db = db /\ db # "none")
    /\ UNCHANGED <<diskVars, review, checkpoint, faults>>

Here(x) == <<x.setup, x.split, x.chunk>>
BatchOf(x) == ChunkRows(x.setup, x.split, x.chunk)

\* The chunk at hand is complete: the next one, or the matrix of the split.
Advance(x) ==
    IF x.chunk < ChunkCount(x.setup, x.split)
    THEN [x EXCEPT !.chunk = @ + 1, !.stage = "load"]
    ELSE [x EXCEPT !.stage = "final"]

\* Mutant: the payload of a chunk is not compared with its sidecar.
VerifiedPayloadAny(m, file, c) == TRUE

\* The payload checks of _load_verified_chunk: of the matrix that was read, and of the
\* file, which is read again for its digest.
VerifiedPayload(m, file, c) ==
    /\ \A i \in DOMAIN m : Intact(m[i])
    /\ c.array = Bits(m) /\ c.file = Bits(file)

\* _load_verified_chunk: both files are there and the sidecar is read, or the chunk
\* is not reused.
ReadSidecar(w) ==
    \E x \in run[w] :
        LET read == {c \in sidecar[x.dir][Here(x)] :
                        x.mode = "read-write" /\ matrix[x.dir][Here(x)] # {}}
        IN  /\ x.stage = "load"
            /\ \/ \E c \in read : Becomes(w, [x EXCEPT !.stage = "read", !.digests = {c}])
               \/ read = {} /\ Becomes(w, [x EXCEPT !.stage = "lookup"])
            /\ UNCHANGED <<diskVars, review, checkpoint, torn, runs, faults>>

\* It loads the matrix.
LoadChunk(w) ==
    \E x \in run[w] : \E m \in matrix[x.dir][Here(x)] :
        /\ x.stage = "read"
        /\ Becomes(w, [x EXCEPT !.stage = "verify", !.loaded = {m}])
        /\ UNCHANGED <<diskVars, review, checkpoint, torn, runs, faults>>

\* It takes the digest of the file; a matrix or a file that fails is not reused.
VerifyChunk(w) ==
    \E x \in run[w] : \E m \in x.loaded, c \in x.digests, file \in matrix[x.dir][Here(x)] :
        LET dropped == [x EXCEPT !.digests = {}, !.loaded = {}]
        IN  /\ x.stage = "verify"
            /\ \/ /\ VerifiedPayload(m, file, c)
                  /\ Becomes(w, Advance([dropped EXCEPT !.resumed = @ + 1,
                         !.held = [r \in Row |->
                             IF r \in ToSet(BatchOf(x))
                             THEN {v \in ToSet(m) : v.row = r} ELSE @[r]]]))
               \/ /\ ~ VerifiedPayload(m, file, c)
                  /\ Becomes(w, [dropped EXCEPT !.stage = "lookup"])
            /\ UNCHANGED <<diskVars, review, checkpoint, torn, runs, faults>>

\* _cached_batch asks the cache for every row of the batch, one after the other: one
\* step, for only damage or a run that shares the database, which torn tells, could
\* change a row between two of them.
LookUp(w) ==
    \E x \in run[w] :
        LET found == [r \in Row |->
                IF r \in ToSet(BatchOf(x)) /\ ReadsEnabled(x.mode)
                THEN {v \in stored[x.db][x.setup][r] : Intact(v)} ELSE {}]
            hits == {r \in ToSet(BatchOf(x)) : found[r] # {}}
        IN  /\ x.stage = "lookup"
            /\ Becomes(w, [x EXCEPT !.stage = "embed", !.hits = @ + Cardinality(hits),
                   !.held = [r \in Row |-> IF r \in ToSet(BatchOf(x)) THEN found[r] ELSE @[r]]])
            /\ UNCHANGED <<diskVars, review, checkpoint, torn, runs, faults>>

\* The rows of a batch that are in a set, in their order.
Selected(batch, rows) ==
    LET upTo[n \in 0..Len(batch)] ==
            IF n = 0 THEN <<>>
            ELSE IF batch[n] \in rows THEN Append(upTo[n - 1], batch[n]) ELSE upTo[n - 1]
    IN  upTo[Len(batch)]

MissingIn(x) == Selected(BatchOf(x), {r \in Row : x.held[r] = {}})

\* The missing rows are embedded as one batch.
EmbedMissing(w) ==
    \E x \in run[w] :
        LET batch == MissingIn(x)
        IN  /\ x.stage = "embed"
            /\ Becomes(w, [x EXCEPT !.stage = "put", !.misses = @ + Len(batch),
                   !.held = [r \in Row |->
                       IF r \in ToSet(batch)
                       THEN {Embed(x.setup, batch, r, x.grade, x.id)} ELSE @[r]],
                   !.put = IF WritesEnabled(x.mode) THEN batch ELSE <<>>])
            /\ UNCHANGED <<diskVars, review, checkpoint, torn, runs, faults>>

\* _put_cached_embedding: the next of them is put and will be committed, by the
\* next put or by the commit at the end of the batch.
PutRow(w) ==
    \E x \in run[w] :
        /\ x.stage = "put"
        /\ IF x.put = <<>>
           THEN Becomes(w, [x EXCEPT !.stage = "matrix"]) /\ UNCHANGED stored
           ELSE /\ stored' = [stored EXCEPT ![x.db][x.setup][Head(x.put)] = x.held[Head(x.put)]]
                /\ Becomes(w, [x EXCEPT !.put = Tail(@)])
        /\ UNCHANGED <<matrix, sidecar, final, report, review, checkpoint, torn, runs, faults>>

\* The rows of a sequence as they are held.
Assembled(x, rows) == [i \in DOMAIN rows |-> CHOOSE v \in x.held[rows[i]] : TRUE]

\* _write_chunk: the matrix, and then the sidecar with the digest of the matrix
\* that was computed and the digest of the file that is there.
WriteMatrix(w) ==
    \E x \in run[w] :
        /\ x.stage = "matrix"
        /\ matrix' = [matrix EXCEPT ![x.dir][Here(x)] = {Assembled(x, BatchOf(x))}]
        /\ Becomes(w, [x EXCEPT !.stage = "sidecar"])
        /\ UNCHANGED <<stored, sidecar, final, report, review, checkpoint, torn, runs, faults>>

WriteSidecar(w) ==
    \E x \in run[w] : \E m \in matrix[x.dir][Here(x)] :
        /\ x.stage = "sidecar"
        /\ sidecar' = [sidecar EXCEPT ![x.dir][Here(x)] =
              {[array |-> Bits(Assembled(x, BatchOf(x))), file |-> Bits(m)]}]
        /\ Becomes(w, Advance(x))
        /\ UNCHANGED <<stored, matrix, final, report, review, checkpoint, torn, runs, faults>>

\* The matrix of the split is put in place, and then the digest of the file taken.
WriteFinal(w) ==
    \E x \in run[w] :
        /\ x.stage = "final"
        /\ final' = [final EXCEPT ![x.dir][x.split] = {Assembled(x, Splits[x.split])}]
        /\ Becomes(w, [x EXCEPT !.stage = "digest"])
        /\ UNCHANGED <<stored, matrix, sidecar, report, review, checkpoint, torn, runs, faults>>

DigestFinal(w) ==
    \E x \in run[w] : \E m \in final[x.dir][x.split] :
        LET artifact == [array |-> Assembled(x, Splits[x.split]), file |-> Bits(m),
                         hits |-> x.hits, misses |-> x.misses, resumed |-> x.resumed]
            next == [x EXCEPT !.done = Append(@, artifact), !.hits = 0, !.misses = 0,
                              !.resumed = 0]
        IN  /\ x.stage = "digest"
            /\ IF x.split < Len(Splits)
               THEN Becomes(w, [next EXCEPT !.split = @ + 1, !.chunk = 1, !.stage = "load"])
               ELSE Becomes(w, [next EXCEPT !.stage = "report"])
            /\ UNCHANGED <<diskVars, review, checkpoint, torn, runs, faults>>

\* The report, after all the matrices.
WriteReport(w) ==
    \E x \in run[w] :
        /\ x.stage = "report"
        /\ report' = [report EXCEPT ![x.dir] =
              {[by |-> x.id, setup |-> x.setup, mode |-> x.mode, db |-> x.db,
                artifacts |-> x.done]}]
        /\ run' = [run EXCEPT ![w] = {}]
        /\ UNCHANGED <<stored, matrix, sidecar, final, review, checkpoint, torn, runs, faults>>

ExtractionStep(w) ==
    \/ ReadSidecar(w) \/ LoadChunk(w) \/ VerifyChunk(w) \/ LookUp(w) \/ EmbedMissing(w)
    \/ PutRow(w) \/ WriteMatrix(w) \/ WriteSidecar(w) \/ WriteFinal(w)
    \/ DigestFinal(w) \/ WriteReport(w)

\* The rows of the batch at hand that the run has computed.
MissingOf(x) == Selected(BatchOf(x), {r \in Row : \E v \in x.held[r] : v.by = x.id})

\* A process dies or raises: close() commits what it has put.
ExtractionFails(w) ==
    \E x \in run[w] :
        /\ faults < MaxFaults /\ faults' = faults + 1
        /\ run' = [run EXCEPT ![w] = {}]
        /\ torn' = (torn \/ (x.stage = "put" /\ x.put \notin {<<>>, MissingOf(x)}))
        /\ UNCHANGED <<diskVars, review, checkpoint, runs>>

DamageRow(d, u, r) ==
    /\ faults < MaxFaults /\ faults' = faults + 1
    /\ \E v \in stored[d][u][r] : Intact(v) /\ stored' = [stored EXCEPT ![d][u][r] = {Damaged(v)}]
    /\ torn' = TRUE
    /\ UNCHANGED <<matrix, sidecar, final, report, run, review, checkpoint, runs>>

DamageFile(d, c) ==
    /\ faults < MaxFaults /\ faults' = faults + 1
    /\ \E m \in matrix[d][c] :
          matrix' = [matrix EXCEPT ![d][c] = {[i \in DOMAIN m |-> Damaged(m[i])]}]
    /\ UNCHANGED <<stored, sidecar, final, report, run, review, checkpoint, torn, runs>>

-----------------------------------------------------------------------------
(* verify_independent_runs                                                 *)

StartReview(a, b) ==
    /\ review = {} /\ a # b
    /\ review' = {[dirs |-> <<a, b>>, reports |-> <<>>, checked |-> 0, loaded |-> {},
                  named |-> <<>>]}
    /\ UNCHANGED <<diskVars, run, checkpoint, torn, runs, faults>>

\* _verify_run, what the report says of itself.
VerifiedReport(r) == r.setup.device = RequiredDevice /\ r.mode = "refresh"

\* _verify_run, what it says of the matrix of a split: no row was taken from
\* elsewhere.
VerifiedCounts(artifact, s) ==
    artifact.resumed = 0 /\ artifact.hits = 0 /\ artifact.misses = Len(Splits[s])

\* The report of the next directory is read, or the verification raises.
ReadReport ==
    \E v \in review :
        /\ Len(v.named) = Len(v.reports) /\ Len(v.reports) < 2
        /\ LET read == {r \in report[v.dirs[Len(v.reports) + 1]] : VerifiedReport(r)}
           IN  review' = {[v EXCEPT !.reports = Append(@, r), !.checked = 0] : r \in read}
        /\ UNCHANGED <<diskVars, run, checkpoint, torn, runs, faults>>

\* The matrix of the next split is loaded.
LoadFinal ==
    \E v \in review :
        /\ Len(v.named) < Len(v.reports) /\ v.checked < Len(Splits) /\ v.loaded = {}
        /\ review' = {[v EXCEPT !.loaded = {m}] :
                         m \in final[v.dirs[Len(v.reports)]][v.checked + 1]}
        /\ UNCHANGED <<diskVars, run, checkpoint, torn, runs, faults>>

\* The digest of the file is taken; it and the matrix are compared with the report.
VerifyFinal ==
    \E v \in review : \E m \in v.loaded :
        LET s == v.checked + 1
            artifact == Last(v.reports).artifacts[s]
        IN  /\ review' = {[v EXCEPT !.checked = s, !.loaded = {}] :
                   file \in {n \in final[v.dirs[Len(v.reports)]][s] :
                             /\ Bits(m) = Bits(artifact.array) /\ Bits(n) = artifact.file
                             /\ VerifiedCounts(artifact, s)}}
            /\ UNCHANGED <<diskVars, run, checkpoint, torn, runs, faults>>

\* After all the matrices the report is read again, for the digest by which the
\* checkpoint names it.
HashReport ==
    \E v \in review :
        /\ Len(v.named) < Len(v.reports) /\ v.checked = Len(Splits)
        /\ review' = {[v EXCEPT !.named = Append(@, r)] : r \in report[v.dirs[Len(v.reports)]]}
        /\ UNCHANGED <<diskVars, run, checkpoint, torn, runs, faults>>

\* Mutant: what was extracted is not compared.
CompareRunsOnly ==
    \E v \in review :
        /\ Len(v.reports) = 2 /\ Len(v.named) = 2
        /\ LET a == v.reports[1]
               b == v.reports[2]
               same == a.setup = b.setup /\ a.db # b.db
           IN  checkpoint' = IF same THEN {[a |-> a, b |-> b, named |-> v.named]}
                             ELSE checkpoint
        /\ review' = {}
        /\ UNCHANGED <<diskVars, run, torn, runs, faults>>

\* The two runs are compared; the checkpoint replaces an earlier one.
CompareRuns ==
    \E v \in review :
        /\ Len(v.reports) = 2 /\ Len(v.named) = 2
        /\ LET a == v.reports[1]
               b == v.reports[2]
               same == /\ a.setup = b.setup /\ a.db # b.db
                       /\ \A s \in DOMAIN Splits :
                             Bits(a.artifacts[s].array) = Bits(b.artifacts[s].array)
           IN  checkpoint' = IF same THEN {[a |-> a, b |-> b, named |-> v.named]} ELSE checkpoint
        /\ review' = {}
        /\ UNCHANGED <<diskVars, run, torn, runs, faults>>

ReviewStep == ReadReport \/ LoadFinal \/ VerifyFinal \/ HashReport \/ CompareRuns

ExtractionNext ==
    \/ \E w \in Worker :
          \/ \E dir \in Dir, mode \in Mode, m \in Machine[w] : \E db \in Database(mode) :
                StartExtraction(w, dir, db, mode, m[1], m[2])
          \/ ExtractionStep(w)
          \/ ExtractionFails(w)
    \/ \E d \in Db, u \in Setup, r \in Row : DamageRow(d, u, r)
    \/ \E d \in Dir, c \in Chunk : DamageFile(d, c)
    \/ \E a, b \in Dir : StartReview(a, b)
    \/ ReviewStep

ExtractionSpec == ExtractionInit /\ [][ExtractionNext]_extractionVars

-----------------------------------------------------------------------------

\* A run that may not reuse anything does not, whatever lies in its directory and
\* its database: every vector it reports was computed by it, in a frozen batch.
FreshRunsRecompute ==
    \A d \in Dir : \A r \in report[d] :
        r.mode # "read-write" =>
            \A s \in DOMAIN Splits : \A v \in ToSet(r.artifacts[s].array) :
                v.by = r.by /\ v.batch = FrozenBatch[r.setup][v.row]

\* A run that reuses chunks and rows ends with the matrices it would compute from
\* nothing, after any number of interrupted runs, with chunk files damaged or torn
\* and with other runs of other setups in the same directory and database - as
\* long as no batch was left partly put, no cached row was damaged and no two
\* runs used a database at a time.
ReuseKeepsFrozenBatches ==
    ~ torn => \A d \in Dir : \A r \in report[d] : \A s \in DOMAIN Splits :
        LET m == r.artifacts[s].array
        IN  \A i \in DOMAIN m :
               /\ m[i].setup = r.setup /\ m[i].row = Splits[s][i]
               /\ m[i].batch = FrozenBatch[r.setup][m[i].row]

\* The checkpoint certifies matrices that two different runs computed, each all of
\* its rows and in frozen batches, with the same bits.  It is said of the reports that
\* were read: those named are read again later, and may be of a later run.
CheckpointIsReproduced ==
    \A c \in checkpoint :
        /\ c.a.by # c.b.by
        /\ \A r \in {c.a, c.b} : \A s \in DOMAIN Splits : \A v \in ToSet(r.artifacts[s].array) :
              v.by = r.by /\ v.batch = FrozenBatch[r.setup][v.row]
        /\ \A s \in DOMAIN Splits :
              Bits(c.a.artifacts[s].array) = Bits(c.b.artifacts[s].array)

=============================================================================
