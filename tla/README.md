# Verification of the RELATE repository

RELATE is a research program about relative similarity. Most of its code is
numerical experiments; two parts have state, failure and concurrency. One is the
machinery that lets a canonical dataset of connected families be executed,
reviewed, authorized, published and closed exactly once, with evidence a reviewer
can check later. The other is what carries the long experiments: audits, embeddings
and evaluations that run for hours, keep caches and hash-chained files, die, and are
resumed and verified by later processes. These modules are about the two.

## 1. Inventory

Paths are relative to `src/src/relate/`.

| Component | State | Operations | Hard parts |
|---|---|---|---|
| One-shot canonical publication (`family/canonical_publication.py`) | audit work directory with `publication_claim.json`, `publication_trace.json`, `publication_receipt.json`, `publication_failure.json`; the canonical destination; local variables of a running attempt | `execute_authorized_canonical_publication` and its `except` branch `_write_failure` | two runs of one request, two requests for one destination; the candidate file is read three times; an error after an effect (`os.link` done, `fsync` raised); a crash anywhere |
| Atomic file primitives (`evidence/atomic_io.py`) | directory entries | `atomic_write_json` (replace), `atomic_create_bytes_no_replace` (link) | effect and error at once |
| Publication evidence review and closure (`family/canonical_publication_review.py`) | review reports and closure bundles, files that stay | `inspect_canonical_publication_evidence`, report, disposition, bundle | reads five files one by one, and each again for its digest, while writers run; decisions from old reports |
| Publication authorization, Stage 2J (`family/canonical_publication_authorization.py`) | immutable records | record constructors and validators, destination check | check of the destination long before its use |
| Authorized canonical execution (`family/execution.py`) | execution directory with claim, trace, receipt, failure record, review packet | `execute_authorized_canonical_family` | receipt before trace; failure record beside a receipt |
| Execution evidence review (`family/execution_review.py`) | none; reads the execution directory and the store | `review_canonical_execution` | as above |
| Workflow kernel (`workflows/`) | context, records of the run, trace sink, checkpoints callers keep | `WorkflowRunner.run` (fresh and resumed), `validate_completed_run` | altered or stale checkpoints, block and resume, failure in the middle, a trace sink that raises |
| Family graph store (`family/store.py`, `evidence/sqlite.py`) | SQLite database: cache identity, allocation, source records, candidates, dispositions, edges, memberships, phase commitments | open and bind, `put_*`, reads | every `put_*` is a transaction of its own; other runs in between |
| Family graph workflow (`family/workflow/`) | none of its own; uses kernel and store | eight steps from the verified inputs to the outcome, then the review packet | stops between rows and phase, replays, a changed bundle on the same store |
| Family graph algorithms (`family/graph.py`, `outcome.py`, `edges.py`, `rules.py`, ...) | none | edge resolution, completeness, components, crossings, outcome | pure functions |
| Execution authorization and review records | immutable records | constructors, validators | none: validity of a chain of digests |
| Evidence serialisation, command line | none | conversions, argument parsing | none |
| Integrity audit, Option C0 (`experiments/option_c0_d1_integrity_audit.py`) | SQLite cache: rows, candidate pairs, near pairs, checkpoints, phases; reports | `run_d1_integrity_audit`: rows, candidate generation, comparison, report | death between two transactions; bounds met in the middle of a bucket or batch; a cache edited in between |
| Candidate registry and discovery ledger (`experiments/option_c0_data_firewall.py`) | two hash-chained files | register, evaluate, change status, append a discovery | read, check and replace without a lock |
| Embedding cache and recovery (`option_c0_embedding_cache.py`, `option_c0_recovery_entrypoint.py`, `option_c0_canonical_recovery_entrypoint.py`) | SQLite cache of vectors by fingerprint | embedding of the three partitions with each entrypoint's policy | batches resumed in another composition; two processes on one cache; damaged rows |
| Discovery iteration (`option_c0_discovery_runner.py`, its entrypoints) | output directory with result and registry copy | `run_discovery_iteration` | the registry is verified, hashed and copied hours apart |
| Embedding extraction, Option B (`option_b_embeddings_hardened.py`, `option_b_cache.py`, `option_b_embedding_reproduction.py`) | cache database, chunk files with sidecars, matrices, report; reproduction checkpoint | `run_extraction`, `verify_independent_runs` | death inside a batch or between two files; runs that must not reuse anything |
| Evaluation chain, Option B (`option_b_probe_runner.py`, `option_b_hard_negative_manifest.py`, `option_b_method_evaluation.py`, `option_b_method_evaluation_independent.py`, `scripts/run-option-b-canonical-probe-fit.ps1`) | probe outputs and their promoted copies, pair files, five result files, verification | `run_probe_fit`, `generate_hard_negative_manifest`, `run_method_evaluation`, `verify_method_evaluation` | inputs hashed and read again later; a checkout that replaces them; partial outputs |
| E00/E01 experiments, audits, verification | none | numerical | none that interleave |

How they interact: the command line calls authorization, execution, review and
publication one after another, in separate processes, and they communicate only
through files. The execution runs the workflow kernel, whose steps fill the store.
The review of an execution is the input of the Stage 2J authorization, which is the
input of the publication executor, whose evidence the publication review reads.
Nothing is locked. What keeps two processes apart is `mkdir(exist_ok=False)` on a
work directory and `os.link` onto the destination.

The experiments are chains of programs too. Each checks the digests of the files of the
one before, and those that take hours keep what they have in a database or in chunk files
and find it again when they are started over. There a locked or busy SQLite file makes a
process fail; the files are replaced one at a time and nothing keeps two processes apart.

What makes each correct:

* publication: an authorization is used once, the canonical file is written once and
  never replaced, evidence on disk is true;
* review and closure: a conclusive report is true for good, reports of one request
  agree, one artifact is closed for one request;
* workflow kernel: a run never carries a record that was not executed in its context,
  genuine checkpoints are accepted, a completed run passes its own review;
* execution: an authorization is consumed once, a receipt stands for a finished run;
* store and workflow: phases have their rows, a replay is accepted wherever earlier runs
  stopped, packets made from one store agree;
* graph algorithms: components and outcome equal their reference definitions;
* integrity audit: a scan that calls itself complete has found every near-duplicate pair,
  however often it died; audits of one context agree; an audit ends;
* registry and iteration: the registry tells one story of each candidate, and a result
  continues the registry that its run verified;
* embeddings: a vector is of its row, model and device; a resumed run ends with what an
  uninterrupted one computes; a reproduction checkpoint stands for two real computations;
* evaluation: verified scores rest on the files the checkpoints name and match the rows
  they are scored on, and the files of a result are of one run.

The full list of hazards, each at its line with the properties aimed at it, is in
`PROJECT.json`.

## 2. Modules

| Module | Content |
|---|---|
| `CanonicalPublication` | the publication executor, with races, I/O errors, crashes and edits of its input files |
| `OneShotPublication` | abstract specification: what the executor promises |
| `PublicationRefinement` | the refinement mapping between the two |
| `PublicationInvariant` | the inductive invariant `IInv` |
| `PublicationProofs` | proofs about the executor and its review |
| `PublicationReview` | inspection, reports and closure, composed with the executor |
| `WorkflowRunner` | the workflow kernel |
| `WorkflowInvariant`, `WorkflowProofs` | its inductive invariant and the proofs |
| `FamilyExecution` | the one-shot executor of an authorized canonical family execution |
| `ExecutionReview` | inspection, reports and dispositions, composed with that executor |
| `ExecutionProofs` | proofs about that executor and its review |
| `FamilyGraph` | edge resolution, components, crossings and outcome, and what the protocol says of them |
| `FamilyWorkflow` | runs of the family workflow on one store |
| `FamilyProofs` | proofs about components and families, the store and its runs |
| `IntegrityScan` | the integrity audit with its cache |
| `ScanProofs` | proofs about that audit |
| `CandidateRegistry` | candidate registry and discovery ledger |
| `EmbeddingRecovery` | the embedding of the Option C0 partitions through the cache |
| `DiscoveryIteration` | the discovery iteration, composed of the two modules before it |
| `DiscoveryProofs` | proofs about the registry, the iteration and the embedding |
| `EmbeddingExtraction` | Option B extraction and the verification of two runs |
| `ExtractionProofs` | proofs about it |
| `MethodEvaluation` | the Option B chain from the probe fit to the verified scores |
| `EvaluationProofs` | proofs about the outputs and the scores of an evaluation |
| `MCPublication`, `MCReview`, `MCWorkflow`, `MCExecution`, `MCFamily`, `MCScan`, `MCDiscovery`, `MCExtraction`, `MCEvaluation` | instances for TLC |

### CanonicalPublication

Each element of `Attempt` is one call of
`execute_authorized_canonical_publication` in a process of its own; `WorkDir` says
which audit directory its request names, so attempts with equal `WorkDir` are runs of
one request. `pc[a]` is the attempt's next step and `mem[a]` holds its local
variables: `buf` is `candidate_bytes`, `sha` is `candidate_file_sha`, `canonical` is
`canonical_sha`. The file system is `candidate`, `parent`, `dest`, `dirs`, `files`,
`trace`, `failure` and `sealed` (the trace whose digest the receipt carries).

One action is one system call together with the assignments up to the next one, since
between two calls of one process any other process can run:

| Action | Code |
|---|---|
| `ReadCandidate`, `HashCandidate`, `Validate` | reads of the candidate and `validate_executable_canonical_publication_authorization` |
| `ConsumeAuditDir` | `audit_dir.mkdir(parents=True, exist_ok=False)` |
| `PersistClaim` ... `VerifyCandidate` | the try block up to the destination |
| `CheckDestination`, `LinkDestination` | `validate_intended_canonical_destination`, `atomic_create_bytes_no_replace` |
| `HashDestination` ... `WriteReceipt` | the rest of the try block |
| `InspectDestination`, `WriteFailure`, `WriteFailureTrace` | the except branch and `_write_failure` |
| `IOError`, `Crash`, `RewriteCandidate`, `EditPublisherSource` | what the environment does |

Abstractions: a file is its bytes and a digest is the bytes it was taken from (no
collisions). Temporary files are left out (random names, nobody reads them). The
missing part of the parent path is one directory. The records that form the request
are valid or not; parsing fails for `Malformed` bytes only. A trace is the number of
its events, because every attempt appends the same events in the same order.

### PublicationReview

An inspection by inspector `i` (`rstep[i]`, `rdir[i]`, `seen[i]`) loads claim, trace,
receipt, failure record and destination one after the other, and any step of an executor or
of another inspector may fall between two of them. `_load_optional_json` reads a file and
then reads it again for its digest; the trace is the only file whose digest is compared with
anything, so it has a second read (`HashTrace`). `Verdict` is the decision table of
`inspect_canonical_publication_evidence`, with `Raises` where the code raises. Reports and
closures are sets that only grow: the code writes them to new files and a disposition may
be made from any of them. The inspection checks the candidate file at its start only.

### WorkflowRunner

`ctx`, `phase`, `records` and `events` are the variables of the latest run; `kept` are
the runs whose records callers kept; `executed` remembers every step execution that
returned a result. A commitment is the tuple it is computed from, which is what a
hash without collisions means. `ResumeRun` takes a checkpoint from `Checkpoints`: one
made of kept records as it is, or with another run_id, a replaced result, a record
taken from anywhere among the kept ones, a record removed or, with `Relabel`, a
blocked record whose status is set to COMPLETED. Nobody recomputes commitments over
altered records, for who does that has made a new chain that no check of a hash chain
can tell from a real one. Names and versions of workflow and steps are those of the
definition throughout, so the checks on them are not modelled.

A step's result is its status and its commitment payload. The `output` of a
`StepResult` is not part of any commitment, and the model does not tell it from the
payload: nothing here says that an altered `output` is noticed.

### FamilyExecution

Each element of `Attempt` is one call of `execute_authorized_canonical_family`; attempts
with equal `WorkDir` are runs of one request. The evidence of a staging directory `d` is
`files[d]` (which of claim, packet, receipt, failure record and trace exist) with the
contents `packet[d]`, `receipt[d]` and `trace[d]`, and the family store beneath it,
`store[d]`. `mem[a]` has the two source identities in hand, the records of the run and
the internal trace sink.

| Action | Code |
|---|---|
| `Validate` | `validate_executable_canonical_authorization_v2` and the disposition |
| `ConsumeStagingDir` | `work_dir.mkdir(parents=True, exist_ok=False)` |
| `PersistClaim`, `IdentifyWorkflow`, `IdentifyExecutor`, `BuildPlan` | the try block up to the run |
| `StartStep`, `CompleteStep`, `BlockStep`, `FailStep` | `WorkflowRunner.run` with the steps of the family workflow |
| `WriteBlockedReceipt`, `BuildPacket`, `WritePacket`, `WriteCompletedReceipt`, `WriteTrace`, `HashReceipt` | the rest of the try block |
| `WriteFailure`, `WriteFailureTrace` | the except branches |
| `IOError`, `Crash`, `EditSource` | what the environment does |

An I/O call may raise before its effect (`IOError`) or after it (`Then`: the `fsync` of a
directory in `atomic_write_json`, or the caller's trace sink after the internal one).
Abstractions: the events of a run are known by their number and the last one, since
`WorkflowRunner` appends them in a fixed order; each step adds one part to the store,
which is a counter here; only the readiness step blocks, as in `steps.py`; whether the
packet's scientific payload matches the rehearsal's is open. A source file is edited or
not, and the identity of the executor covers that of the workflow. The absence check of
the staging directory is in one action with the source checks; the `mkdir` that follows
is what settles the race.

### ExecutionReview

An inspection reads claim, receipt, failure record, trace and packet one by one and the
store at last; executor and other inspectors take steps in between. `Verdict` is the
decision table of `inspect_authorized_canonical_execution`, with `Raises` where the code
raises and no report is written. A disposition is made for any report ever written.

Reports about a running execution may differ: one that missed the claim and met the
failure record says FAILED_BEFORE_CLAIM_PERSISTED, another VALID_FAILED. No document
excludes this, and what matters for publication, a completed execution, is not affected
(`CompletionIsNotContradicted`).

### FamilyGraph

Rows of the evidence tables have a table, a key and a content, for that is what the store
compares. `Resolve` is `resolve_evidence_candidate`, `Components` folds `Union` over the
connecting edges as `build_components` does with its union-find, `Crossings` and `Outcome`
are the facts `analyse_role_crossings` and `family_graph_outcome` derive. Beside them stand
definitions that use no algorithm: `Approved` says which evidence connects, `Families` that a
family is a least nonempty set of repositories closed under it. `BundleDecides` relates the
two on every packet.

Records are bound to their content by digests, so an edge is its candidate and its review
status. Each candidate is committed to one source here and to several in the code; endpoints
are allocated repositories (another one violates a foreign key and the step raises, as for
other bad input). Row counts, the hard-or-exact flag, normalisation and the validation of
payloads are left out.

### FamilyWorkflow

Each element of `Run` is one `relate family` run with the noncanonical command, in a process
of its own, and all of them use one store. `identity`, `allocated`, `evidence`, `edges`,
`members` and `phases` are its tables; `pc[r]` and `mem[r]` are the next step of a run and its
local variables, with the connection the step holds; `plan[r]` is the evidence bundle and the
cache identity it was started with.

| Action | Code |
|---|---|
| `Start`, `VerifyInputs` | `build_family_graph_workflow`, `VerifyFamilyInputsStep` |
| `Open`, `Bind` | `FamilyGraphCache(...)`: reading the identity, and writing it |
| `PutAllocation`, `CommitAllocation` | `RegisterAllocationStep`, two transactions |
| `PutEvidence`, `CommitEvidence` | `RegisterPreparedEvidenceStep`, one transaction for each row and one for the phase |
| `ListCandidates`, `ResolveCandidate`, `PutEdge`, `CommitEdges` | `ResolveCandidatesStep` |
| `AssessReadiness`, `CommitReadiness` | `AssessGraphReadinessStep`, which opens the store twice |
| `BuildComponents`, `PutMembers`, `CommitComponents` | `BuildFamilyComponentsStep` |
| `AnalyseCrossings`, `DetermineOutcome` | the last two steps |
| `WritePacket` | `build_family_review_packet` and the file it is written to |
| `Stop` | the run dies or raises between two transactions |

Every `put_*` reads what is stored and then inserts. Both are one action: if another process
inserts the same row in between, the primary key makes the insert raise, which is a `Stop`.
So is a locked database, and an input that does not verify. A bundle may hold a disposition
of a candidate whose rule takes none: `FamilyEvidenceBundle` and the store accept it, and
`resolve_evidence_candidate` raises (`Resolvable`). Rows of one table may be put in
any order; the code has a fixed one. Runs write packets to paths of their own, and the
comparison of a completed run with its own records (`validate_completed_run`) is proved to
succeed in `WorkflowProofs`. A commitment is what it is computed from.

### IntegrityScan

One audit runs at a time; `pc`, `run` and the locals are its process, `tables` are the cache
and outlive it. The rows and the limits are the context, whose digest keys every table, so
one context is modelled. One action is one transaction:

| Action | Code |
|---|---|
| `StartAudit` | `run_d1_integrity_audit` up to the cache |
| `ReuseRows`, `DiscardRows`, `PutVisibleRows`, `MarkRowsComplete` | `load_or_reconstruct_visible_rows` |
| `ReuseScan` | `near_duplicate_report`, a scan already finished |
| `BeginGeneration`, `FlushFull`, `FlushRest`, `CompleteBucket` | the candidate generation of `_compute_near_pairs` |
| `BeginComparison`, `CompareNext` | its comparison, `commit_comparison_batch` |
| `FinishScan`, `PublishReport` | the phase of the scan, and the report |
| `Crash`, `EditCache` | death of the process, and another hand in the cache |

SimHashes have four bits in two bands, with the same pigeonhole argument as 64 in four: a
pair within `SimhashBands - 1` bits shares a band. Shingling and hashing of tokens are left
out: a row comes with its hash. The value of a hash in a band is the set of its bits, and `Below`
orders such sets as the numbers that they are. Buckets are in the order of `ordered_buckets`,
pairs in that of the loops, so that what a limit cuts off is what the code cuts off.

### CandidateRegistry, EmbeddingRecovery, DiscoveryIteration

`chain` has the payloads of registry and ledger. A client passes its checks (`Request`),
reads the chain again (`ReadChain`) and replaces the file (`WriteChain`); `overlapped`
remembers that a file was written over a content the writer had not seen, which nothing in
the code prevents, and the properties say so in their first line. The hash chain shows a
reader that a file was edited; as nobody edits in the model, it is the sequence itself.

`EmbeddingRecovery` takes a vector to depend on the whole batch it was computed in; it
records the batch, the row, the identity and the device. `cache[fp][r]` is the row of the
database, `held[w]` what a run has assembled. A run has one of three policies, for the three
functions an entrypoint can install:

| Action | Code |
|---|---|
| `StartEmbedding` | `verify_identity_pair`, `embedding_fingerprint` |
| `LookUp` | the `cache.get` loop of either function, one row at a time |
| `StartDirect` | the start of `fixed_batch_embed`, which asks no cache |
| `EmbedDirect` | `fixed_batch_embed` |
| `EmbedPacked` | `embed_partition_with_cache`: the missing rows in batches of their own |
| `EmbedCanonical` | `embed_partition_in_canonical_batches`: the frozen batch, cached rows compared |
| `FinishPartition` | the matrix of a partition |
| `EmbeddingFails`, `DamageCache` | an exception or death, a damaged row |

A batch is one transaction, unless an exception (an interrupt, say) falls between two of its
puts: the `with` block then ends in `close()`, which commits the rows that were put
(`PutPart`). SQLite lets one writer in; a run that waits too long fails.

`DiscoveryIteration` puts them together: `BeginIteration` verifies the registry,
`EvaluateQueries` takes its digest when the embeddings are done, `PublishResult` copies it
and puts the directory in place. `discovery_entrypoint.main` by itself leaves the diagnostics
of the runner, which raise at the first query; the other three entrypoints correct them.

### EmbeddingExtraction

`run[w]` is a run of `run_extraction` with its counters and the vectors it holds; `stored`,
`matrix`, `sidecar`, `final` and `report` are on disk. A vector has the batch it was computed
in, the setup, which is all the fingerprint tells, and a `grade`, which stands for what of a
machine the fingerprint does not tell; `by` is the run that computed it, which no digest shows.

| Action | Code |
|---|---|
| `StartExtraction` | `run_extraction` up to the splits |
| `ReadSidecar`, `LoadChunk`, `VerifyChunk` | `_load_verified_chunk`: the sidecar is read, the matrix loaded, and its file read again for the digest |
| `LookUp`, `EmbedMissing`, `PutRow` | `_cached_batch`, `_get_cached_embedding`, `_put_cached_embedding` |
| `WriteMatrix`, `WriteSidecar` | `_write_chunk`, two files |
| `WriteFinal`, `DigestFinal`, `WriteReport` | the matrix of a split, its digest, the report |
| `StartReview`, `ReadReport`, `CompareRuns` | `verify_independent_runs` |
| `LoadFinal`, `VerifyFinal`, `HashReport` | `_verify_run`: each matrix is loaded and its file hashed; at last the report is read again, for the digest by which the checkpoint names it |
| `ExtractionFails`, `DamageRow`, `DamageFile` | death or exception, damaged rows and files |

`_put_cached_embedding` calls `_ensure_v2_cache`, which commits, so each put commits the one
before; a run that dies in a batch leaves part of it, and a later run computes the rest in a
smaller batch. `torn` remembers that, or a damaged row, or two runs on one database; what is
then still certain is in the other two properties. `LookUp` asks for all rows of a batch in one
step, for only what sets `torn` could change one of them in between. `CheckpointIsReproduced` is
about the reports that were read and compared: the checkpoint names the digests of a later
read, and a report that was replaced in between is named without having been compared.

### MethodEvaluation

The content of a file is what it was computed from: probe predictions have the order of
their rows, the embedding and the labels, pairs the order and the labels of a selection,
scores all of their inputs. Four programs run as `job[w]`, each step one check or one file:

| Action | Code |
|---|---|
| `BeginFit`, `ClearFit` | the guards of `run-option-b-canonical-probe-fit.ps1`, which removes what an earlier fit left |
| `LoadCheckpoint`, `LoadSelection`, `SelectionReproduced`, `HashRows`, `LoadRows`, `HashPrimitives`, `LoadMatrices`, `HashLabels`, `ReadLabels` | `verify_probe_inputs`, one file at a time |
| `PublishFit` | `publish_probe_fit`, one file at a time |
| `ValidateFit`, `CopyArtifact`, `CompareArtifact`, `ReadBundle`, `PublishProbe` | the rest of the script: the fit is validated, its files are copied and compared one by one, and the checkpoint is written |
| `BeginGeneration`, `LoadSplit`, `WriteStreams`, `WriteReport` | `generate_hard_negative_manifest` |
| `BeginEvaluation`, `ReadSelection` | `run_method_evaluation`, `_verify_selection` |
| `VerifyEmbeddings`, `VerifyPredictions` | `_verify_embeddings`, `_verify_predictions` |
| `HashPairReport`, `ReadPairReport`, `HashPairs`, `ReadPairs` | `_verify_manifest`: report and streams are hashed and then read |
| `Score`, `WriteOutput` | the scores and the outputs, one at a time |
| `BeginVerification`, `LoadResult`, `RereadSelection`, `ReverifyEmbeddings`, `ReverifyPredictions`, `RehashPairs`, `RereadPairs`, `CompareScores`, `WriteVerification` | `verify_method_evaluation`, which reads everything again with checks of its own |
| `PublishManifest` | external: the publication of the pairs writes its checkpoint |
| `Reselect`, `EditTable`, `EditPredictions`, `EditPairs`, `Reproduce`, `Die` | the environment |

A selection is read in five steps (`SelectionStep`): report, digests of manifest and table, then
the manifest and the table again. Matrices and predictions are memory-mapped; `Mapped` lets a
file that was rewritten in place after it was hashed change what is scored, while one that was
replaced does not. Pairs are read into memory.

`Scale` and `Oracle` of a table of labels are what the code derives of it: its scaling and
which of two candidates is closer. Three variables are history: `calm[w]` remembers that no file
has changed since the run of `w` began, `overlap` has the programs of which two runs were under
way at a time, and `stale` says that the report of the pairs was once not what its checkpoint
names. One split stands for the three, and the five outputs are four: the environment
file is left out.

## 3. Runs

| Run | Shows |
|---|---|
| `race` | two runs of one request and a run of another race each other, with one edit and two faults: evidence and receipts are true, and the executor implements `OneShotPublication` |
| `live` | an attempt that consumed its authorization concludes with usable evidence; racing attempts do not defeat each other |
| `review` | inspections and closures beside two requests with one edit and one fault, or beside one request with two faults and two inspections that overlap: conclusive reports are true for good and agree, one artifact is closed once |
| `workflow` | three runs of a two-step workflow in contexts that differ in run_id or identity, with up to two kept results |
| `execution` | two runs of one request with a source edit and up to two faults, beside two overlapping inspections: receipts are true, accepted evidence is complete, the review reaches the status the executor ended with |
| `store` | two runs of the family workflow on one store, of one bundle or of different ones, concurrent or one after the other, with up to two stops: phases have their rows, replays are accepted, a bundle decides how its runs end, packets agree |
| `scan` | audits that die twice and resume, each with one of six limits on one of two sets of rows, and an edit of the cache: a complete scan lists every near pair, audits agree, the cursor passes no near pair, an audit ends |
| `discovery` | clients append around an iteration, and iterations of all entrypoints share a cache with two faults: the registry tells one story, results continue it, frozen batches survive |
| `extraction` | up to three extractions that die, resume, share directories or databases and are verified in pairs: fresh runs reuse nothing, resumed ones have the matrices of uninterrupted ones, the checkpoint is of two computations |
| `evaluation` | two fits and their promotion, a generation, two evaluations and a verification, with two files replaced, or one and a death: scores verified while no file changed are those of exactly the files the report and the checkpoints name and match their rows, outputs are of one run |
| `limit`, `mixed` | the findings of section 6 |

Bounds. Every race in the executor is between two processes; three attempts give two
runs of one request and a rival from another at once. Two faults allow a first error and a
second one while it is handled; nothing in the handler is guarded by a third. One edit is
enough for every pair of reads of a file to differ. `Content` has the authorized bytes, a
layout of the same record and bytes that do not parse, which are all the code tells
apart. Two contexts of each kind, two payloads and two kept runs are what splicing
needs: a record of another run, of another identity, and a result that differs. Three
runs allow two sources and a resumed run, or a chain of two resumptions.
`review` has two requests, which is what it takes to close an artifact twice, with one fault
and one inspection at a time, or one request with two faults, the second of which may fall in
the except branch, and two inspections at a time (`MCFocus`, a CONSTRAINT). What an inspection
concludes depends on the files of one request alone, so the two kinds cover what the
properties about one report and about two reports of a request speak of. One closure per
request suffices to close an artifact twice.
In `execution` the two runs share a request, since requests share nothing but the source
files; three steps with the readiness step in the middle give a step before, at and after
the one that blocks; two faults are an error and a second one in the except branch; one
edit separates any two reads of the sources.
In `store` two runs are what a race, a replay and a changed bundle take, and two stops let both
of them end anywhere. Each can have one of two identities and one of seven bundles: a candidate
that awaits its review, one that was rejected, two candidates that join three repositories
in two roles, two dispositions that contradict each other, a disposition nobody asked for
(`Unasked`), a source that is incomplete, and no evidence with a record of missing metadata.
With three repositories and two edges a component can grow twice and cross roles; review-only evidence never connects and behaves as
a rejected candidate does.
In `scan` four rows give a bucket with several pairs of one left row, an oversized bucket for
one of the limits, a pair that shares only one band and a pair of one repository; staging and
comparison in batches of two put limits and deaths between and inside batches. Two deaths fall
in two phases, or in one phase twice.
In `discovery` (`MCFocus`) either clients append around runs that use no cache, or runs share
the cache with the registry as the plan wants it: the two halves have no state in common, and
what a client does during the embedding it can do before its first batch. After two appends
overlapped nothing is claimed of the file, and such states are not gone on from. Batches of two
over partitions of three, one and one rows give a full batch and padded ones; three entries are
two registrations and a later entry.
In `extraction` (`MCFocus`) there are three runs of one machine in one directory and database
with two faults; two runs of two setups with one fault; three runs without faults that are
verified when both directories have a report; or two runs at a time in one directory. Between
them each of the run's three stores is left by one run, damaged and found by another.
In `evaluation` four selections differ from one of them in the order of rows, in the oracle
or in the scaling, and until the first edit the selection is the one they differ from. Fits and
generations run alone (`MCFocus`), evaluations and verifications next to anything.
Two edits replace an input and bring it back, or replace two inputs; a death stands in for one
of them. A second evaluation needs a death or an overlap before it; the model has both.
The bounds of the proofs are none: they hold for all values of the constants.

A CONSTRAINT leaves the states outside it unexplored but not unchecked: TLC checks every
state it generates and does not go on from those outside.

Deadlock is not checked (`CHECK_DEADLOCK FALSE`): attempts end, and when every attempt
or run has ended nothing remains to be done.

The type invariants have no run, for a run spends its time on what could be wrong. Type
correctness is proved for the publication executor and its review, the family execution and
its review, and the store with its runs.

Symmetry is used for the two interchangeable runs of the first request in `race`, for the two
requests together with their directories and for the inspectors in `review`, for
the runs and the inspectors in `execution`, the runs and the identities in `store`, workers
and clients in `discovery`, directories and databases in `extraction`, workers in
`evaluation`, and for run ids, identities and payloads, where only invariants and action properties are checked and
where no definition singles an element out; `live` and `scan`, which have temporal properties, have none.

Fairness. `FairSpec` has weak fairness of `Advance(a)` for every attempt: a process
that was started keeps running. Nobody has to start an attempt, I/O errors, crashes and
edits are never forced, and the liveness properties are conditional on their absence.
The code has no loop that waits for another process, so nothing stronger is needed. `ScanSpec`
has weak fairness of `ScanStep`, the next step of the audit that runs; deaths and edits are
not fair, and `AuditEnds` holds because an audit that keeps running waits for nobody and every
loop of it advances a position or a cursor.

Every property of a passing run has a mutant, an operator next to the definition it
mutates, that a plausible slip in the code would amount to.

## 4. Theorems

`PublicationProofs` proves, for any set of attempts and directories, any contents and any
number of edits and faults (assumptions: `WorkDir` is a function into the audit
directories, `NoBytes` is not a content, `Exact` is neither reformatted nor malformed,
bounds are natural numbers, `Authorized` is a set of attempts):

* `Invariance`: `Spec => []IInv`, and from it `TypeCorrect`, `OneShotEvidence`,
  `ClaimBehindArtifact`, `TruthfulReceipts`, `NoOverclaim`;
* `WriteOnce`: no step replaces or removes an existing canonical file;
* `Refinement`: `Spec => ImplementsOneShot`.

The safety properties are not inductive. That a receipt is true needs to be known when the
receipt is written, several steps after the destination was verified; in between other
attempts run. `IInv` therefore says for each program counter how many events were
appended, whose claim is on disk, what an attempt knows of the bytes it read, and which
evidence files its directory may hold; `DestinationInv` ties the destination to the one
link that succeeded, and `EvidenceHasOneAuthor` itself keeps the steps of two attempts
from disturbing the same directory. The proof has one lemma for each part of `IInv` and
in it a step for each action that can disturb that part.

The refinement maps an attempt to `created` exactly when its link succeeded and it still
runs, even while its except branch runs. `ConsumeAuditDir` maps to `Claim`,
`LinkDestination` to `Create`, `WriteReceipt` to `Complete`, the ends of an attempt to
`End`, and every other step stutters.

About the review it proves the six properties of `review`, for any requests, inspectors, faults and
edits (assumptions: those of the executor, `NoDir` is no audit directory, the bound on closures
is natural):

* `ReviewInvariance`: `ReviewSpec => []RInv`, and from it `ReviewTypeCorrect`,
  `CompletedReports`, `FailedReports`, `PartialReports`, `Agreement`, `ClosedOnce`,
  `StableVerdict`.

An inspection reads five files one after the other and the trace twice, so `RInv` says of what
it has `seen` what it still implies of the directory now: files stay once they are there, a failed trace
comes after its failure record, and behind a failure record no receipt is written and nothing is
created any more (`TraceInv`, `InspectionInv`). The
executor's `IInv` is used as it is; `StepInv` carries it over the steps
that the two specifications share.

`WorkflowProofs` proves for workflows of any length, any contexts and payloads, any number of
runs and kept results (assumptions: at least one step, natural bounds; that commitments
have no collisions is how they are modelled):

* `Invariance`: `Spec => []WInv`;
* `OnlyExecutedRecords`, `CompletedRunsValidate`, `NoFalseRejection`.

`RecordsWereExecuted` is not inductive because a resumed run takes its records from a
checkpoint anyone may have altered. `WInv` adds that the output commitment of every record of
a run or of a kept result was computed from its step, input and result and that this
execution took place (`Authentic`), and that kept chains recompute (`Chained`).
`PresentedIsKept` shows that no alteration produces a new commitment, and
`AcceptedIsAuthentic` that a record that passes `ValidResume` then has the result and
context of the execution its commitments come from.

`DiscoveryProofs` proves, for any clients, candidates, plans, workers, partitions, identities
and output directories and any bounds (no assumption is used for these):

* `Invariance`: `IterationSpec => []DInv`;
* `OneStory`, `ResultsContinue`, `PlanFirst`.

`RegistryTellsOneStory` is not inductive: an entry is written two steps after it was checked.
`DInv` keeps with every append what it was checked against (`RegistryInv`): a client that does
not overlap with another one writes its entry right behind the entries it was checked against.
The registry then only grows (`Grows`), and what a run verified, hashed and copied stays a
prefix of it (`RunsInv`, `ResultsInv`).

About the embedding, whose `RecoveryAssumption` it uses (three partitions, each row listed once,
a positive batch size), it proves:

* `EmbeddingInvariance`: `IterationSpec => []EmbeddingInv`;
* `OwnIdentity`, `FrozenBatchesKept`.

That an intact vector in the cache is of its frozen batch (`CacheInv`) holds for a fingerprint
only until `embed_partition_with_cache` puts to it, so `EmbeddingInv` has it under that
condition, for the cache and for what each run holds (`HeldInv`), and what a run holds must not
depend on the cache any more. `Assembled` says which rows have their vectors. The arithmetic of
batches is in lemmas: `BatchCovers` and `BatchUnique` say that each row is in one frozen batch,
`StepOf` that the canonical policy finds it, `MinIsLeast` that a set of numbers has its least.

`ExecutionProofs` proves for executions of workflows of any length, any numbers of attempts,
inspectors, faults and edits (assumptions: `WorkDir` is a function into the staging directories,
the readiness step is one of the steps, `Authorized` is a set of attempts, natural bounds, `NoDir`
is no staging directory):

* `Invariance`: `ReviewSpec => []ReviewInv`, and from it `TypeCorrect`, `ConsumedOnce`,
  `TruthfulReceipts`, `CompleteAcceptance`, `NoContradiction`, `EndsAreClassified`.

`ExecInv` says for each step of an attempt which files its directory holds and what they, the
records of the run and the store agree on. `Lasting` is the part every other process can rely on:
files stay, receipt and store are final, a directory with a failure record gets no packet any
more. `SeenInv` and `ReportsInv` carry that to what an inspection read and reported.

`EvaluationProofs` proves, for any selections, workers and edits and with no assumption:

* `Invariance` (`EInv`) and `OneRun`: as long as evaluations of one directory do not overlap,
  the outputs up to the one that a run writes next are those of its inputs, and the ones after it
  do not exist;
* `ScoresInvariance` (`ScoresInv`), and from it `FrozenInputs`, `MatchingRows`.

A verification compares digests and recomputes the scores, and compares the rows of the pairs,
but neither those of the predictions nor the oracle nor the scaling. `MatchInv` therefore follows
what an evaluation has compared up to each of its stages until the scores are written; from
then on any process may read them. `RowsInv` is about the fits: as long as they do not overlap,
all that a fit wrote or promoted is of the rows it read, so the published predictions are of the
rows that their checkpoint names. `StaleInv` keeps the report of the pairs together with the one
that the checkpoint names. `MatchingRows` leaves out the labels that the predictions were
fitted to and the selection of the matrices: no program compares them. `VerifiedInv` says what a
verification knows for as long as no file changes (`Knows`); `Minds` is what a step of another
job can do to that.

`FamilyProofs` proves for any finite sets of repositories and candidates and any rules
(assumptions: a candidate has two ends, a rule and a source; there is a repository):

* `ComponentsAreRight`: `Components` partitions the repositories into blocks that no connecting
  edge leaves, each within any set that it meets and that no connecting edge leaves;
* `ComponentsAreFamilies`: on undisputed evidence they are the `Families` of the protocol.

`Components` is a fold over a set. The module unfolds the fold of the community module into one
union after the fold over the other edges (`BlocksUnfold`). It then argues by the smallest set of
edges for which the claim would be false, which a finite set has (`Smallest`, by the
well-foundedness of strict inclusion): an induction that needs no theorem with an operator
parameter. `UnionAddsEdge` is its step.

About the runs it proves, for any runs, identities, bundles and any number of stops (assumptions:
those on candidates; the bundles are valid, so their rows are rows of the tables, each source
is there once and a disposition is of a candidate in the bundle):

* `FamilyInvariance`: `Spec => []FInv`, and from it `FamilyTypeCorrect`, `RowsBehindPhases`,
  `PacketAgreement`, `Replay`, `BundleAlone`.

`GeneralInv` holds whatever the runs are given: a phase is committed once, its rows are in the
store, and a run past the prepared evidence finds its own bundle committed. It is what makes any
two packets the same. `ReplayInv` is about runs of one plan: the store then holds only parts of
the one result that the bundle decides (`StoreInv`), and each run knows at each step which of
them are complete (`FoundInv`) and that it computed the same (`ComputedInv`). Every check that
could refuse a run compares one of these with another, so none does. `Glue` says once what a step
leaves to the other runs, `CommitGlue` what committing a phase does; the rest is a lemma for each
action.

`ScanProofs` proves for any rows, limits and batch sizes, any banding and any number of deaths
and edits (assumptions: the bands divide the width of a hash, rows are in the order the code
sorts them in and have keys of their own, the radius is below the number of bands, as
`MAX_EXHAUSTIVE_SIMHASH_RADIUS` has it, limits and batch sizes are positive):

* `ScanInvariance`: `ScanSpec => []ScanInv`;
* `CompleteScans`, `Agreement` (both, as the properties say, under an ample candidate limit) and
  `CursorCovers`.

That a complete scan is exhaustive has two halves. `NearSharesBand` is the pigeonhole: two hashes
that differ in fewer bits than there are bands agree in a band, for otherwise the bands would
inject into the bits; so the pairs of the buckets include all near ones
(`NearWantedIsExhaustive`). The other half is what the process knows while it runs. The tables are
described by positions: the generation has put the pairs of the buckets before `pos`
(`Generated`), the comparison has stored the near pairs up to the cursor (`NearUpTo`), in the
table and in the process that may die. The second needs that no candidate appears behind the
cursor: once there is a comparison checkpoint, a resumption finds nothing to generate (`Over`).
`Final` is what a finished scan may then say. It determines the pairs (`FinalIsUnique`): near
pairs are an initial part of the order, all of them or as many as the limit. The orders of
buckets and pairs are proved to be total, and lists made from them to be complete (`RankedLists`).

`ExtractionProofs` proves for any splits, setups, machines, directories and databases and any
number of runs and faults (assumptions: there is a split and none is empty, a row is listed once
in the selection, batch sizes are positive, the value for "no database" is none):

* `ExtractionInvariance`: `ExtractionSpec => []ExtractionInv`;
* `FreshRuns`, `Reuse` (as the property says, while `torn` is false) and `Reproduced`.

A report is written long after its vectors were looked up, loaded or computed, so the invariant
says at each stage of a run which chunks it has (`HeldInv`) and which matrices (`MatricesInv`),
under the condition `Sound`: that nothing tore a batch, or that the mode reads nothing, in
which case the vectors are also the run's own (`MayHold`). What a run that reads may find is known
from the other two stores. A database has a chunk whole or not at all, but for the one that its
only user puts (`AloneInv`, `StoredInv`), and `PutInv` says how far that has come: the rows up to
a position are stored, and those behind it all or none. So the missing rows of a batch are all of
it or none (`SelectedAll`, `SelectedNone`), and a run that dies between two puts is what sets
`torn`. A chunk file may be damaged, but then its sidecar does not have its digest, and a sidecar
is of a whole batch (`FilesInv`). That the chunks of a split are its rows, each once, is in
`ChunkCovers` and `ChunkUnique`. `Reproduced` needs in addition that a run and its reports are
known by their identity (`IdInv`): two reports over different databases are of different runs.

`IInv`, `WInv`, `DInv`, `EmbeddingInv`, `RInv`, `ReviewInv`, `EInv`, `ScoresInv`, `FInv`,
`ScanInv` and `ExtractionInv` are proved and have no run: the runs check what they imply, and are
for the same specifications.

Model-checked only: the liveness properties (temporal reasoning under fairness).

## 5. Not modelled

Stage 2J authorization is modelled as far as the executor calls it. The records of
authorization, review and publication are immutable values checked by digests; the
models use whether a chain is valid. Serialisation has no state. The command line is modelled
where it does more than call one function: the noncanonical run, in `FamilyWorkflow`.

Of the experiments, what computes without state that outlives the process is left out: the
methods, probes, selective baselines, mechanism harness and diagnostics (numerical), the
selection of rows and the embedding preflight, the allocation of repositories, the overlap
classification and the family-connected protocol (one computation, one bundle of files), and
E00 and E01 with their audits and verification. `option_b_embeddings.py` and the cache class
of `option_b_cache.py` are modelled as far as the hardened extraction uses them, and
`option_b_predicted_executor.py` and `option_b_probe_cli.py` as the probe runner calls them.

Two processes that audit with one cache file are left out of `IntegrityScan`: SQLite keeps
their transactions apart and nothing else does, and no document speaks of it. The cache edits
there happen between audits, when the scan is finished.

## 6. Findings

Each has a run that violates what the repository says.

* `limit`: when the table of candidate pairs is full, `put_candidate_pairs` cuts off the pairs
  that do not fit, among them those of its batch that follow pairs already present, and the
  loop passes over the rest of the left row; a resumed audit has forgotten a truncation. The
  scan then calls itself complete and a near-duplicate pair is missing, although the report
  says of its bounds that "any skip or truncation marks the scan incomplete".
* `mixed`: the fingerprint of the embedding cache does not tell the two recovery entrypoints
  apart. The first computes missing rows in batches of their own; the second, which promises to
  preserve the frozen batches, takes a batch as it is when all of its rows are cached, and a
  run of it that found a disagreement has filled the batch up with its other rows.

Disagreements seen while modelling, without a run:

* The executor of the publication publishes the bytes of its first read of the candidate and
  checks the digest of its second and third (`family/canonical_publication.py:750-751`, `:808`).
  A file rewritten in between is published with a layout nobody authorized; the digest of the
  destination then fails, but the file stays. The runbook says it publishes exactly the bytes
  of the candidate file (`docs/runbooks/option-c0-one-shot-canonical-publication.md:3-4`).
* When `os.link` succeeded and the `fsync` after it raised (`evidence/atomic_io.py:83`), the
  failure record says the canonical file was created and the trace lacks the creation event;
  the review rejects the evidence (`family/canonical_publication_review.py:612-613`), although
  the runbook has a status for this case.
* Resume validation checks the status of a record (`workflows/runner.py:224`) but not that of
  its result, which is the one the commitment binds: a blocked step, relabelled, passes as
  completed. `validate_completed_run` checks both, and `CompletedRunValidates` excepts it.
* The executor of the family workflow writes packet and receipt inside its try block and before
  the trace (`family/execution.py:497-523`). An execution that raises after one of them leaves
  it beside the failure record, although the runbook says a failed execution writes neither.
* Nothing but the phase of the prepared evidence, and rows with the same key, keeps runs of
  different bundles apart on one store (`family/workflow/steps.py:255`): a run that stops
  between its rows and that phase leaves rows that a run of another bundle resolves with its
  own. The migration notes say a changed bundle must not reuse populated durable state.
* The evaluation compares the matrices with the digests in the reproduction checkpoint, but not
  the selection that this checkpoint names with the one it scores
  (`experiments/option_b_method_evaluation.py:280-325`). Embeddings of another selection with as
  many rows pass, where `docs/research/option-b-method-evaluation-runner-2026-08-02.md:24` has it
  verify the reproduced embedding checkpoint "and all selected-row identities before calculating
  any method score". The probe fit does compare the two selections. In the model, `Reselect`,
  `Reproduce` and `Reselect` back lead to scores that are verified on matrices of other rows (one
  edit more than the run has); the properties of `evaluation` therefore say nothing of whose
  rows the matrices are.
* A step that returns something other than a `StepResult` (`ReturnWrongType`) leaves its
  `STEP_STARTED` event without a concluding one, where
  `docs/architecture/migration-status.md:850-852` has a `STEP_FAILED` event.

## 7. Plan

In this order:

1. The allocation bundle of `option_c0_data_firewall.py` and the overlap classification that
   reads the audit's cache: files published one by one, and read while an audit writes.
2. Stage 2J authorization and the execution authorization as modules of their own: which
   chains of records lead to an executable request, composed with the executors.
3. The evaluation metrics against reference definitions.
