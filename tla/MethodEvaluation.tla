--------------------------- MODULE MethodEvaluation ---------------------------
(***************************************************************************)
(* The evidence chain of Option B: primitive probes are fitted to the      *)
(* reproduced embeddings, hard-negative pairs are generated from the       *)
(* selection, the methods are scored once, and the scores are recomputed   *)
(* by a second program (experiments/option_b_probe_runner.py,              *)
(* option_b_hard_negative_manifest.py, option_b_method_evaluation.py,      *)
(* option_b_method_evaluation_independent.py).                             *)
(*                                                                         *)
(* Every stage checks the digests of its input files, and most hash a file *)
(* and read it again afterwards.  The content of a file is what it was     *)
(* computed from, and a digest stands for what it is the digest of; the    *)
(* splits are one, and every selection has the same number of rows.        *)
(***************************************************************************)
EXTENDS Integers, Sequences, FiniteSets

CONSTANTS
    Worker,      \* processes
    Order,       \* orders of the rows, by stable key
    Labels,      \* tables of true primitives
    Scale,       \* of a table: the robust scaling of its train split
    Oracle,      \* of a table: which of two candidates of a pair is closer
    Selected,    \* the selections that a checkout can bring
    Unread,      \* what a run has not read yet
    MaxRuns,     \* per program: bound on its runs
    MaxEdits,    \* bound on replacements of input files
    MaxDeaths    \* bound on runs that die

Program == {"fit", "generate", "evaluate", "verify"}
Selection == [order : Order, labels : Labels]

ASSUME EvaluationAssumption ==
    /\ DOMAIN Scale = Labels /\ DOMAIN Oracle = Labels
    /\ Selected \subseteq Selection /\ Selected # {}
    /\ MaxRuns \in [Program -> Nat] /\ MaxEdits \in Nat /\ MaxDeaths \in Nat

VARIABLES
    report,      \* the selection report: the digests of the two files below
    manifest,    \* the selected manifest: an order
    table,       \* the primitive table: an order and labels
    embedding,   \* the matrices: the order of their rows
    reproduced,  \* the reproduction checkpoint
    fitted,      \* files of the probe fit
    canonical,   \* their promoted copies
    probe,       \* the probe publication checkpoint, none or one
    generated,   \* files of the hard-negative manifest
    published,   \* the hard-negative publication checkpoint, none or one
    output,      \* files of the evaluation
    verification, \* the independent verification, none or one
    job,         \* per worker: its run, none or one
    calm,        \* history, per worker: no file changed since its run began
    overlap,     \* history: the programs of which two runs were under way at a time
    stale,       \* history: the report of the pairs was not what its checkpoint names
    runs, edits, deaths

selectionVars == <<report, manifest, table>>
probeVars == <<fitted, canonical, probe>>
pairVars == <<generated, published, stale>>
fileVars == <<selectionVars, embedding, reproduced, probeVars, pairVars, output, verification>>
evaluationVars == <<fileVars, job, calm, overlap, runs, edits, deaths>>

FitFile == <<"train_candidates", "test_queries", "bundle">>
PairFile == <<"queries", "pairs", "report">>
OutputFile == <<"scores", "query_metrics", "result", "compact">>
None(files) == [k \in 1..Len(files) |-> {}]

EvaluationInit == \E s \in Selected :
    /\ report = s /\ manifest = s.order /\ table = s
    /\ embedding = s.order /\ reproduced = [selection |-> s, embedding |-> s.order]
    /\ fitted = None(FitFile) /\ canonical = None(FitFile) /\ probe = {}
    /\ generated = None(PairFile) /\ published = {} /\ stale = FALSE
    /\ output = None(OutputFile) /\ verification = {}
    /\ job = [w \in Worker |-> {}] /\ calm = [w \in Worker |-> FALSE]
    /\ overlap = {} /\ runs = [p \in Program |-> 0] /\ edits = 0 /\ deaths = 0

-----------------------------------------------------------------------------
(* Steps of a run.  A check that fails raises and ends the run.            *)

Begins(w, x) ==
    /\ job[w] = {} /\ runs[x.program] < MaxRuns[x.program]
    /\ job' = [job EXCEPT ![w] = {x}]
    /\ runs' = [runs EXCEPT ![x.program] = @ + 1]
    /\ calm' = [calm EXCEPT ![w] = TRUE]
    /\ overlap' = overlap \cup {p \in {x.program} : \E v \in Worker : \E y \in job[v] :
                                                      y.program = p}
    /\ UNCHANGED <<fileVars, edits, deaths>>

\* The run of w, when it is one of program at stage.
At(w, program, stage) == {x \in job[w] : x.program = program /\ x.stage = stage}

Goes(w, ok, x) == job' = [job EXCEPT ![w] = IF ok THEN {x} ELSE {}]

Reads == UNCHANGED <<fileVars, calm, overlap, runs, edits, deaths>>

\* A run that has replaced its next file goes to the one after, past the last to then.
After(x, last, then) == IF x.next = last THEN then ELSE {[x EXCEPT !.next = @ + 1]}

\* A file was replaced; the run goes on as one of next, or ends.
Writes(w, next) ==
    /\ job' = [job EXCEPT ![w] = next]
    /\ calm' = [v \in Worker |-> FALSE]
    /\ UNCHANGED <<overlap, runs, edits, deaths>>

-----------------------------------------------------------------------------
(* Reading the selection.  Both files are hashed before either is read.    *)

\* The files of the selection have the digests of its report.
SelectionMatches(s) == manifest = s.order /\ table = s

LoadReport(w, program) == \E x \in At(w, program, "report") :
    Goes(w, TRUE, [x EXCEPT !.stage = "manifest", !.selection = report])

HashManifest(w, program) == \E x \in At(w, program, "manifest") :
    Goes(w, manifest = x.selection.order, [x EXCEPT !.stage = "table"])

HashTable(w, program) == \E x \in At(w, program, "table") :
    Goes(w, table = x.selection, [x EXCEPT !.stage = "rows"])

ReadRows(w, program) == \E x \in At(w, program, "rows") :
    Goes(w, TRUE, [x EXCEPT !.stage = "primitives", !.selection.order = manifest])

\* The rows of the table must be those of the manifest.
ReadPrimitives(w, program, after) == \E x \in At(w, program, "primitives") :
    Goes(w, table.order = x.selection.order, [x EXCEPT !.stage = after, !.selection = table])

SelectionStep(w, program, after) ==
    /\ \/ LoadReport(w, program) \/ HashManifest(w, program) \/ HashTable(w, program)
       \/ ReadRows(w, program) \/ ReadPrimitives(w, program, after)
    /\ Reads

-----------------------------------------------------------------------------
(* Fitting the probes and promoting the fit, which is done once            *)
(* (run_probe_fit, run-option-b-canonical-probe-fit.ps1).                  *)

NotPromotedYet == canonical = None(FitFile) /\ probe = {}

BeginFit(w) ==
    /\ NotPromotedYet
    /\ Begins(w, [program |-> "fit", stage |-> "clear", next |-> 1, inputs |-> {}])

ClearFit(w) == \E x \in At(w, "fit", "clear") :
    /\ fitted' = None(FitFile)
    /\ Writes(w, {[x EXCEPT !.stage = "load"]})
    /\ UNCHANGED <<selectionVars, embedding, reproduced, canonical, probe, pairVars, output,
                   verification>>

\* What a fit has read so far.
NothingRead == [checkpoint |-> Unread, frozen |-> Unread, order |-> Unread, embedding |-> Unread,
                labels |-> Unread]

\* The run takes a step in which it reads: i is what it knows then.
FitReads(w, ok, x, stage, i) ==
    Goes(w, ok, [x EXCEPT !.stage = stage, !.inputs = {i}]) /\ Reads

LoadCheckpoint(w) == \E x \in At(w, "fit", "load") :
    FitReads(w, TRUE, x, "report", [NothingRead EXCEPT !.checkpoint = reproduced])

LoadSelection(w) == \E x \in At(w, "fit", "report") : \E i \in x.inputs :
    FitReads(w, TRUE, x, "named", [i EXCEPT !.frozen = report])

\* The selection is the one that the reproduction checkpoint names.
SelectionReproduced(w) == \E x \in At(w, "fit", "named") : \E i \in x.inputs :
    FitReads(w, report = i.checkpoint.selection, x, "manifest", i)

HashRows(w) == \E x \in At(w, "fit", "manifest") : \E i \in x.inputs :
    FitReads(w, manifest = i.frozen.order /\ manifest = i.checkpoint.selection.order, x, "rows", i)

\* The rows that are read must be those of the checkpoint, too.
LoadRows(w) == \E x \in At(w, "fit", "rows") : \E i \in x.inputs :
    FitReads(w, manifest = i.checkpoint.selection.order, x, "table", [i EXCEPT !.order = manifest])

HashPrimitives(w) == \E x \in At(w, "fit", "table") : \E i \in x.inputs :
    FitReads(w, table = i.frozen, x, "matrix", i)

\* The matrices in memory must be those of the checkpoint; their files and the report of
\* their extraction are checked as well, which can only end the run.
LoadMatrices(w) == \E x \in At(w, "fit", "matrix") : \E i \in x.inputs :
    FitReads(w, embedding = i.checkpoint.embedding, x, "hash", [i EXCEPT !.embedding = embedding])

HashLabels(w) == \E x \in At(w, "fit", "hash") : \E i \in x.inputs :
    FitReads(w, table = i.frozen, x, "read", i)

ReadLabels(w) == \E x \in At(w, "fit", "read") : \E i \in x.inputs :
    FitReads(w, table.order = i.order, x, "write", [i EXCEPT !.labels = table.labels])

\* The three outputs are one function of what was read.
Fit(i) == [order |-> i.order, labels |-> i.labels, embedding |-> i.embedding]

PublishFit(w) == \E x \in At(w, "fit", "write") : \E i \in x.inputs :
    /\ fitted' = [fitted EXCEPT ![x.next] = {Fit(i)}]
    /\ Writes(w, After(x, Len(FitFile), {[x EXCEPT !.stage = "validate", !.next = 1]}))
    /\ UNCHANGED <<selectionVars, embedding, reproduced, canonical, probe, pairVars, output,
                   verification>>

\* The predictions are those that the bundle names.
ValidateFit(w) == \E x \in At(w, "fit", "validate") :
    /\ Goes(w, fitted[3] # {} /\ fitted[1] = fitted[3] /\ fitted[2] = fitted[3],
            [x EXCEPT !.stage = "copy"])
    /\ Reads

\* The bundle is promoted first.
Promoted == <<3, 1, 2>>

CopyArtifact(w) == \E x \in At(w, "fit", "copy") :
    /\ LET k == Promoted[x.next] IN canonical' = [canonical EXCEPT ![k] = fitted[k]]
    /\ Writes(w, {[x EXCEPT !.stage = "compare"]})
    /\ UNCHANGED <<selectionVars, embedding, reproduced, fitted, probe, pairVars, output,
                   verification>>

CompareArtifact(w) == \E x \in At(w, "fit", "compare") :
    /\ LET k == Promoted[x.next]
           last == x.next = Len(FitFile)
       IN  Goes(w, canonical[k] = fitted[k] /\ canonical[k] # {},
                [x EXCEPT !.stage = IF last THEN "bundle" ELSE "copy",
                          !.next = IF last THEN @ ELSE @ + 1])
    /\ Reads

\* The promoted bundle is read for the order of the rows; the promoted predictions are
\* compared with those of the fit once more.
ReadBundle(w) == \E x \in At(w, "fit", "bundle") :
    /\ Goes(w, canonical[3] # {} /\ \A k \in 1..2 : canonical[k] = fitted[k],
            [x EXCEPT !.stage = "publish", !.inputs = canonical[3]])
    /\ Reads

\* The checkpoint names the digests of the promoted files.
PublishProbe(w) == \E x \in At(w, "fit", "publish") :
    /\ \E i \in x.inputs, train \in canonical[1], test \in canonical[2], bundle \in canonical[3] :
         probe' = {[files |-> <<train, test, bundle>>, rowOrder |-> i.order]}
    /\ Writes(w, {})
    /\ UNCHANGED <<selectionVars, embedding, reproduced, fitted, canonical, pairVars, output,
                   verification>>

-----------------------------------------------------------------------------
(* Generating the pairs (generate_hard_negative_manifest).                 *)

\* A directory with any of the three files is refused.
NotGeneratedYet == generated = None(PairFile)

BeginGeneration(w) ==
    /\ NotGeneratedYet /\ probe # {}
    /\ Begins(w, [program |-> "generate", stage |-> "report", next |-> 1, selection |-> Unread])

LoadSplit(w) == SelectionStep(w, "generate", "write")

\* The pairs that a selection gives, query by query.
PairsOf(s) == [order |-> s.order, labels |-> s.labels]

\* The report of the pairs is what the checkpoint names, now or ever.
KeepsReport == stale' = (stale \/ \E c \in published : generated'[Len(PairFile)] # {c.report})

\* The queries and the pairs are replaced one after the other, then the report.
WriteStreams(w) == \E x \in At(w, "generate", "write") :
    /\ x.next < Len(PairFile)
    /\ generated' = [generated EXCEPT ![x.next] = {PairsOf(x.selection)}]
    /\ Writes(w, After(x, Len(PairFile), {}))
    /\ UNCHANGED <<selectionVars, embedding, reproduced, probeVars, published, stale, output,
                   verification>>

WriteReport(w) == \E x \in At(w, "generate", "write") :
    /\ x.next = Len(PairFile)
    /\ generated' = [generated EXCEPT ![x.next] = {PairsOf(x.selection)}]
    /\ KeepsReport
    /\ Writes(w, {})
    /\ UNCHANGED <<selectionVars, embedding, reproduced, probeVars, published, output,
                   verification>>

\* External: the checkpoint names the digests of the three files.
PublishManifest ==
    /\ published = {} /\ \A k \in 1..Len(PairFile) : generated[k] # {}
    /\ published' = {[queries |-> q, pairs |-> p, report |-> r] :
                        q \in generated[1], p \in generated[2], r \in generated[3]}
    /\ calm' = [w \in Worker |-> FALSE]
    /\ UNCHANGED <<selectionVars, embedding, reproduced, probeVars, generated, stale, output,
                   verification, job, overlap, runs, edits, deaths>>

-----------------------------------------------------------------------------
(* Evaluating the methods (run_method_evaluation).                         *)

\* Mutant: the last file written stands for all five.
NotEvaluatedYetLast == output[Len(OutputFile)] = {}

NotEvaluatedYet == output = None(OutputFile)

BeginEvaluation(w) ==
    /\ NotEvaluatedYet
    /\ Begins(w, [program |-> "evaluate", stage |-> "report", next |-> 1, selection |-> Unread,
                  inputs |-> {}])

ReadSelection(w) == SelectionStep(w, "evaluate", "embeddings")

\* The matrices are those that the reproduction checkpoint names.
EmbeddingsVerified == embedding = reproduced.embedding

\* The selection that the checkpoint names is not compared.
VerifyEmbeddings(w) == \E x \in At(w, "evaluate", "embeddings") :
    /\ Goes(w, EmbeddingsVerified,
            [x EXCEPT !.stage = "predictions", !.inputs = {[embedding |-> embedding]}])
    /\ Reads

\* Mutant: the order of the rows is not compared.
SameRowsAny(c, order) == TRUE

SameRows(c, order) == c.rowOrder = order

\* The bundle and the predictions of both roles are those that the checkpoint names.
PredictionsVerified(c) == \A k \in 1..Len(FitFile) : canonical[k] = {c.files[k]}

VerifyPredictions(w) == \E x \in At(w, "evaluate", "predictions") : \E i \in x.inputs :
    /\ \/ \E c \in probe :
            Goes(w, PredictionsVerified(c) /\ SameRows(c, x.selection.order),
                 [x EXCEPT !.stage = "negatives",
                           !.inputs = {[embedding |-> i.embedding,
                                        predictions |-> <<c.files[1], c.files[2]>>]}])
       \/ probe = {} /\ Goes(w, FALSE, x)
    /\ Reads

HashPairReport(w) == \E x \in At(w, "evaluate", "negatives") :
    /\ Goes(w, \E c \in published : generated[3] = {c.report},
            [x EXCEPT !.stage = "scaling"])
    /\ Reads

ReadPairReport(w) == \E x \in At(w, "evaluate", "scaling") : \E i \in x.inputs :
    /\ \E r \in generated[3] :
         Goes(w, TRUE, [x EXCEPT !.stage = "pairs",
                                 !.inputs = {[embedding |-> i.embedding,
                                              predictions |-> i.predictions, report |-> r]}])
    /\ Reads

HashPairs(w) == \E x \in At(w, "evaluate", "pairs") :
    /\ Goes(w, \E c \in published : generated[1] = {c.queries} /\ generated[2] = {c.pairs},
            [x EXCEPT !.stage = "streams"])
    /\ Reads

\* Mutant: the scaling of the pairs is taken for that of the table.
SameScalingAny(r, labels) == TRUE

\* The scaling in the report of the pairs is that of the table.
SameScaling(r, labels) == Scale[r.labels] = Scale[labels]

\* The streams are read once more, the pairs under a digest of what is read: both are
\* of the selected rows.
ReadPairs(w) == \E x \in At(w, "evaluate", "streams") : \E i \in x.inputs :
    /\ \E c \in published, q \in generated[1] :
         Goes(w, /\ q.order = x.selection.order
                 /\ generated[2] = {c.pairs} /\ c.pairs.order = x.selection.order
                 /\ SameScaling(i.report, x.selection.labels),
              [x EXCEPT !.stage = "score",
                        !.inputs = {[selection |-> x.selection, embedding |-> i.embedding,
                                     predictions |-> i.predictions, pairs |-> c.pairs]}])
    /\ Reads

\* Every pair is ordered by the labels as the oracle ordered it, or the run fails.
OracleIsExact(i) == Oracle[i.pairs.labels] = Oracle[i.selection.labels]

\* Matrices and predictions are mapped into memory: a file that is rewritten in place
\* after it was hashed changes what is scored, one that is replaced does not.
Mapped(i) ==
    {[selection |-> i.selection, embedding |-> e, predictions |-> <<a, b>>, pairs |-> i.pairs] :
        e \in {i.embedding, embedding},
        a \in {i.predictions[1]} \cup canonical[1], b \in {i.predictions[2]} \cup canonical[2]}

Score(w) == \E x \in At(w, "evaluate", "score") : \E i \in x.inputs : \E j \in Mapped(i) :
    /\ Goes(w, OracleIsExact(j), [x EXCEPT !.stage = "write", !.inputs = {j}])
    /\ Reads

\* The primary scores and the metrics of the queries are functions of the inputs; the
\* metrics read the maps after the scores did, one reading stands for both.
Scores(i) == i
QueryMetrics(i) == i

\* The result names the scores by the digest of the array and by that of the file;
\* the decision is a function of the scores.  The environment file is left out.
Content(x, i) ==
    CASE x.next = 1 -> Scores(i)
      [] x.next = 2 -> QueryMetrics(i)
      [] x.next = 3 -> [scores |-> Scores(i), file |-> output[1], metrics |-> QueryMetrics(i)]
      [] x.next = 4 -> [result |-> output[3]]

WriteOutput(w) == \E x \in At(w, "evaluate", "write") : \E i \in x.inputs :
    /\ output' = [output EXCEPT ![x.next] = {Content(x, i)}]
    /\ Writes(w, After(x, Len(OutputFile), {}))
    /\ UNCHANGED <<selectionVars, embedding, reproduced, probeVars, pairVars, verification>>

-----------------------------------------------------------------------------
(* Recomputing the scores (verify_method_evaluation).                      *)

BeginVerification(w) ==
    /\ verification = {}
    /\ Begins(w, [program |-> "verify", stage |-> "result", result |-> {},
                  selection |-> Unread, inputs |-> {}])

LoadResult(w) == \E x \in At(w, "verify", "result") :
    /\ Goes(w, output[3] # {}, [x EXCEPT !.stage = "report", !.result = output[3]])
    /\ Reads

RereadSelection(w) == SelectionStep(w, "verify", "embeddings")

ReverifyEmbeddings(w) == \E x \in At(w, "verify", "embeddings") :
    /\ Goes(w, EmbeddingsVerified,
            [x EXCEPT !.stage = "predictions", !.inputs = {[embedding |-> embedding]}])
    /\ Reads

\* Neither the bundle nor the order of the rows is looked at here.
ReverifyPredictions(w) == \E x \in At(w, "verify", "predictions") : \E i \in x.inputs :
    /\ \E c \in probe :
         Goes(w, canonical[1] = {c.files[1]} /\ canonical[2] = {c.files[2]},
              [x EXCEPT !.stage = "pairs",
                        !.inputs = {[embedding |-> i.embedding,
                                     predictions |-> <<c.files[1], c.files[2]>>]}])
    /\ Reads

\* Neither the report of the pairs nor its scaling is looked at here.
RehashPairs(w) == \E x \in At(w, "verify", "pairs") :
    /\ Goes(w, \E d \in published : generated[1] = {d.queries} /\ generated[2] = {d.pairs},
            [x EXCEPT !.stage = "streams"])
    /\ Reads

RereadPairs(w) == \E x \in At(w, "verify", "streams") : \E i \in x.inputs :
    /\ \E d \in published :
         Goes(w, generated[2] = {d.pairs} /\ d.pairs.order = x.selection.order,
              [x EXCEPT !.stage = "compare",
                        !.inputs = {[selection |-> x.selection, embedding |-> i.embedding,
                                     predictions |-> i.predictions, pairs |-> d.pairs]}])
    /\ Reads

\* The second program scores for itself; the oracle is not looked at.
Recompute(i) == i

\* Mutant: only the digest in the result is compared with the published scores.
RecomputedDigest(x, i) == \E s \in output[1], r \in x.result : s = r.scores

Recomputed(x, i) ==
    /\ output[1] = {Recompute(i)}
    /\ \E s \in output[1], r \in x.result : s = r.scores

CompareScores(w) == \E x \in At(w, "verify", "compare") :
    /\ \E i \in x.inputs : \E j \in Mapped(i) :
         Goes(w, Recomputed(x, j), [x EXCEPT !.stage = "write"])
    /\ Reads

\* The result and the scores are hashed once more, for the record.
WriteVerification(w) == \E x \in At(w, "verify", "write") :
    /\ verification' = {[result |-> output[3], scores |-> output[1], calm |-> calm[w],
                         report |-> report, reproduced |-> reproduced, probe |-> probe,
                         published |-> published]}
    /\ Goes(w, FALSE, x)
    /\ UNCHANGED <<selectionVars, embedding, reproduced, probeVars, pairVars, output, calm,
                   overlap, runs, edits, deaths>>

-----------------------------------------------------------------------------
(* The environment.                                                        *)

Edits == edits < MaxEdits /\ edits' = edits + 1 /\ calm' = [w \in Worker |-> FALSE]

\* The checkout of another selection, or of one of its files.
Reselect(s) ==
    /\ Edits /\ s # report
    /\ report' = s /\ manifest' = s.order /\ table' = s
    /\ UNCHANGED <<embedding, reproduced, probeVars, pairVars, output, verification, job, overlap,
                   runs, deaths>>

EditTable(s) ==
    /\ Edits /\ s # table
    /\ table' = s
    /\ UNCHANGED <<report, manifest, embedding, reproduced, probeVars, pairVars, output,
                   verification, job, overlap, runs, deaths>>

\* The embeddings of the present selection are extracted and reproduced.
Reproduce ==
    /\ Edits /\ report # reproduced.selection /\ SelectionMatches(report)
    /\ embedding' = manifest
    /\ reproduced' = [selection |-> report, embedding |-> manifest]
    /\ UNCHANGED <<selectionVars, probeVars, pairVars, output, verification, job, overlap, runs,
                   deaths>>

\* Published files are in the checkout: any of them may become another one.
EditPredictions(k, s) ==
    /\ Edits /\ probe # {}
    /\ \E p \in canonical[k] :
         /\ PairsOf(s) # PairsOf(p)
         /\ canonical' = [canonical EXCEPT ![k] = {[p EXCEPT !.order = s.order,
                                                             !.labels = s.labels]}]
    /\ UNCHANGED <<selectionVars, embedding, reproduced, fitted, probe, pairVars, output,
                   verification, job, overlap, runs, deaths>>

EditPairs(k, s) ==
    /\ Edits /\ published # {} /\ generated[k] # {PairsOf(s)}
    /\ generated' = [generated EXCEPT ![k] = {PairsOf(s)}] /\ KeepsReport
    /\ UNCHANGED <<selectionVars, embedding, reproduced, probeVars, published, output,
                   verification, job, overlap, runs, deaths>>

Die(w) ==
    /\ job[w] # {} /\ deaths < MaxDeaths /\ deaths' = deaths + 1
    /\ job' = [job EXCEPT ![w] = {}]
    /\ UNCHANGED <<fileVars, calm, overlap, runs, edits>>

EvaluationNext ==
    \/ \E w \in Worker :
         \/ BeginFit(w) \/ ClearFit(w) \/ LoadCheckpoint(w) \/ LoadSelection(w)
         \/ SelectionReproduced(w) \/ HashRows(w) \/ LoadRows(w) \/ HashPrimitives(w)
         \/ LoadMatrices(w) \/ HashLabels(w) \/ ReadLabels(w)
         \/ PublishFit(w) \/ ValidateFit(w) \/ CopyArtifact(w) \/ CompareArtifact(w)
         \/ ReadBundle(w) \/ PublishProbe(w)
         \/ BeginGeneration(w) \/ LoadSplit(w) \/ WriteStreams(w) \/ WriteReport(w)
         \/ BeginEvaluation(w) \/ ReadSelection(w) \/ VerifyEmbeddings(w)
         \/ VerifyPredictions(w) \/ HashPairReport(w) \/ ReadPairReport(w) \/ HashPairs(w)
         \/ ReadPairs(w) \/ Score(w) \/ WriteOutput(w)
         \/ BeginVerification(w) \/ LoadResult(w) \/ RereadSelection(w)
         \/ ReverifyEmbeddings(w) \/ ReverifyPredictions(w) \/ RehashPairs(w)
         \/ RereadPairs(w) \/ CompareScores(w) \/ WriteVerification(w) \/ Die(w)
    \/ PublishManifest \/ Reproduce
    \/ \E s \in Selected :
         \/ Reselect(s) \/ EditTable(s)
         \/ \E k \in 1..3 : EditPredictions(k, s) \/ EditPairs(k, s)

EvaluationSpec == EvaluationInit /\ [][EvaluationNext]_evaluationVars

-----------------------------------------------------------------------------
(* Properties.                                                             *)

\* A verification during which no file changed stands for scores of exactly the
\* selection, the matrices, the predictions and the pairs whose digests the selection
\* report and the three checkpoints name, though the evaluation hashes its files and
\* reads them, or their maps, again later: the scores were recomputed.  Which
\* selection the matrices were extracted for is no part of it.
\* (verify_method_evaluation, recompute_primary_scores)
VerifiedScoresRestOnFrozenInputs == \A v \in verification :
    v.calm => \E s \in v.scores, c \in v.probe, d \in v.published :
        /\ s = [selection |-> v.report, embedding |-> v.reproduced.embedding,
                predictions |-> <<c.files[1], c.files[2]>>, pairs |-> d.pairs]
        /\ \E r \in v.result : r.scores = s

\* What verified scores owe to the evaluation that was recomputed, as the verification
\* compares none of it: the rows of both predictions are the scored ones, unless two
\* fits were under way at a time; the oracle orders the pairs as their own labels do;
\* and the scaling in the published report of the pairs is that of the scored labels,
\* unless this report ever was another one, as it is hashed and read again.  The rows
\* of the pairs both programs compare.  Not part of it are the labels that the
\* predictions were fitted to and the selection of the matrices: nobody compares them.
\* (_verify_predictions, verify_evaluation_inputs, run_method_evaluation)
VerifiedScoresMatchTheirRows == \A v \in verification : v.calm => \A s \in v.scores :
    /\ "fit" \notin overlap => \A k \in 1..2 : s.predictions[k].order = s.selection.order
    /\ s.pairs.order = s.selection.order
    /\ Oracle[s.pairs.labels] = Oracle[s.selection.labels]
    /\ ~ stale => \A d \in v.published : Scale[d.report.labels] = Scale[s.selection.labels]

\* Unless two evaluations were under way at a time, the files of a result are all
\* of one run, whatever runs died before it: a directory with any of the outputs
\* is refused.  (run_method_evaluation)
OutputsAreOfOneRun == "evaluate" \notin overlap =>
    /\ \A r \in output[3] : output[1] = {r.scores} /\ r.file = output[1] /\ output[2] = {r.metrics}
    /\ \A c \in output[4] : c.result = output[3]

=============================================================================
