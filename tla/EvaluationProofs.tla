--------------------------- MODULE EvaluationProofs ---------------------------
(***************************************************************************)
(* The files of an evaluation are of one run, and verified scores rest on  *)
(* the frozen inputs and match their rows, for any selections, any number  *)
(* of runs and workers, and any replacement of any input.                  *)
(*                                                                         *)
(* What must be known of an evaluation is how far it has written: the      *)
(* outputs up to its next one are those of its inputs and the others do    *)
(* not exist.  As long as evaluations do not overlap nobody else writes    *)
(* them, and a run that died leaves files that keep every later one from   *)
(* beginning.  Fits are told apart the same way: all that one of them has  *)
(* written or promoted is of its own rows.                                 *)
(***************************************************************************)
EXTENDS MethodEvaluation, TLAPS

\* What a job carries.
Fields == [fit      |-> {"program", "stage", "next", "inputs"},
           generate |-> {"program", "stage", "next", "selection"},
           evaluate |-> {"program", "stage", "next", "selection", "inputs"},
           verify   |-> {"program", "stage", "result", "selection", "inputs"}]

IsEvaluation(x) == x.program = "evaluate"

\* Only an evaluation that has passed all checks writes.
WellFormed(x) ==
    /\ x.program \in Program /\ DOMAIN x = Fields[x.program]
    /\ x.program # "generate" => \A i \in x.inputs : x.inputs = {i}
    /\ x.program \in {"fit", "generate"} => x.next \in 1..3
    /\ IsEvaluation(x) => x.next \in 1..4 /\ (x.stage # "write" => x.next = 1)

JobsInv ==
    /\ DOMAIN job = Worker /\ DOMAIN calm = Worker
    /\ \A w \in Worker : \A x \in job[w] : WellFormed(x) /\ job[w] = {x}

\* A file is there or not.
Single(files, n) == DOMAIN files = 1..n /\ \A k \in 1..n : \A f \in files[k] : files[k] = {f}

FilesInv ==
    /\ Single(fitted, 3) /\ Single(canonical, 3) /\ Single(generated, 3) /\ DOMAIN output = 1..4

Done(i) == <<{i}, {i}, {[scores |-> i, file |-> {i}, metrics |-> i]}>>

\* How far an evaluation has written.
Progress(x) ==
    /\ \A k \in x.next..4 : output[k] = {}
    /\ \A i \in x.inputs : \A k \in 1..3 : k < x.next => output[k] = Done(i)[k]

AloneInv == "evaluate" \notin overlap =>
    \A w \in Worker : \A x \in job[w] : IsEvaluation(x) =>
        /\ Progress(x)
        /\ \A v \in Worker : \A y \in job[v] : IsEvaluation(y) => v = w

TypedInv == JobsInv /\ FilesInv

EInv == TypedInv /\ AloneInv /\ OutputsAreOfOneRun

-----------------------------------------------------------------------------

LEMMA NoOutput == None(OutputFile) = [k \in 1..4 |-> {}]
  BY DEF None, OutputFile

LEMMA NoFit == None(FitFile) = [k \in 1..3 |-> {}]
  BY DEF None, FitFile

LEMMA NoPairs == None(PairFile) = [k \in 1..3 |-> {}]
  BY DEF None, PairFile

LEMMA InitInv == EvaluationInit => EInv
  <1> SUFFICES ASSUME EvaluationInit PROVE EInv
    OBVIOUS
  <1>1. output = [k \in 1..4 |-> {}] /\ job = [w \in Worker |-> {}] /\ overlap = {}
    BY NoOutput DEF EvaluationInit
  <1>2. DOMAIN job = Worker /\ DOMAIN calm = Worker /\ \A w \in Worker : job[w] = {}
    BY <1>1 DEF EvaluationInit
  <1>3. output[3] = {} /\ output[4] = {} /\ DOMAIN output = 1..4
    BY <1>1
  <1>4. /\ fitted = [k \in 1..3 |-> {}] /\ canonical = [k \in 1..3 |-> {}]
        /\ generated = [k \in 1..3 |-> {}]
    BY NoFit, NoPairs DEF EvaluationInit
  <1>5. Single(fitted, 3) /\ Single(canonical, 3) /\ Single(generated, 3)
    BY <1>4 DEF Single
  <1> QED
    BY <1>2, <1>3, <1>5 DEF EInv, TypedInv, JobsInv, FilesInv, AloneInv, OutputsAreOfOneRun

-----------------------------------------------------------------------------
(* How jobs go on.                                                         *)

\* The run of w goes on as one of S, which is one of p.
GoesOn(w, p, S) ==
    /\ job' = [job EXCEPT ![w] = S]
    /\ \A y \in S : y.program = p /\ WellFormed(y) /\ S = {y}

Moves(w, p) == \E S : GoesOn(w, p, S)

LEMMA AtJob ==
    ASSUME JobsInv, NEW w \in Worker, NEW p, NEW s, NEW x \in At(w, p, s)
    PROVE  /\ x \in job[w] /\ job[w] = {x} /\ WellFormed(x)
           /\ x.program = p /\ x.stage = s
  BY DEF At, JobsInv

LEMMA CheckMoves ==
    ASSUME NEW w \in Worker, NEW ok, NEW y, WellFormed(y), Goes(w, ok, y)
    PROVE  Moves(w, y.program)
  <1> DEFINE S == IF ok THEN {y} ELSE {}
  <1>1. job' = [job EXCEPT ![w] = S]
    BY DEF Goes
  <1>2. \A z \in S : z = y /\ S = {z}
    OBVIOUS
  <1> HIDE DEF S
  <1>3. GoesOn(w, y.program, S)
    BY <1>1, <1>2 DEF GoesOn
  <1> QED
    BY <1>3 DEF Moves

LEMMA StopMoves ==
    ASSUME NEW w \in Worker, NEW p, job' = [job EXCEPT ![w] = {}]
    PROVE  Moves(w, p)
  <1> DEFINE S == {}
  <1>1. \A y \in S : FALSE
    OBVIOUS
  <1>2. job' = [job EXCEPT ![w] = S]
    OBVIOUS
  <1> HIDE DEF S
  <1>3. GoesOn(w, p, S)
    BY <1>1, <1>2 DEF GoesOn
  <1> QED
    BY <1>3 DEF Moves

LEMMA OneMoves ==
    ASSUME NEW w \in Worker, NEW y, WellFormed(y), job' = [job EXCEPT ![w] = {y}]
    PROVE  Moves(w, y.program)
  <1> DEFINE S == {y}
  <1>1. \A z \in S : z = y /\ S = {z}
    OBVIOUS
  <1>2. job' = [job EXCEPT ![w] = S]
    OBVIOUS
  <1> HIDE DEF S
  <1>3. GoesOn(w, y.program, S)
    BY <1>1, <1>2 DEF GoesOn
  <1> QED
    BY <1>3 DEF Moves

\* A run that begins is apart from every other one of its program, or is known not to be.
Overlaps(w, p) ==
    /\ overlap \subseteq overlap' /\ \A q \in overlap' : q \in overlap \/ q = p
    /\ (\E v \in Worker : \E y \in job[v] : y.program = p) => p \in overlap'

LEMMA Beginning ==
    ASSUME NEW w \in Worker, NEW x, WellFormed(x), Begins(w, x)
    PROVE  /\ Moves(w, x.program) /\ UNCHANGED fileVars /\ Overlaps(w, x.program)
           /\ calm' = [calm EXCEPT ![w] = TRUE] /\ job[w] = {} /\ job' = [job EXCEPT ![w] = {x}]
  <1>1. /\ UNCHANGED fileVars /\ calm' = [calm EXCEPT ![w] = TRUE] /\ job[w] = {}
        /\ job' = [job EXCEPT ![w] = {x}]
    BY DEF Begins
  <1>2. Moves(w, x.program)
    BY <1>1, OneMoves
  <1>3. Overlaps(w, x.program)
    BY DEF Overlaps, Begins
  <1> QED
    BY <1>1, <1>2, <1>3

SelectionStage == {"report", "manifest", "table", "rows", "primitives"}

\* A step of reading the selection changes the stage and the selection of a job.
LEMMA SelectionGoes ==
    ASSUME JobsInv, NEW w \in Worker, NEW p \in {"generate", "evaluate", "verify"}, NEW after,
           SelectionStep(w, p, after)
    PROVE  \E x \in job[w] : \E y, ok :
              /\ x.program = p /\ x.stage \in SelectionStage /\ WellFormed(x)
              /\ Reads /\ Goes(w, ok, y)
              /\ DOMAIN y = DOMAIN x /\ y.program = p /\ y.stage \in SelectionStage \cup {after}
              /\ p # "generate" => y.inputs = x.inputs
              /\ p # "verify" => y.next = x.next
  <1>0. /\ Reads
        /\ \E s \in SelectionStage : \E x \in At(w, p, s) : \E ok, t, z :
              /\ t \in SelectionStage \cup {after}
              /\ \/ Goes(w, ok, [x EXCEPT !.stage = t])
                 \/ Goes(w, ok, [x EXCEPT !.stage = t, !.selection = z])
                 \/ Goes(w, ok, [x EXCEPT !.stage = t, !.selection.order = z])
    BY DEF SelectionStep, LoadReport, HashManifest, HashTable, ReadRows, ReadPrimitives,
           SelectionStage
  <1>6. PICK s \in SelectionStage : \E x \in At(w, p, s) : \E ok, t, z :
              /\ t \in SelectionStage \cup {after}
              /\ \/ Goes(w, ok, [x EXCEPT !.stage = t])
                 \/ Goes(w, ok, [x EXCEPT !.stage = t, !.selection = z])
                 \/ Goes(w, ok, [x EXCEPT !.stage = t, !.selection.order = z])
    BY <1>0
  <1>7. PICK x \in At(w, p, s) : \E ok, t, z :
              /\ t \in SelectionStage \cup {after}
              /\ \/ Goes(w, ok, [x EXCEPT !.stage = t])
                 \/ Goes(w, ok, [x EXCEPT !.stage = t, !.selection = z])
                 \/ Goes(w, ok, [x EXCEPT !.stage = t, !.selection.order = z])
    BY <1>6
  <1>1. PICK ok, t, z :
              /\ t \in SelectionStage \cup {after}
              /\ \/ Goes(w, ok, [x EXCEPT !.stage = t])
                 \/ Goes(w, ok, [x EXCEPT !.stage = t, !.selection = z])
                 \/ Goes(w, ok, [x EXCEPT !.stage = t, !.selection.order = z])
    BY <1>7
  <1>2. x \in job[w] /\ x.program = p /\ x.stage = s /\ WellFormed(x)
    BY AtJob
  <1>3. /\ {"program", "stage", "selection"} \subseteq DOMAIN x
        /\ p # "generate" => "inputs" \in DOMAIN x
        /\ p # "verify" => "next" \in DOMAIN x
    BY <1>2 DEF WellFormed, Fields
  <1>4. PICK y : /\ Goes(w, ok, y)
                 /\ \/ y = [x EXCEPT !.stage = t]
                    \/ y = [x EXCEPT !.stage = t, !.selection = z]
                    \/ y = [x EXCEPT !.stage = t, !.selection.order = z]
    BY <1>1
  <1>5. /\ DOMAIN y = DOMAIN x /\ y.program = p /\ y.stage = t
        /\ p # "generate" => y.inputs = x.inputs
        /\ p # "verify" => y.next = x.next
    BY <1>2, <1>3, <1>4
  <1> QED
    BY <1>0, <1>1, <1>2, <1>4, <1>5

\* Reading leaves every file as it is.
LEMMA ReadsKeep ==
    ASSUME Reads
    PROVE  UNCHANGED <<selectionVars, embedding, reproduced, fitted, canonical, probe, generated,
                       published, stale, output, verification, calm, overlap>>
  BY DEF Reads, fileVars, probeVars, pairVars

LEMMA FilesKeep ==
    ASSUME UNCHANGED fileVars
    PROVE  UNCHANGED <<selectionVars, embedding, reproduced, fitted, canonical, probe, generated,
                       published, stale, output, verification>>
  BY DEF fileVars, probeVars, pairVars


-----------------------------------------------------------------------------
(* The steps of the runs, program by program.                              *)

FitLoads(w) ==
    \/ LoadCheckpoint(w) \/ LoadSelection(w) \/ SelectionReproduced(w) \/ HashRows(w)
    \/ LoadRows(w) \/ HashPrimitives(w) \/ LoadMatrices(w)

FitChecks(w) ==
    \/ FitLoads(w) \/ HashLabels(w) \/ ReadLabels(w) \/ ValidateFit(w)
    \/ CompareArtifact(w) \/ ReadBundle(w)

FitWrites(w) == ClearFit(w) \/ PublishFit(w) \/ CopyArtifact(w) \/ PublishProbe(w)

GenerateWrites(w) == WriteStreams(w) \/ WriteReport(w)

EvaluationChecks(w) ==
    \/ ReadSelection(w) \/ VerifyEmbeddings(w) \/ VerifyPredictions(w) \/ HashPairReport(w)
    \/ ReadPairReport(w) \/ HashPairs(w) \/ ReadPairs(w) \/ Score(w)

VerifierChecks(w) ==
    \/ LoadResult(w) \/ RereadSelection(w) \/ ReverifyEmbeddings(w) \/ ReverifyPredictions(w)
    \/ RehashPairs(w) \/ RereadPairs(w) \/ CompareScores(w)

RunBegins(w) ==
    \/ BeginFit(w) \/ BeginGeneration(w) \/ BeginEvaluation(w) \/ BeginVerification(w)

FileEdits ==
    \/ PublishManifest \/ Reproduce
    \/ \E s \in Selected :
         \/ Reselect(s) \/ EditTable(s)
         \/ \E k \in 1..3 : EditPredictions(k, s) \/ EditPairs(k, s)

LEMMA NextSteps ==
    ASSUME EvaluationNext
    PROVE  \/ \E w \in Worker :
                \/ RunBegins(w) \/ FitChecks(w) \/ FitWrites(w) \/ LoadSplit(w)
                \/ GenerateWrites(w) \/ EvaluationChecks(w) \/ WriteOutput(w)
                \/ VerifierChecks(w) \/ WriteVerification(w) \/ Die(w)
           \/ FileEdits
  BY DEF EvaluationNext, RunBegins, FitChecks, FitLoads, FitWrites, GenerateWrites,
         EvaluationChecks, VerifierChecks, FileEdits

\* Nobody is calm any more.
Stirs == calm' = [v \in Worker |-> FALSE]

LEMMA FitCheckMoves ==
    ASSUME TypedInv, NEW w \in Worker, FitChecks(w)
    PROVE  Moves(w, "fit") /\ Reads
  <1>0. \A s : \A x \in At(w, "fit", s) :
            /\ x.program = "fit" /\ DOMAIN x = Fields["fit"] /\ x.next \in 1..3
            /\ \A i \in x.inputs : x.inputs = {i}
    BY AtJob DEF TypedInv, WellFormed
  <1>1. Reads
    BY DEF FitChecks, FitLoads, LoadCheckpoint, LoadSelection, SelectionReproduced, HashRows,
           LoadRows, HashPrimitives, LoadMatrices, HashLabels, ReadLabels, FitReads, ValidateFit,
           CompareArtifact, ReadBundle
  <1>2. CASE FitLoads(w) \/ HashLabels(w) \/ ReadLabels(w)
    <2>0. \E s : \E x \in At(w, "fit", s) : \E ok, t, i :
              Goes(w, ok, [x EXCEPT !.stage = t, !.inputs = {i}])
      BY <1>2 DEF FitLoads, LoadCheckpoint, LoadSelection, SelectionReproduced, HashRows,
                  LoadRows, HashPrimitives, LoadMatrices, HashLabels, ReadLabels, FitReads
    <2>1. PICK s : \E x \in At(w, "fit", s) : \E ok, t, i :
              Goes(w, ok, [x EXCEPT !.stage = t, !.inputs = {i}])
      BY <2>0
    <2>2. PICK x \in At(w, "fit", s) : \E ok, t, i :
              Goes(w, ok, [x EXCEPT !.stage = t, !.inputs = {i}])
      BY <2>1
    <2>3. PICK ok, t, i : Goes(w, ok, [x EXCEPT !.stage = t, !.inputs = {i}])
      BY <2>2
    <2>4. PICK y : y = [x EXCEPT !.stage = t, !.inputs = {i}]
      OBVIOUS
    <2>5. y.program = "fit" /\ DOMAIN y = Fields["fit"] /\ y.next \in 1..3 /\ y.inputs = {i}
      BY <1>0, <2>4 DEF Fields
    <2>6. WellFormed(y)
      BY <2>5 DEF WellFormed, IsEvaluation, Program
    <2> QED
      BY <1>1, <2>3, <2>4, <2>5, <2>6, CheckMoves
  <1>3. CASE ValidateFit(w)
    <2>1. PICK s : \E x \in At(w, "fit", s) : \E ok, t : Goes(w, ok, [x EXCEPT !.stage = t])
      BY <1>3 DEF ValidateFit
    <2>2. PICK x \in At(w, "fit", s) : \E ok, t : Goes(w, ok, [x EXCEPT !.stage = t])
      BY <2>1
    <2>3. PICK ok, t : Goes(w, ok, [x EXCEPT !.stage = t])
      BY <2>2
    <2>4. PICK y : y = [x EXCEPT !.stage = t]
      OBVIOUS
    <2>5. /\ y.program = "fit" /\ DOMAIN y = Fields["fit"] /\ y.next \in 1..3
          /\ \A i \in y.inputs : y.inputs = {i}
      BY <1>0, <2>4 DEF Fields
    <2>6. WellFormed(y)
      BY <2>5 DEF WellFormed, IsEvaluation, Program
    <2>7. Goes(w, ok, y)
      BY <2>3, <2>4
    <2> QED
      BY <1>1, <2>5, <2>6, <2>7, CheckMoves
  <1>5. CASE CompareArtifact(w)
    <2>1. PICK x \in At(w, "fit", "compare") : \E ok :
              Goes(w, ok, [x EXCEPT !.stage = IF x.next = 3 THEN "bundle" ELSE "copy",
                                    !.next = IF x.next = 3 THEN @ ELSE @ + 1])
      BY <1>5 DEF CompareArtifact, FitFile
    <2>2. PICK ok : Goes(w, ok, [x EXCEPT !.stage = IF x.next = 3 THEN "bundle" ELSE "copy",
                                          !.next = IF x.next = 3 THEN @ ELSE @ + 1])
      BY <2>1
    <2>3. PICK y : y = [x EXCEPT !.stage = IF x.next = 3 THEN "bundle" ELSE "copy",
                                 !.next = IF x.next = 3 THEN @ ELSE @ + 1]
      OBVIOUS
    <2>4. /\ y.program = "fit" /\ DOMAIN y = Fields["fit"] /\ y.inputs = x.inputs
          /\ y.next = IF x.next = 3 THEN x.next ELSE x.next + 1
      BY <1>0, <2>3 DEF Fields
    <2>5. WellFormed(y)
      BY <1>0, <2>4 DEF WellFormed, IsEvaluation, Program
    <2> QED
      BY <1>1, <2>2, <2>3, <2>4, <2>5, CheckMoves
  <1>6. CASE ReadBundle(w)
    <2>1. PICK x \in At(w, "fit", "bundle") : \E ok :
              Goes(w, ok, [x EXCEPT !.stage = "publish", !.inputs = canonical[3]])
      BY <1>6 DEF ReadBundle
    <2>2. PICK ok : Goes(w, ok, [x EXCEPT !.stage = "publish", !.inputs = canonical[3]])
      BY <2>1
    <2>3. PICK y : y = [x EXCEPT !.stage = "publish", !.inputs = canonical[3]]
      OBVIOUS
    <2>4. /\ y.program = "fit" /\ DOMAIN y = Fields["fit"] /\ y.next \in 1..3
          /\ y.inputs = canonical[3]
      BY <1>0, <2>3 DEF Fields
    <2>5. \A i \in y.inputs : y.inputs = {i}
      BY <2>4 DEF TypedInv, FilesInv, Single
    <2>6. WellFormed(y)
      BY <2>4, <2>5 DEF WellFormed, IsEvaluation, Program
    <2> QED
      BY <1>1, <2>2, <2>3, <2>4, <2>6, CheckMoves
  <1> QED
    BY <1>1, <1>2, <1>3, <1>5, <1>6 DEF FitChecks

\* A file is replaced by what is one or nothing.
LEMMA OneFile ==
    ASSUME NEW n \in Nat, NEW f, Single(f, n), NEW k \in 1..n, NEW S,
           \A z \in S : S = {z}, NEW g, g = [f EXCEPT ![k] = S]
    PROVE  Single(g, n) /\ \A j \in 1..n : g[j] = IF j = k THEN S ELSE f[j]
  BY DEF Single

LEMMA FitWriteMoves ==
    ASSUME TypedInv, NEW w \in Worker, FitWrites(w)
    PROVE  /\ Moves(w, "fit") /\ Stirs /\ FilesInv'
           /\ UNCHANGED <<selectionVars, embedding, reproduced, generated, published, stale, output,
                          verification, overlap>>
  <1>0. \A s : \A x \in At(w, "fit", s) :
            /\ x.program = "fit" /\ DOMAIN x = Fields["fit"] /\ x.next \in 1..3
            /\ \A i \in x.inputs : x.inputs = {i}
    BY AtJob DEF TypedInv, WellFormed
  <1>1. UNCHANGED <<selectionVars, embedding, reproduced, generated, published, stale, output,
                    verification, overlap>> /\ Stirs
    BY DEF FitWrites, ClearFit, PublishFit, CopyArtifact, PublishProbe, Writes, Stirs, pairVars
  <1>2. CASE ClearFit(w)
    <2>1. PICK x \in At(w, "fit", "clear") : Writes(w, {[x EXCEPT !.stage = "load"]})
      BY <1>2 DEF ClearFit
    <2>2. PICK y : y = [x EXCEPT !.stage = "load"]
      OBVIOUS
    <2>3. y.program = "fit" /\ WellFormed(y)
      BY <1>0, <2>2 DEF WellFormed, IsEvaluation, Program, Fields
    <2>4. Moves(w, "fit")
      BY <2>1, <2>2, <2>3, OneMoves DEF Writes
    <2>5. FilesInv'
      BY <1>1, <1>2, NoFit DEF ClearFit, TypedInv, FilesInv, Single
    <2> QED
      BY <1>1, <2>4, <2>5
  <1>3. CASE PublishFit(w)
    <2>1. PICK x \in At(w, "fit", "write") : \E i \in x.inputs :
              /\ fitted' = [fitted EXCEPT ![x.next] = {Fit(i)}]
              /\ Writes(w, After(x, 3, {[x EXCEPT !.stage = "validate", !.next = 1]}))
      BY <1>3 DEF PublishFit, FitFile
    <2>2. PICK i \in x.inputs : fitted' = [fitted EXCEPT ![x.next] = {Fit(i)}]
      BY <2>1
    <2>3. PICK y : y = IF x.next = 3 THEN [x EXCEPT !.stage = "validate", !.next = 1]
                                     ELSE [x EXCEPT !.next = @ + 1]
      OBVIOUS
    <2>4. /\ y.program = "fit" /\ DOMAIN y = Fields["fit"] /\ y.inputs = x.inputs
          /\ y.next = IF x.next = 3 THEN 1 ELSE x.next + 1
      BY <1>0, <2>3 DEF Fields
    <2>5. WellFormed(y)
      BY <1>0, <2>4 DEF WellFormed, IsEvaluation, Program
    <2>6. job' = [job EXCEPT ![w] = {y}]
      BY <2>1, <2>3 DEF Writes, After
    <2>7. Moves(w, "fit")
      BY <2>4, <2>5, <2>6, OneMoves
    <2>8. FilesInv'
      <3>1. PICK k, S : k = x.next /\ S = {Fit(i)}
        OBVIOUS
      <3>2. /\ Single(fitted, 3) /\ k \in 1..3 /\ \A z \in S : S = {z}
            /\ fitted' = [fitted EXCEPT ![k] = S]
        BY <1>0, <2>2, <3>1 DEF TypedInv, FilesInv
      <3>3. Single(fitted', 3)
        BY <3>2, OneFile
      <3>4. canonical' = canonical
        BY <1>3 DEF PublishFit
      <3> QED
        BY <1>1, <3>3, <3>4 DEF TypedInv, FilesInv, Single
    <2> QED
      BY <1>1, <2>7, <2>8
  <1>4. CASE CopyArtifact(w)
    <2>1. PICK x \in At(w, "fit", "copy") :
              /\ canonical' = [canonical EXCEPT ![Promoted[x.next]] = fitted[Promoted[x.next]]]
              /\ Writes(w, {[x EXCEPT !.stage = "compare"]})
      BY <1>4 DEF CopyArtifact
    <2>2. PICK y : y = [x EXCEPT !.stage = "compare"]
      OBVIOUS
    <2>3. y.program = "fit" /\ WellFormed(y)
      BY <1>0, <2>2 DEF WellFormed, IsEvaluation, Program, Fields
    <2>4. Moves(w, "fit")
      BY <2>1, <2>2, <2>3, OneMoves DEF Writes
    <2>5. FilesInv'
      <3>1. PICK k : k = Promoted[x.next]
        OBVIOUS
      <3>2. k \in 1..3
        BY <1>0, <3>1 DEF Promoted
      <3>3. /\ Single(canonical, 3) /\ \A z \in fitted[k] : fitted[k] = {z}
            /\ canonical' = [canonical EXCEPT ![k] = fitted[k]]
        BY <2>1, <3>1, <3>2 DEF TypedInv, FilesInv, Single
      <3>4. Single(canonical', 3)
        BY <3>2, <3>3, OneFile
      <3> QED
        BY <1>1, <1>4, <3>4 DEF CopyArtifact, TypedInv, FilesInv, Single
    <2> QED
      BY <1>1, <2>4, <2>5
  <1>5. CASE PublishProbe(w)
    <2>1. Moves(w, "fit")
      BY <1>5, StopMoves DEF PublishProbe, Writes
    <2>2. FilesInv'
      BY <1>1, <1>5 DEF PublishProbe, TypedInv, FilesInv, Single
    <2> QED
      BY <1>1, <2>1, <2>2
  <1> QED
    BY <1>2, <1>3, <1>4, <1>5 DEF FitWrites

LEMMA LoadSplitMoves ==
    ASSUME TypedInv, NEW w \in Worker, LoadSplit(w)
    PROVE  Moves(w, "generate") /\ Reads
  <1>1. SelectionStep(w, "generate", "write") /\ JobsInv
    BY DEF LoadSplit, TypedInv
  <1>2. PICK x \in job[w] : \E y, ok :
            /\ x.program = "generate" /\ WellFormed(x) /\ Reads /\ Goes(w, ok, y)
            /\ DOMAIN y = DOMAIN x /\ y.program = "generate" /\ y.next = x.next
    BY <1>1, SelectionGoes
  <1>3. PICK y, ok : /\ Reads /\ Goes(w, ok, y) /\ DOMAIN y = DOMAIN x
                     /\ y.program = "generate" /\ y.next = x.next
    BY <1>2
  <1>4. WellFormed(y)
    BY <1>2, <1>3 DEF WellFormed, IsEvaluation
  <1> QED
    BY <1>3, <1>4, CheckMoves

LEMMA GenerateWriteMoves ==
    ASSUME TypedInv, NEW w \in Worker, GenerateWrites(w)
    PROVE  /\ Moves(w, "generate") /\ Stirs /\ FilesInv'
           /\ UNCHANGED <<selectionVars, embedding, reproduced, fitted, canonical, probe, published,
                          output, verification, overlap>>
  <1>1. UNCHANGED <<selectionVars, embedding, reproduced, fitted, canonical, probe, published,
                    output, verification, overlap>> /\ Stirs
    BY DEF GenerateWrites, WriteStreams, WriteReport, Writes, Stirs, probeVars
  <1>2. PICK x \in At(w, "generate", "write") :
            \/ /\ x.next < 3 /\ generated' = [generated EXCEPT ![x.next] = {PairsOf(x.selection)}]
               /\ Writes(w, After(x, 3, {}))
            \/ /\ x.next = 3 /\ generated' = [generated EXCEPT ![x.next] = {PairsOf(x.selection)}]
               /\ Writes(w, {})
    BY DEF GenerateWrites, WriteStreams, WriteReport, PairFile
  <1>3. x.program = "generate" /\ DOMAIN x = Fields["generate"] /\ x.next \in 1..3
    BY AtJob DEF TypedInv, WellFormed
  <1>4. FilesInv'
    <2>1. PICK k, S : k = x.next /\ S = {PairsOf(x.selection)}
      OBVIOUS
    <2>2. /\ Single(generated, 3) /\ k \in 1..3 /\ \A z \in S : S = {z}
          /\ generated' = [generated EXCEPT ![k] = S]
      BY <1>2, <1>3, <2>1 DEF TypedInv, FilesInv
    <2>3. Single(generated', 3)
      BY <2>2, OneFile
    <2> QED
      BY <1>1, <2>3 DEF TypedInv, FilesInv, Single
  <1>5. CASE x.next = 3
    BY <1>1, <1>2, <1>4, <1>5, StopMoves DEF Writes
  <1>6. CASE x.next < 3
    <2>1. PICK y : y = [x EXCEPT !.next = @ + 1]
      OBVIOUS
    <2>2. y.program = "generate" /\ DOMAIN y = Fields["generate"] /\ y.next = x.next + 1
      BY <1>3, <2>1 DEF Fields
    <2>3. WellFormed(y)
      BY <1>3, <1>6, <2>2 DEF WellFormed, IsEvaluation, Program
    <2>4. job' = [job EXCEPT ![w] = {y}]
      BY <1>2, <1>3, <1>6, <2>1 DEF Writes, After
    <2>5. Moves(w, "generate")
      BY <2>2, <2>3, <2>4, OneMoves
    <2> QED
      BY <1>1, <1>4, <2>5
  <1> QED
    BY <1>3, <1>5, <1>6

\* The run of w is an evaluation before its first output, and goes on as one.
Checks(w, x, S) ==
    /\ x \in job[w] /\ IsEvaluation(x) /\ x.next = 1
    /\ \A y \in S : y.next = 1
    /\ GoesOn(w, "evaluate", S)

LEMMA ChecksOn ==
    ASSUME JobsInv, NEW w \in Worker, NEW x \in job[w], IsEvaluation(x), x.stage # "write",
           NEW ok, NEW y, DOMAIN y = DOMAIN x, y.program = "evaluate", y.next = x.next,
           \A i \in y.inputs : y.inputs = {i}, Goes(w, ok, y)
    PROVE  \E S : Checks(w, x, S)
  <1>1. x.next = 1 /\ DOMAIN x = Fields["evaluate"]
    BY DEF JobsInv, WellFormed, IsEvaluation
  <1>2. WellFormed(y)
    BY <1>1 DEF WellFormed, IsEvaluation, Program
  <1> DEFINE S == IF ok THEN {y} ELSE {}
  <1>3. job' = [job EXCEPT ![w] = S]
    BY DEF Goes
  <1>4. \A z \in S : z = y /\ S = {z}
    OBVIOUS
  <1> HIDE DEF S
  <1>5. Checks(w, x, S)
    BY <1>1, <1>2, <1>3, <1>4 DEF Checks, GoesOn
  <1> QED
    BY <1>5

\* What most checks do.
Checked(w, s) == \E x \in At(w, "evaluate", s) : \E ok, t, i :
    \/ Goes(w, ok, x) \/ Goes(w, ok, [x EXCEPT !.stage = t])
    \/ Goes(w, ok, [x EXCEPT !.stage = t, !.inputs = {i}])

LEMMA EvaluationChecksMove ==
    ASSUME TypedInv, NEW w \in Worker, EvaluationChecks(w)
    PROVE  Reads /\ \E x, S : Checks(w, x, S)
  <1>1. Reads
    BY DEF EvaluationChecks, ReadSelection, SelectionStep, VerifyEmbeddings, VerifyPredictions,
           HashPairReport, ReadPairReport, HashPairs, ReadPairs, Score
  <1>2. JobsInv
    BY DEF TypedInv
  <1>3. CASE ReadSelection(w)
    <2>1. SelectionStep(w, "evaluate", "embeddings")
      BY <1>3 DEF ReadSelection
    <2>2. PICK x \in job[w] : \E y, ok :
              /\ x.program = "evaluate" /\ x.stage \in SelectionStage /\ WellFormed(x)
              /\ Goes(w, ok, y) /\ DOMAIN y = DOMAIN x /\ y.program = "evaluate"
              /\ y.inputs = x.inputs /\ y.next = x.next
      BY <1>2, <2>1, SelectionGoes
    <2>3. PICK y, ok : /\ Goes(w, ok, y) /\ DOMAIN y = DOMAIN x /\ y.program = "evaluate"
                       /\ y.inputs = x.inputs /\ y.next = x.next
      BY <2>2
    <2>4. IsEvaluation(x) /\ x.stage # "write" /\ \A i \in y.inputs : y.inputs = {i}
      BY <2>2, <2>3 DEF WellFormed, IsEvaluation, SelectionStage
    <2>5. \E S : Checks(w, x, S)
      BY <1>2, <2>2, <2>3, <2>4, ChecksOn
    <2> QED
      BY <1>1, <2>5
  <1>4. ASSUME NEW s, s # "write", Checked(w, s)
        PROVE  \E x, S : Checks(w, x, S)
    <2>1. PICK x \in At(w, "evaluate", s) : \E ok, t, i :
              \/ Goes(w, ok, x) \/ Goes(w, ok, [x EXCEPT !.stage = t])
              \/ Goes(w, ok, [x EXCEPT !.stage = t, !.inputs = {i}])
      BY <1>4 DEF Checked
    <2>2. PICK ok, t, i :
              \/ Goes(w, ok, x) \/ Goes(w, ok, [x EXCEPT !.stage = t])
              \/ Goes(w, ok, [x EXCEPT !.stage = t, !.inputs = {i}])
      BY <2>1
    <2>3. PICK y : /\ Goes(w, ok, y)
                   /\ \/ y = x \/ y = [x EXCEPT !.stage = t]
                      \/ y = [x EXCEPT !.stage = t, !.inputs = {i}]
      BY <2>2
    <2>4. /\ x \in job[w] /\ x.program = "evaluate" /\ x.stage = s /\ DOMAIN x = Fields["evaluate"]
          /\ \A j \in x.inputs : x.inputs = {j}
      BY <1>2, AtJob DEF WellFormed
    <2>5. /\ DOMAIN y = DOMAIN x /\ y.program = "evaluate" /\ y.next = x.next
          /\ \A j \in y.inputs : y.inputs = {j}
      <3>1. {"program", "stage", "next", "inputs"} \subseteq DOMAIN x
        BY <2>4 DEF Fields
      <3>2. CASE y = x \/ y = [x EXCEPT !.stage = t]
        BY <2>4, <3>1, <3>2
      <3>3. CASE y = [x EXCEPT !.stage = t, !.inputs = {i}]
        BY <2>4, <3>1, <3>3
      <3> QED
        BY <2>3, <3>2, <3>3
    <2>6. \E S : Checks(w, x, S)
      BY <1>2, <1>4, <2>3, <2>4, <2>5, ChecksOn DEF IsEvaluation
    <2> QED
      BY <2>6
  <1>5. CASE VerifyEmbeddings(w)
    BY <1>1, <1>4, <1>5 DEF VerifyEmbeddings, Checked
  <1>6. CASE VerifyPredictions(w)
    BY <1>1, <1>4, <1>6 DEF VerifyPredictions, Checked
  <1>7. CASE HashPairReport(w)
    BY <1>1, <1>4, <1>7 DEF HashPairReport, Checked
  <1>8. CASE ReadPairReport(w)
    BY <1>1, <1>4, <1>8 DEF ReadPairReport, Checked
  <1>9. CASE HashPairs(w)
    BY <1>1, <1>4, <1>9 DEF HashPairs, Checked
  <1>10. CASE ReadPairs(w)
    BY <1>1, <1>4, <1>10 DEF ReadPairs, Checked
  <1>11. CASE Score(w)
    BY <1>1, <1>4, <1>11 DEF Score, Checked
  <1> QED
    BY <1>3, <1>5, <1>6, <1>7, <1>8, <1>9, <1>10, <1>11 DEF EvaluationChecks

\* What most steps of a verification do.
VerifierGoes(w) == \E s : \E x \in At(w, "verify", s) : \E ok, t, i :
    \/ Goes(w, ok, [x EXCEPT !.stage = t])
    \/ Goes(w, ok, [x EXCEPT !.stage = t, !.result = i])
    \/ Goes(w, ok, [x EXCEPT !.stage = t, !.inputs = {i}])

LEMMA VerifierChecksMove ==
    ASSUME TypedInv, NEW w \in Worker, VerifierChecks(w)
    PROVE  Moves(w, "verify") /\ Reads
  <1>1. Reads
    BY DEF VerifierChecks, LoadResult, RereadSelection, SelectionStep, ReverifyEmbeddings,
           ReverifyPredictions, RehashPairs, RereadPairs, CompareScores
  <1>2. JobsInv
    BY DEF TypedInv
  <1>3. CASE RereadSelection(w)
    <2>1. SelectionStep(w, "verify", "embeddings")
      BY <1>3 DEF RereadSelection
    <2>2. PICK x \in job[w] : \E y, ok :
              /\ x.program = "verify" /\ WellFormed(x) /\ Goes(w, ok, y)
              /\ DOMAIN y = DOMAIN x /\ y.program = "verify" /\ y.inputs = x.inputs
      BY <1>2, <2>1, SelectionGoes
    <2>3. PICK y, ok : /\ Goes(w, ok, y) /\ DOMAIN y = DOMAIN x /\ y.program = "verify"
                       /\ y.inputs = x.inputs
      BY <2>2
    <2>4. WellFormed(y)
      BY <2>2, <2>3 DEF WellFormed, IsEvaluation
    <2> QED
      BY <1>1, <2>3, <2>4, CheckMoves
  <1>4. ASSUME VerifierGoes(w)
        PROVE  Moves(w, "verify")
    <2>0. PICK s : \E x \in At(w, "verify", s) : \E ok, t, i :
              \/ Goes(w, ok, [x EXCEPT !.stage = t])
              \/ Goes(w, ok, [x EXCEPT !.stage = t, !.result = i])
              \/ Goes(w, ok, [x EXCEPT !.stage = t, !.inputs = {i}])
      BY <1>4 DEF VerifierGoes
    <2>1. PICK x \in At(w, "verify", s) : \E ok, t, i :
              \/ Goes(w, ok, [x EXCEPT !.stage = t])
              \/ Goes(w, ok, [x EXCEPT !.stage = t, !.result = i])
              \/ Goes(w, ok, [x EXCEPT !.stage = t, !.inputs = {i}])
      BY <2>0
    <2>2. PICK ok, t, i :
              \/ Goes(w, ok, [x EXCEPT !.stage = t])
              \/ Goes(w, ok, [x EXCEPT !.stage = t, !.result = i])
              \/ Goes(w, ok, [x EXCEPT !.stage = t, !.inputs = {i}])
      BY <2>1
    <2>3. PICK y : /\ Goes(w, ok, y)
                   /\ \/ y = [x EXCEPT !.stage = t] \/ y = [x EXCEPT !.stage = t, !.result = i]
                      \/ y = [x EXCEPT !.stage = t, !.inputs = {i}]
      BY <2>2
    <2>4. x.program = "verify" /\ DOMAIN x = Fields["verify"] /\ \A j \in x.inputs : x.inputs = {j}
      BY <1>2, AtJob DEF WellFormed
    <2>5. {"program", "stage", "result", "inputs"} \subseteq DOMAIN x
      BY <2>4 DEF Fields
    <2>6. DOMAIN y = DOMAIN x /\ y.program = "verify" /\ \A j \in y.inputs : y.inputs = {j}
      <3>1. CASE y = [x EXCEPT !.stage = t] \/ y = [x EXCEPT !.stage = t, !.result = i]
        BY <2>4, <2>5, <3>1
      <3>2. CASE y = [x EXCEPT !.stage = t, !.inputs = {i}]
        BY <2>4, <2>5, <3>2
      <3> QED
        BY <2>3, <3>1, <3>2
    <2>7. WellFormed(y)
      BY <2>4, <2>6 DEF WellFormed, IsEvaluation, Program
    <2> QED
      BY <2>3, <2>6, <2>7, CheckMoves
  <1>5. CASE LoadResult(w)
    BY <1>1, <1>4, <1>5 DEF LoadResult, VerifierGoes
  <1>6. CASE ReverifyEmbeddings(w)
    BY <1>1, <1>4, <1>6 DEF ReverifyEmbeddings, VerifierGoes
  <1>7. CASE ReverifyPredictions(w)
    BY <1>1, <1>4, <1>7 DEF ReverifyPredictions, VerifierGoes
  <1>8. CASE RehashPairs(w)
    BY <1>1, <1>4, <1>8 DEF RehashPairs, VerifierGoes
  <1>9. CASE RereadPairs(w)
    BY <1>1, <1>4, <1>9 DEF RereadPairs, VerifierGoes
  <1>10. CASE CompareScores(w)
    BY <1>1, <1>4, <1>10 DEF CompareScores, VerifierGoes
  <1> QED
    BY <1>3, <1>5, <1>6, <1>7, <1>8, <1>9, <1>10 DEF VerifierChecks

LEMMA WriteVerificationMoves ==
    ASSUME NEW w \in Worker, WriteVerification(w)
    PROVE  /\ Moves(w, "verify")
           /\ UNCHANGED <<selectionVars, embedding, reproduced, fitted, canonical, probe, generated,
                          published, stale, output, calm, overlap>>
  <1>1. UNCHANGED <<selectionVars, embedding, reproduced, fitted, canonical, probe, generated,
                    published, stale, output, calm, overlap>>
    BY DEF WriteVerification, probeVars, pairVars
  <1>2. job' = [job EXCEPT ![w] = {}]
    BY DEF WriteVerification, Goes
  <1> QED
    BY <1>1, <1>2, StopMoves

LEMMA DieMoves ==
    ASSUME NEW w \in Worker, Die(w)
    PROVE  Moves(w, "verify") /\ UNCHANGED fileVars /\ UNCHANGED <<calm, overlap>>
  BY StopMoves DEF Die

\* The run that begins.
BeginsAs(w, x) == WellFormed(x) /\ Begins(w, x)

LEMMA RunBegin ==
    ASSUME NEW w \in Worker, RunBegins(w)
    PROVE  \E x : /\ BeginsAs(w, x)
                  /\ x.program = "evaluate" => BeginEvaluation(w)
                  /\ x.program = "fit" => x.stage = "clear" /\ NotPromotedYet
                  /\ x.program = "verify" => x.stage = "result"
                  /\ x.program \in {"fit", "evaluate"} => x.inputs = {}
  <1> USE DEF BeginsAs, WellFormed, IsEvaluation, Program, Fields
  <1>1. CASE BeginFit(w)
    <2>1. PICK x : /\ x = [program |-> "fit", stage |-> "clear", next |-> 1, inputs |-> {}]
                   /\ Begins(w, x) /\ NotPromotedYet
      BY <1>1 DEF BeginFit
    <2>2. x.program = "fit" /\ WellFormed(x) /\ x.stage = "clear" /\ x.inputs = {}
      BY <2>1
    <2> QED
      BY <2>1, <2>2
  <1>2. CASE BeginGeneration(w)
    <2>1. PICK x : /\ x = [program |-> "generate", stage |-> "report", next |-> 1,
                           selection |-> Unread]
                   /\ Begins(w, x)
      BY <1>2 DEF BeginGeneration
    <2>2. x.program = "generate" /\ WellFormed(x)
      BY <2>1
    <2> QED
      BY <2>1, <2>2
  <1>3. CASE BeginEvaluation(w)
    <2>1. PICK x : /\ x = [program |-> "evaluate", stage |-> "report", next |-> 1,
                           selection |-> Unread, inputs |-> {}]
                   /\ Begins(w, x)
      BY <1>3 DEF BeginEvaluation
    <2>2. x.program = "evaluate" /\ WellFormed(x) /\ x.inputs = {}
      BY <2>1
    <2> QED
      BY <1>3, <2>1, <2>2
  <1>4. CASE BeginVerification(w)
    <2>1. PICK x : /\ x = [program |-> "verify", stage |-> "result", result |-> {},
                           selection |-> Unread, inputs |-> {}]
                   /\ Begins(w, x)
      BY <1>4 DEF BeginVerification
    <2>2. x.program = "verify" /\ WellFormed(x) /\ x.stage = "result"
      BY <2>1
    <2> QED
      BY <2>1, <2>2
  <1> QED
    BY <1>1, <1>2, <1>3, <1>4 DEF RunBegins

LEMMA FileEditsKeep ==
    ASSUME TypedInv, FileEdits
    PROVE  /\ Stirs /\ FilesInv' /\ UNCHANGED <<fitted, probe, output, verification, job, overlap>>
  <1>1. Stirs /\ UNCHANGED <<fitted, probe, output, verification, job, overlap>>
    <2> USE DEF Edits, Stirs, probeVars
    <2>1. CASE PublishManifest \/ Reproduce
      BY <2>1 DEF PublishManifest, Reproduce
    <2>2. CASE \E s \in Selected : Reselect(s) \/ EditTable(s)
      BY <2>2 DEF Reselect, EditTable
    <2>3. CASE \E s \in Selected, k \in 1..3 : EditPredictions(k, s)
      BY <2>3 DEF EditPredictions
    <2>4. CASE \E s \in Selected, k \in 1..3 : EditPairs(k, s)
      BY <2>4 DEF EditPairs
    <2> QED
      BY <2>1, <2>2, <2>3, <2>4 DEF FileEdits
  <1>2. FilesInv'
    <2>1. CASE \/ PublishManifest \/ Reproduce \/ \E s \in Selected : Reselect(s) \/ EditTable(s)
      <3>1. UNCHANGED <<canonical, generated>>
        BY <2>1 DEF PublishManifest, Reproduce, Reselect, EditTable, probeVars, pairVars
      <3> QED
        BY <1>1, <3>1 DEF TypedInv, FilesInv, Single
    <2>2. ASSUME NEW s \in Selected, NEW k \in 1..3, EditPredictions(k, s)
          PROVE  FilesInv'
      <3>1. PICK S : S # {} /\ (\A z \in S : S = {z}) /\ canonical' = [canonical EXCEPT ![k] = S]
        <4>1. PICK p : canonical' = [canonical EXCEPT ![k] = {p}]
          BY <2>2 DEF EditPredictions
        <4>2. PICK S : S = {p}
          OBVIOUS
        <4> QED
          BY <4>1, <4>2
      <3>2. Single(canonical, 3)
        BY DEF TypedInv, FilesInv
      <3>3. Single(canonical', 3)
        BY <3>1, <3>2, OneFile
      <3>4. UNCHANGED generated
        BY <2>2 DEF EditPredictions, pairVars
      <3> QED
        BY <1>1, <3>3, <3>4 DEF TypedInv, FilesInv, Single
    <2>3. ASSUME NEW s \in Selected, NEW k \in 1..3, EditPairs(k, s)
          PROVE  FilesInv'
      <3>1. PICK S : S # {} /\ (\A z \in S : S = {z}) /\ generated' = [generated EXCEPT ![k] = S]
        <4>1. PICK p : generated' = [generated EXCEPT ![k] = {p}]
          BY <2>3 DEF EditPairs
        <4>2. PICK S : S = {p}
          OBVIOUS
        <4> QED
          BY <4>1, <4>2
      <3>2. Single(generated, 3)
        BY DEF TypedInv, FilesInv
      <3>3. Single(generated', 3)
        BY <3>1, <3>2, OneFile
      <3>4. UNCHANGED canonical
        BY <2>3 DEF EditPairs, probeVars
      <3> QED
        BY <1>1, <3>3, <3>4 DEF TypedInv, FilesInv, Single
    <2> QED
      BY <2>1, <2>2, <2>3 DEF FileEdits
  <1> QED
    BY <1>1, <1>2

-----------------------------------------------------------------------------
(* The evaluations.                                                        *)

\* Whoever moves, jobs stay well-formed.
LEMMA JobsStep ==
    ASSUME JobsInv, NEW w \in Worker, NEW p, Moves(w, p), DOMAIN calm' = Worker
    PROVE  JobsInv'
  <1>1. PICK S : /\ job' = [job EXCEPT ![w] = S]
                 /\ \A y \in S : y.program = p /\ WellFormed(y) /\ S = {y}
    BY DEF Moves, GoesOn
  <1>2. DOMAIN job' = Worker /\ \A v \in Worker : job'[v] = IF v = w THEN S ELSE job[v]
    BY <1>1 DEF JobsInv
  <1>3. ASSUME NEW v \in Worker, NEW y \in job'[v] PROVE WellFormed(y) /\ job'[v] = {y}
    <2>1. CASE v = w
      BY <1>1, <1>2, <1>3, <2>1
    <2>2. CASE v # w
      BY <1>2, <1>3, <2>2 DEF JobsInv
    <2> QED
      BY <2>1, <2>2
  <1> QED
    BY <1>2, <1>3 DEF JobsInv, WellFormed, IsEvaluation

\* A step that touches no output and begins no evaluation disturbs nothing: the run of
\* w after it is no evaluation, or was one before its first output.
LEMMA Continues ==
    ASSUME EInv, JobsInv', FilesInv', NEW w \in Worker, NEW p, NEW S, GoesOn(w, p, S),
           output' = output, "evaluate" \notin overlap' => "evaluate" \notin overlap,
           p = "evaluate" => \E x : Checks(w, x, S)
    PROVE  EInv'
  <1>1. \A v \in Worker : job'[v] = IF v = w THEN S ELSE job[v]
    BY DEF EInv, TypedInv, JobsInv, GoesOn
  <1>2. \A y \in S : IsEvaluation(y) => \E x \in job[w] :
                        IsEvaluation(x) /\ x.next = 1 /\ y.next = 1
    BY DEF GoesOn, IsEvaluation, Checks
  <1>3. ASSUME "evaluate" \notin overlap', NEW v \in Worker, NEW y \in job'[v], IsEvaluation(y)
        PROVE  /\ Progress(y)'
               /\ \A u \in Worker : \A z \in job'[u] : IsEvaluation(z) => u = v
    <2>1. PICK x \in job[v] : IsEvaluation(x) /\ (x = y \/ (x.next = 1 /\ y.next = 1))
      <3>1. CASE v = w
        <4>1. y \in S
          BY <1>1, <1>3, <3>1
        <4> QED
          BY <1>2, <1>3, <3>1, <4>1
      <3>2. CASE v # w
        <4>1. y \in job[v]
          BY <1>1, <1>3, <3>2
        <4> QED
          BY <4>1, <1>3
      <3> QED
        BY <3>1, <3>2
    <2>2. Progress(x) /\ \A u \in Worker : \A z \in job[u] : IsEvaluation(z) => u = v
      BY <2>1, <1>3 DEF EInv, AloneInv
    <2>3. Progress(y)'
      BY <2>1, <2>2 DEF Progress
    <2>4. \A u \in Worker : \A z \in job'[u] : IsEvaluation(z) =>
              \E t \in job[u] : IsEvaluation(t)
      BY <1>1, <1>2
    <2> QED
      BY <2>2, <2>3, <2>4
  <1>4. AloneInv'
    BY <1>3 DEF AloneInv, IsEvaluation
  <1>5. OutputsAreOfOneRun'
    BY DEF EInv, OutputsAreOfOneRun
  <1> QED
    BY <1>4, <1>5 DEF EInv, TypedInv

\* So does one of another program.
LEMMA OthersContinue ==
    ASSUME EInv, NEW w \in Worker, NEW p, p # "evaluate", Moves(w, p), DOMAIN calm' = Worker,
           FilesInv', output' = output,
           "evaluate" \notin overlap' => "evaluate" \notin overlap
    PROVE  EInv'
  <1>1. JobsInv'
    BY JobsStep DEF EInv, TypedInv
  <1>2. PICK S : GoesOn(w, p, S)
    BY DEF Moves
  <1> QED
    BY <1>1, <1>2, Continues

LEMMA FilesStay ==
    ASSUME FilesInv, UNCHANGED <<fitted, canonical, generated, output>>
    PROVE  FilesInv'
  BY DEF FilesInv, Single

LEMMA ReadsStay ==
    ASSUME EInv, Reads
    PROVE  FilesInv' /\ DOMAIN calm' = Worker /\ output' = output /\ overlap' = overlap
  BY ReadsKeep, FilesStay DEF EInv, TypedInv, JobsInv

\* An evaluation begins where no output exists.
LEMMA BeginStep ==
    ASSUME EInv, NEW w \in Worker, BeginEvaluation(w), NEW x, BeginsAs(w, x),
           x.program = "evaluate", x.inputs = {}
    PROVE  EInv'
  <1>1. /\ output' = output /\ job' = [job EXCEPT ![w] = {x}] /\ overlap \subseteq overlap'
        /\ (\E v \in Worker : \E y \in job[v] : IsEvaluation(y)) => "evaluate" \in overlap'
        /\ calm' = [calm EXCEPT ![w] = TRUE] /\ Moves(w, "evaluate") /\ UNCHANGED fileVars
    BY Beginning, FilesKeep DEF BeginsAs, Overlaps, IsEvaluation
  <1>2. \A k \in 1..4 : output[k] = {}
    BY NoOutput DEF BeginEvaluation, NotEvaluatedYet
  <1>3. x.next = 1
    <2>1. Begins(w, [program |-> "evaluate", stage |-> "report", next |-> 1,
                     selection |-> Unread, inputs |-> {}])
      BY DEF BeginEvaluation
    <2>2. job'[w] = {x} /\ job'[w] = {[program |-> "evaluate", stage |-> "report", next |-> 1,
                                       selection |-> Unread, inputs |-> {}]}
      BY <1>1, <2>1 DEF Begins, EInv, TypedInv, JobsInv
    <2> QED
      BY <2>2
  <1>4. JobsInv'
    BY <1>1, JobsStep DEF EInv, TypedInv, JobsInv
  <1>5. FilesInv'
    BY <1>1, FilesKeep, FilesStay DEF EInv, TypedInv
  <1>6. \A v \in Worker : job'[v] = IF v = w THEN {x} ELSE job[v]
    BY <1>1 DEF EInv, TypedInv, JobsInv
  <1>7. ASSUME "evaluate" \notin overlap', NEW v \in Worker, NEW y \in job'[v], IsEvaluation(y)
        PROVE  v = w /\ y = x
    <2>1. CASE v = w
      BY <1>6, <1>7, <2>1
    <2>2. CASE v # w
      BY <1>1, <1>6, <1>7, <2>2
    <2> QED
      BY <2>1, <2>2
  <1>8. AloneInv'
    <2> SUFFICES ASSUME "evaluate" \notin overlap', NEW v \in Worker, NEW y \in job'[v],
                        IsEvaluation(y)
                 PROVE  /\ Progress(y)'
                        /\ \A u \in Worker : \A z \in job'[u] : IsEvaluation(z) => u = v
      BY DEF AloneInv, IsEvaluation
    <2>1. v = w /\ y = x
      BY <1>7
    <2>2. \A u \in Worker : \A z \in job'[u] : IsEvaluation(z) => u = w
      BY <1>7
    <2> QED
      BY <1>1, <1>2, <1>3, <2>1, <2>2 DEF Progress
  <1>9. OutputsAreOfOneRun'
    BY <1>1 DEF EInv, OutputsAreOfOneRun
  <1> QED
    BY <1>4, <1>5, <1>8, <1>9 DEF EInv, TypedInv

\* The next output of the evaluation of w is written.
Outputs(w, x, i) ==
    /\ x \in job[w] /\ job[w] = {x} /\ IsEvaluation(x) /\ x.stage = "write" /\ x.next \in 1..4
    /\ x.inputs = {i}
    /\ \A k \in 1..4 : output'[k] = IF k = x.next THEN {Content(x, i)} ELSE output[k]
    /\ DOMAIN output' = 1..4

LEMMA OutputMoves ==
    ASSUME TypedInv, NEW w \in Worker, WriteOutput(w)
    PROVE  /\ Stirs
           /\ UNCHANGED <<selectionVars, embedding, reproduced, fitted, canonical, probe, generated,
                          published, stale, verification, overlap>>
           /\ \E x, i, S : /\ Outputs(w, x, i) /\ GoesOn(w, "evaluate", S)
                           /\ \A y \in S : /\ x.next # 4 /\ y.next = x.next + 1 /\ y.inputs = {i}
                                           /\ y.stage = "write"
  <1>1. Stirs /\ UNCHANGED <<selectionVars, embedding, reproduced, fitted, canonical, probe,
                             generated, published, stale, verification, overlap>>
    BY DEF WriteOutput, Writes, Stirs, probeVars, pairVars
  <1>2. PICK x \in At(w, "evaluate", "write") : \E i \in x.inputs :
            /\ output' = [output EXCEPT ![x.next] = {Content(x, i)}]
            /\ Writes(w, After(x, 4, {}))
    BY DEF WriteOutput, OutputFile
  <1>3. PICK i \in x.inputs : output' = [output EXCEPT ![x.next] = {Content(x, i)}]
    BY <1>2
  <1>4. /\ x \in job[w] /\ job[w] = {x} /\ x.program = "evaluate" /\ x.stage = "write"
        /\ x.next \in 1..4 /\ x.inputs = {i} /\ DOMAIN x = Fields["evaluate"]
    BY AtJob DEF TypedInv, WellFormed, IsEvaluation
  <1>5. Outputs(w, x, i)
    BY <1>3, <1>4 DEF Outputs, IsEvaluation, TypedInv, FilesInv
  <1>6. PICK y : y = [x EXCEPT !.next = @ + 1]
    OBVIOUS
  <1>7. /\ y.program = "evaluate" /\ y.next = x.next + 1 /\ y.inputs = {i} /\ y.stage = "write"
        /\ DOMAIN y = Fields["evaluate"]
    BY <1>4, <1>6 DEF Fields
  <1>8. x.next # 4 => WellFormed(y)
    BY <1>4, <1>7 DEF WellFormed, IsEvaluation, Program
  <1> DEFINE S == IF x.next = 4 THEN {} ELSE {y}
  <1>9. job' = [job EXCEPT ![w] = S]
    BY <1>2, <1>6 DEF Writes, After
  <1>10. \A z \in S : z = y /\ S = {z} /\ x.next # 4
    OBVIOUS
  <1> HIDE DEF S
  <1>11. GoesOn(w, "evaluate", S)
    BY <1>7, <1>8, <1>9, <1>10 DEF GoesOn
  <1>12. \A z \in S : x.next # 4 /\ z.next = x.next + 1 /\ z.inputs = {i} /\ z.stage = "write"
    BY <1>7, <1>10
  <1> QED
    BY <1>1, <1>5, <1>11, <1>12

\* The outputs before it are of the same inputs.
LEMMA OutputStep ==
    ASSUME EInv, NEW w \in Worker, WriteOutput(w)
    PROVE  EInv'
  <1>0. TypedInv
    BY DEF EInv
  <1>1. /\ DOMAIN calm' = Worker /\ UNCHANGED <<fitted, canonical, generated, overlap>>
    BY <1>0, OutputMoves DEF Stirs
  <1>2. PICK x, i, S : /\ Outputs(w, x, i) /\ GoesOn(w, "evaluate", S)
                       /\ \A y \in S : x.next # 4 /\ y.next = x.next + 1 /\ y.inputs = {i}
    BY <1>0, OutputMoves
  <1>3. x \in job[w] /\ IsEvaluation(x) /\ x.next \in 1..4 /\ x.inputs = {i}
    BY <1>2 DEF Outputs
  <1>5. \A v \in Worker : job'[v] = IF v = w THEN S ELSE job[v]
    BY <1>0, <1>2 DEF TypedInv, JobsInv, GoesOn
  <1>8. \A k \in 1..4 : output'[k] = IF k = x.next THEN {Content(x, i)} ELSE output[k]
    BY <1>2 DEF Outputs
  <1>9. TypedInv'
    <2>1. Moves(w, "evaluate")
      BY <1>2 DEF Moves
    <2>2. JobsInv'
      BY <1>0, <1>1, <2>1, JobsStep DEF TypedInv
    <2>3. FilesInv'
      BY <1>0, <1>1, <1>2 DEF TypedInv, FilesInv, Single, Outputs
    <2> QED
      BY <2>2, <2>3 DEF TypedInv
  <1>10. ASSUME "evaluate" \notin overlap'
         PROVE  /\ Progress(x)
                /\ \A v \in Worker : \A z \in job[v] : IsEvaluation(z) => v = w
    BY <1>1, <1>3, <1>10 DEF EInv, AloneInv
  <1>11. ASSUME "evaluate" \notin overlap'
         PROVE  \A k \in 1..3 : k < x.next + 1 => output'[k] = Done(i)[k]
    <2>1. \A k \in 1..3 : k < x.next => output[k] = Done(i)[k]
      BY <1>3, <1>10, <1>11 DEF Progress
    <2>2. x.next < 4 => {Content(x, i)} = Done(i)[x.next]
      <3>1. x.next = 3 => output[1] = {i}
        BY <2>1 DEF Done
      <3>2. CASE x.next = 1
        BY <3>2 DEF Content, Scores, Done
      <3>3. CASE x.next = 2
        BY <3>3 DEF Content, QueryMetrics, Done
      <3>4. CASE x.next = 3
        BY <3>1, <3>4 DEF Content, Scores, QueryMetrics, Done
      <3> QED
        BY <1>3, <3>2, <3>3, <3>4
    <2> QED
      BY <1>3, <1>8, <2>1, <2>2
  <1>12. ASSUME "evaluate" \notin overlap'
         PROVE  \A k \in 1..4 : k > x.next => output'[k] = {}
    <2>1. \A k \in 1..4 : k > x.next => output[k] = {}
      BY <1>3, <1>10, <1>12 DEF Progress
    <2> QED
      BY <1>8, <2>1
  <1>13. AloneInv'
    <2> SUFFICES ASSUME "evaluate" \notin overlap', NEW v \in Worker, NEW z \in job'[v],
                        IsEvaluation(z)
                 PROVE  /\ Progress(z)'
                        /\ \A u \in Worker : \A t \in job'[u] : IsEvaluation(t) => u = v
      BY DEF AloneInv, IsEvaluation
    <2>1. \A u \in Worker : \A t \in job'[u] : IsEvaluation(t) => u = w
      BY <1>5, <1>10
    <2>2. z \in S
      BY <1>5, <2>1
    <2>3. z.next = x.next + 1 /\ z.inputs = {i} /\ x.next # 4
      BY <1>2, <2>2
    <2>4. Progress(z)'
      BY <1>3, <1>11, <1>12, <2>3 DEF Progress
    <2> QED
      BY <2>1, <2>4
  <1>14. OutputsAreOfOneRun'
    <2> SUFFICES ASSUME "evaluate" \notin overlap'
                 PROVE  /\ \A r \in output'[3] : /\ output'[1] = {r.scores}
                                               /\ r.file = output'[1]
                                               /\ output'[2] = {r.metrics}
                        /\ \A c \in output'[4] : c.result = output'[3]
      BY DEF OutputsAreOfOneRun
    <2>1. CASE x.next < 3
      BY <1>3, <1>12, <2>1
    <2>2. CASE x.next >= 3
      <3>1. /\ output'[1] = {i} /\ output'[2] = {i}
            /\ output'[3] = {[scores |-> i, file |-> {i}, metrics |-> i]}
        BY <1>3, <1>11, <2>2 DEF Done
      <3>2. CASE x.next = 3
        BY <1>12, <3>1, <3>2
      <3>3. CASE x.next = 4
        BY <1>8, <3>1, <3>3 DEF Content
      <3> QED
        BY <1>3, <2>2, <3>2, <3>3
    <2> QED
      BY <1>3, <2>1, <2>2
  <1> QED
    BY <1>9, <1>13, <1>14 DEF EInv

LEMMA StepInv == EInv /\ [EvaluationNext]_evaluationVars => EInv'
  <1> SUFFICES ASSUME EInv, [EvaluationNext]_evaluationVars PROVE EInv'
    OBVIOUS
  <1>0. TypedInv /\ FilesInv
    BY DEF EInv, TypedInv
  <1>1. ASSUME FilesInv', job' = job, DOMAIN calm' = Worker, output' = output, overlap' = overlap
        PROVE  EInv'
    BY <1>1 DEF EInv, TypedInv, JobsInv, AloneInv, OutputsAreOfOneRun, WellFormed, IsEvaluation,
                Progress
  <1>2. CASE UNCHANGED evaluationVars
    <2>1. UNCHANGED fileVars /\ UNCHANGED <<job, calm, overlap>>
      BY <1>2 DEF evaluationVars
    <2>2. FilesInv' /\ output' = output
      BY <1>0, <2>1, FilesKeep, FilesStay
    <2> QED
      BY <1>0, <1>1, <2>1, <2>2 DEF TypedInv, JobsInv
  <1>3. CASE FileEdits
    BY <1>0, <1>1, <1>3, FileEditsKeep DEF Stirs
  <1>4. ASSUME NEW w \in Worker, RunBegins(w) PROVE EInv'
    <2>1. PICK x : /\ BeginsAs(w, x)
                   /\ x.program = "evaluate" => BeginEvaluation(w)
                   /\ x.program \in {"fit", "evaluate"} => x.inputs = {}
      BY <1>4, RunBegin
    <2>2. CASE x.program = "evaluate"
      BY <2>1, <2>2, BeginStep
    <2>3. CASE x.program # "evaluate"
      <3>1. /\ Moves(w, x.program) /\ UNCHANGED fileVars /\ Overlaps(w, x.program)
            /\ calm' = [calm EXCEPT ![w] = TRUE]
        BY <2>1, Beginning DEF BeginsAs
      <3>2. /\ FilesInv' /\ output' = output /\ DOMAIN calm' = Worker
            /\ "evaluate" \notin overlap' => "evaluate" \notin overlap
        BY <1>0, <3>1, FilesKeep, FilesStay DEF Overlaps, TypedInv, JobsInv
      <3> QED
        BY <2>3, <3>1, <3>2, OthersContinue
    <2> QED
      BY <2>2, <2>3
  <1>5. ASSUME NEW w \in Worker, FitChecks(w) \/ LoadSplit(w) \/ VerifierChecks(w) PROVE EInv'
    <2>1. (Moves(w, "fit") \/ Moves(w, "generate") \/ Moves(w, "verify")) /\ Reads
      BY <1>0, <1>5, FitCheckMoves, LoadSplitMoves, VerifierChecksMove
    <2> QED
      BY <2>1, ReadsStay, OthersContinue
  <1>6. ASSUME NEW w \in Worker, FitWrites(w) PROVE EInv'
    BY <1>0, <1>6, FitWriteMoves, OthersContinue DEF Stirs
  <1>7. ASSUME NEW w \in Worker, GenerateWrites(w) PROVE EInv'
    BY <1>0, <1>7, GenerateWriteMoves, OthersContinue DEF Stirs
  <1>8. ASSUME NEW w \in Worker, EvaluationChecks(w) PROVE EInv'
    <2>1. PICK x, S : Reads /\ Checks(w, x, S)
      BY <1>0, <1>8, EvaluationChecksMove
    <2>2. GoesOn(w, "evaluate", S) /\ Moves(w, "evaluate")
      BY <2>1 DEF Checks, Moves
    <2>3. FilesInv' /\ DOMAIN calm' = Worker /\ output' = output /\ overlap' = overlap
      BY <2>1, ReadsStay
    <2>4. JobsInv'
      BY <1>0, <2>2, <2>3, JobsStep DEF TypedInv
    <2> QED
      BY <2>1, <2>2, <2>3, <2>4, Continues
  <1>9. ASSUME NEW w \in Worker, WriteVerification(w) \/ Die(w) PROVE EInv'
    <2>1. Moves(w, "verify") /\ UNCHANGED <<fitted, canonical, generated, output, calm, overlap>>
      BY <1>9, WriteVerificationMoves, DieMoves, FilesKeep
    <2>2. FilesInv' /\ DOMAIN calm' = Worker
      BY <1>0, <2>1, FilesStay DEF TypedInv, JobsInv
    <2> QED
      BY <2>1, <2>2, OthersContinue
  <1> QED
    BY <1>2, <1>3, <1>4, <1>5, <1>6, <1>7, <1>8, <1>9, OutputStep, NextSteps

\* The invariant of the evaluations, at all times.
THEOREM Invariance == EvaluationSpec => []EInv
  BY InitInv, StepInv, PTL DEF EvaluationSpec

\* Unless two evaluations were under way at a time, the files of a result are all of
\* one run, whatever runs died and whatever inputs were replaced.
\* (run_method_evaluation)
THEOREM OneRun == EvaluationSpec => []OutputsAreOfOneRun
  <1>1. EInv => OutputsAreOfOneRun
    BY DEF EInv
  <1> QED
    BY <1>1, Invariance, PTL

-----------------------------------------------------------------------------
(* The rows of the predictions.                                            *)

\* Every file of a fit and every promoted copy is of these rows.
Rows(order) == \A k \in 1..3 : \A f \in fitted[k] \cup canonical[k] : f.order = order

\* The stages of a fit that may still be of any selection, and those in which it reads.
Loading == {"load", "report", "named", "manifest", "rows", "table", "matrix"}
Reading == {"report", "named", "manifest", "rows", "table", "matrix", "hash", "read"}

FitRows(x) ==
    /\ probe = {}
    /\ x.stage \in {"clear"} \cup Loading => \A k \in 1..3 : canonical[k] = {}
    /\ x.stage \in Loading => \A k \in 1..3 : fitted[k] = {}
    /\ x.stage \notin {"clear"} \cup Loading => \E i \in x.inputs : Rows(i.order)
    /\ x.stage \in Reading => \A i \in x.inputs : "order" \in DOMAIN i

ProbeRows(c) == c.files[1].order = c.rowOrder /\ c.files[2].order = c.rowOrder

RowsInv == "fit" \notin overlap =>
    /\ \A w \in Worker : \A x \in job[w] : x.program = "fit" =>
          /\ FitRows(x)
          /\ \A v \in Worker : \A y \in job[v] : y.program = "fit" => v = w
    /\ \A c \in probe : ProbeRows(c)

LEMMA RowsKeep ==
    ASSUME TypedInv, RowsInv, NEW w \in Worker, NEW p, p # "fit", Moves(w, p),
           UNCHANGED <<fitted, canonical, probe>>, "fit" \notin overlap' => "fit" \notin overlap
    PROVE  RowsInv'
  <1>0. PICK S : GoesOn(w, p, S)
    BY DEF Moves
  <1>1. job' = [job EXCEPT ![w] = S] /\ \A y \in S : y.program # "fit"
    BY <1>0 DEF GoesOn
  <1>2. \A v \in Worker : \A x \in job'[v] : x.program = "fit" => x \in job[v]
    <2>1. \A v \in Worker : job'[v] = IF v = w THEN S ELSE job[v]
      BY <1>1 DEF TypedInv, JobsInv
    <2> QED
      BY <1>1, <2>1
  <1>3. \A x : FitRows(x) => FitRows(x)'
    BY DEF FitRows, Rows
  <1>4. \A c \in probe : ProbeRows(c) => ProbeRows(c)'
    BY DEF ProbeRows
  <1> QED
    BY <1>2, <1>3, <1>4 DEF RowsInv

\* The only fit goes on.
LEMMA FitGoesOn ==
    ASSUME TypedInv, RowsInv, NEW w \in Worker, NEW x \in job[w], x.program = "fit",
           NEW S, job' = [job EXCEPT ![w] = S], overlap' = overlap, probe' = probe,
           "fit" \notin overlap => \A y \in S : y.program = "fit" => FitRows(y)'
    PROVE  RowsInv'
  <1> SUFFICES ASSUME "fit" \notin overlap
               PROVE  /\ \A v \in Worker : \A y \in job'[v] : y.program = "fit" =>
                            /\ FitRows(y)'
                            /\ \A u \in Worker : \A z \in job'[u] : z.program = "fit" => u = v
                      /\ \A c \in probe' : ProbeRows(c)'
    BY DEF RowsInv
  <1>1. \A v \in Worker : job'[v] = IF v = w THEN S ELSE job[v]
    BY DEF TypedInv, JobsInv
  <1>2. \A v \in Worker : \A y \in job[v] : y.program = "fit" => v = w
    BY DEF RowsInv
  <1>3. \A v \in Worker : \A y \in job'[v] : y.program = "fit" => v = w /\ y \in S
    BY <1>1, <1>2
  <1>4. \A c \in probe' : ProbeRows(c)'
    BY DEF RowsInv, ProbeRows
  <1> QED
    BY <1>3, <1>4

LEMMA RowsCheck ==
    ASSUME TypedInv, RowsInv, NEW w \in Worker, NEW x \in job[w], x.program = "fit", Reads,
           NEW ok, NEW y, Goes(w, ok, y),
           ok => ("fit" \notin overlap => FitRows(y))
    PROVE  RowsInv'
  <1> DEFINE S == IF ok THEN {y} ELSE {}
  <1>1. job' = [job EXCEPT ![w] = S]
    BY DEF Goes
  <1>2. "fit" \notin overlap => \A z \in S : FitRows(z)
    OBVIOUS
  <1> HIDE DEF S
  <1>3. UNCHANGED <<fitted, canonical, probe, overlap>>
    BY ReadsKeep
  <1>4. \A z : FitRows(z) => FitRows(z)'
    BY <1>3 DEF FitRows, Rows
  <1> QED
    BY <1>1, <1>2, <1>3, <1>4, FitGoesOn

LEMMA AtFit ==
    ASSUME TypedInv, RowsInv, NEW w \in Worker, NEW s, NEW x \in At(w, "fit", s)
    PROVE  /\ x \in job[w] /\ x.program = "fit" /\ x.stage = s /\ DOMAIN x = Fields["fit"]
           /\ x.next \in 1..3 /\ \A i \in x.inputs : x.inputs = {i}
           /\ "fit" \notin overlap => FitRows(x)
  BY AtJob DEF TypedInv, WellFormed, RowsInv

\* A check of a fit that only changes its stage.
FitGoes(w, s, t) == \E x \in At(w, "fit", s) : \E ok : Goes(w, ok, [x EXCEPT !.stage = t])

LEMMA FitCheckRows ==
    ASSUME TypedInv, RowsInv, NEW w \in Worker, FitChecks(w)
    PROVE  RowsInv'
  <1>1. Reads
    BY FitCheckMoves
  <1>2. CASE FitLoads(w)
    <2>1. ASSUME NEW s \in Loading, NEW t \in (Loading \ {"load"}) \cup {"hash"},
                 NEW x \in At(w, "fit", s), NEW i, NEW ok,
                 Goes(w, ok, [x EXCEPT !.stage = t, !.inputs = {i}]),
                 "fit" \notin overlap => "order" \in DOMAIN i
          PROVE  RowsInv'
      <3>1. PICK y : y = [x EXCEPT !.stage = t, !.inputs = {i}]
        OBVIOUS
      <3>2. /\ x \in job[w] /\ x.program = "fit" /\ x.stage = s /\ DOMAIN x = Fields["fit"]
            /\ "fit" \notin overlap => FitRows(x)
        BY AtFit
      <3>3. y.stage = t /\ y.inputs = {i}
        BY <3>1, <3>2 DEF Fields
      <3>4. "fit" \notin overlap => FitRows(y)
        BY <2>1, <3>2, <3>3 DEF FitRows, Rows, Loading
      <3>5. Goes(w, ok, y)
        BY <2>1, <3>1
      <3> QED
        BY <1>1, <3>2, <3>4, <3>5, RowsCheck
    <2>2. ASSUME NEW s \in Loading \ {"load"}, NEW t \in (Loading \ {"load"}) \cup {"hash"},
                 NEW x \in At(w, "fit", s), NEW h \in x.inputs, NEW i, DOMAIN i = DOMAIN h,
                 \E ok : Goes(w, ok, [x EXCEPT !.stage = t, !.inputs = {i}])
          PROVE  RowsInv'
      <3>1. x.stage = s /\ ("fit" \notin overlap => FitRows(x))
        BY AtFit
      <3>2. "fit" \notin overlap => "order" \in DOMAIN i
        BY <2>2, <3>1 DEF FitRows, Loading, Reading
      <3>3. PICK ok : Goes(w, ok, [x EXCEPT !.stage = t, !.inputs = {i}])
        BY <2>2
      <3> QED
        BY <2>1, <2>2, <3>2, <3>3
    <2>3. CASE LoadCheckpoint(w)
      <3>1. PICK i : i = [NothingRead EXCEPT !.checkpoint = reproduced]
        OBVIOUS
      <3>2. PICK x \in At(w, "fit", "load") :
                Goes(w, TRUE, [x EXCEPT !.stage = "report", !.inputs = {i}])
        BY <2>3, <3>1 DEF LoadCheckpoint, FitReads
      <3>3. "order" \in DOMAIN i
        BY <3>1 DEF NothingRead
      <3> QED
        BY <2>1, <3>2, <3>3 DEF Loading
    <2>4. CASE LoadSelection(w)
      <3>1. PICK x \in At(w, "fit", "report") : \E i \in x.inputs : \E ok :
                Goes(w, ok, [x EXCEPT !.stage = "named",
                                      !.inputs = {[i EXCEPT !.frozen = report]}])
        BY <2>4 DEF LoadSelection, FitReads
      <3>2. PICK i \in x.inputs : \E ok :
                Goes(w, ok, [x EXCEPT !.stage = "named",
                                      !.inputs = {[i EXCEPT !.frozen = report]}])
        BY <3>1
      <3> QED
        BY <2>2, <3>2 DEF Loading
    <2>5. CASE SelectionReproduced(w)
      <3>1. PICK x \in At(w, "fit", "named") : \E i \in x.inputs : \E ok :
                Goes(w, ok, [x EXCEPT !.stage = "manifest", !.inputs = {i}])
        BY <2>5 DEF SelectionReproduced, FitReads
      <3>2. PICK i \in x.inputs : \E ok :
                Goes(w, ok, [x EXCEPT !.stage = "manifest", !.inputs = {i}])
        BY <3>1
      <3> QED
        BY <2>2, <3>2 DEF Loading
    <2>6. CASE HashRows(w)
      <3>1. PICK x \in At(w, "fit", "manifest") : \E i \in x.inputs : \E ok :
                Goes(w, ok, [x EXCEPT !.stage = "rows", !.inputs = {i}])
        BY <2>6 DEF HashRows, FitReads
      <3>2. PICK i \in x.inputs : \E ok :
                Goes(w, ok, [x EXCEPT !.stage = "rows", !.inputs = {i}])
        BY <3>1
      <3> QED
        BY <2>2, <3>2 DEF Loading
    <2>7. CASE LoadRows(w)
      <3>1. PICK x \in At(w, "fit", "rows") : \E i \in x.inputs : \E ok :
                Goes(w, ok, [x EXCEPT !.stage = "table",
                                      !.inputs = {[i EXCEPT !.order = manifest]}])
        BY <2>7 DEF LoadRows, FitReads
      <3>2. PICK i \in x.inputs : \E ok :
                Goes(w, ok, [x EXCEPT !.stage = "table",
                                      !.inputs = {[i EXCEPT !.order = manifest]}])
        BY <3>1
      <3> QED
        BY <2>2, <3>2 DEF Loading
    <2>8. CASE HashPrimitives(w)
      <3>1. PICK x \in At(w, "fit", "table") : \E i \in x.inputs : \E ok :
                Goes(w, ok, [x EXCEPT !.stage = "matrix", !.inputs = {i}])
        BY <2>8 DEF HashPrimitives, FitReads
      <3>2. PICK i \in x.inputs : \E ok :
                Goes(w, ok, [x EXCEPT !.stage = "matrix", !.inputs = {i}])
        BY <3>1
      <3> QED
        BY <2>2, <3>2 DEF Loading
    <2>9. CASE LoadMatrices(w)
      <3>1. PICK x \in At(w, "fit", "matrix") : \E i \in x.inputs : \E ok :
                Goes(w, ok, [x EXCEPT !.stage = "hash",
                                      !.inputs = {[i EXCEPT !.embedding = embedding]}])
        BY <2>9 DEF LoadMatrices, FitReads
      <3>2. PICK i \in x.inputs : \E ok :
                Goes(w, ok, [x EXCEPT !.stage = "hash",
                                      !.inputs = {[i EXCEPT !.embedding = embedding]}])
        BY <3>1
      <3> QED
        BY <2>2, <3>2 DEF Loading
    <2> QED
      BY <1>2, <2>3, <2>4, <2>5, <2>6, <2>7, <2>8, <2>9 DEF FitLoads
  <1>3. ASSUME NEW s, NEW t, s \notin {"clear"} \cup Loading,
               t \notin {"clear"} \cup Loading \cup Reading, FitGoes(w, s, t)
        PROVE  RowsInv'
    <2>1. PICK x \in At(w, "fit", s) : \E ok : Goes(w, ok, [x EXCEPT !.stage = t])
      BY <1>3 DEF FitGoes
    <2>2. PICK ok : Goes(w, ok, [x EXCEPT !.stage = t])
      BY <2>1
    <2>3. PICK y : y = [x EXCEPT !.stage = t]
      OBVIOUS
    <2>4. /\ x \in job[w] /\ x.program = "fit" /\ x.stage = s /\ DOMAIN x = Fields["fit"]
          /\ "fit" \notin overlap => FitRows(x)
      BY AtFit
    <2>5. y.stage = t /\ y.inputs = x.inputs
      BY <2>3, <2>4 DEF Fields
    <2>6. "fit" \notin overlap => FitRows(y)
      BY <1>3, <2>4, <2>5 DEF FitRows
    <2>7. Goes(w, ok, y)
      BY <2>2, <2>3
    <2> QED
      BY <1>1, <2>4, <2>6, <2>7, RowsCheck
  <1>4. CASE HashLabels(w)
    <2>1. PICK x \in At(w, "fit", "hash") : \E i \in x.inputs : \E ok :
              Goes(w, ok, [x EXCEPT !.stage = "read", !.inputs = {i}])
      BY <1>4 DEF HashLabels, FitReads
    <2>2. PICK i \in x.inputs : \E ok : Goes(w, ok, [x EXCEPT !.stage = "read", !.inputs = {i}])
      BY <2>1
    <2>3. PICK y : y = [x EXCEPT !.stage = "read", !.inputs = {i}]
      OBVIOUS
    <2>4. /\ x \in job[w] /\ x.program = "fit" /\ x.stage = "hash" /\ DOMAIN x = Fields["fit"]
          /\ x.inputs = {i}
          /\ "fit" \notin overlap => FitRows(x)
      BY AtFit
    <2>5. y.stage = "read" /\ y.inputs = x.inputs
      BY <2>3, <2>4 DEF Fields
    <2>6. "fit" \notin overlap => FitRows(y)
      BY <2>4, <2>5 DEF FitRows, Loading, Reading
    <2>7. PICK ok : Goes(w, ok, y)
      BY <2>2, <2>3
    <2> QED
      BY <1>1, <2>4, <2>6, <2>7, RowsCheck
  <1>5. CASE ValidateFit(w)
    <2>1. FitGoes(w, "validate", "copy")
      BY <1>5 DEF ValidateFit, FitGoes
    <2> QED
      BY <1>3, <2>1 DEF Loading, Reading
  <1>6. CASE ReadLabels(w)
    <2>1. PICK x \in At(w, "fit", "read") : \E i \in x.inputs : \E ok :
              Goes(w, ok, [x EXCEPT !.stage = "write",
                                    !.inputs = {[i EXCEPT !.labels = table.labels]}])
      BY <1>6 DEF ReadLabels, FitReads
    <2>2. PICK i \in x.inputs : \E ok :
              Goes(w, ok, [x EXCEPT !.stage = "write",
                                    !.inputs = {[i EXCEPT !.labels = table.labels]}])
      BY <2>1
    <2>3. PICK j, y : /\ j = [i EXCEPT !.labels = table.labels]
                      /\ y = [x EXCEPT !.stage = "write", !.inputs = {j}]
      OBVIOUS
    <2>4. /\ x \in job[w] /\ x.program = "fit" /\ x.stage = "read" /\ DOMAIN x = Fields["fit"]
          /\ x.inputs = {i}
          /\ "fit" \notin overlap => FitRows(x)
      BY AtFit
    <2>5. y.stage = "write" /\ y.inputs = {j}
      BY <2>3, <2>4 DEF Fields
    <2>6. ASSUME "fit" \notin overlap PROVE FitRows(y)
      <3>1. probe = {} /\ Rows(i.order) /\ "order" \in DOMAIN i
        <4>1. FitRows(x)
          BY <2>4, <2>6
        <4>2. /\ probe = {} /\ \E h \in x.inputs : Rows(h.order)
              /\ \A h \in x.inputs : "order" \in DOMAIN h
          BY <2>4, <4>1 DEF FitRows, Loading, Reading
        <4>3. PICK h \in x.inputs : Rows(h.order)
          BY <4>2
        <4>4. h = i
          BY <2>4, <4>3
        <4> QED
          BY <4>2, <4>3, <4>4
      <3>2. j.order = i.order
        BY <2>3, <3>1
      <3> QED
        BY <2>5, <3>1, <3>2 DEF FitRows, Loading, Reading
    <2>7. PICK ok : Goes(w, ok, y)
      BY <2>2, <2>3
    <2> QED
      BY <1>1, <2>4, <2>6, <2>7, RowsCheck
  <1>7. CASE CompareArtifact(w)
    <2>1. PICK x \in At(w, "fit", "compare") : \E ok :
              Goes(w, ok, [x EXCEPT !.stage = IF x.next = 3 THEN "bundle" ELSE "copy",
                                    !.next = IF x.next = 3 THEN @ ELSE @ + 1])
      BY <1>7 DEF CompareArtifact, FitFile
    <2>2. PICK y : y = [x EXCEPT !.stage = IF x.next = 3 THEN "bundle" ELSE "copy",
                                 !.next = IF x.next = 3 THEN @ ELSE @ + 1]
      OBVIOUS
    <2>3. PICK ok : Goes(w, ok, y)
      BY <2>1, <2>2
    <2>4. /\ x \in job[w] /\ x.program = "fit" /\ x.stage = "compare" /\ DOMAIN x = Fields["fit"]
          /\ "fit" \notin overlap => FitRows(x)
      BY AtFit
    <2>5. y.stage \in {"bundle", "copy"} /\ y.inputs = x.inputs
      BY <2>2, <2>4 DEF Fields
    <2>6. "fit" \notin overlap => FitRows(y)
      BY <2>4, <2>5 DEF FitRows, Loading, Reading
    <2> QED
      BY <1>1, <2>3, <2>4, <2>6, RowsCheck
  <1>8. CASE ReadBundle(w)
    <2>1. PICK x \in At(w, "fit", "bundle") :
              Goes(w, canonical[3] # {} /\ \A k \in 1..2 : canonical[k] = fitted[k],
                   [x EXCEPT !.stage = "publish", !.inputs = canonical[3]])
      BY <1>8 DEF ReadBundle
    <2>2. PICK y : y = [x EXCEPT !.stage = "publish", !.inputs = canonical[3]]
      OBVIOUS
    <2> DEFINE ok == canonical[3] # {} /\ \A k \in 1..2 : canonical[k] = fitted[k]
    <2>3. Goes(w, ok, y)
      BY <2>1, <2>2
    <2>4. /\ x \in job[w] /\ x.program = "fit" /\ x.stage = "bundle" /\ DOMAIN x = Fields["fit"]
          /\ "fit" \notin overlap => FitRows(x)
      BY AtFit
    <2>5. y.stage = "publish" /\ y.inputs = canonical[3]
      BY <2>2, <2>4 DEF Fields
    <2>6. ASSUME ok, "fit" \notin overlap PROVE FitRows(y)
      <3>1. PICK i \in x.inputs : probe = {} /\ Rows(i.order)
        BY <2>4, <2>6 DEF FitRows, Loading, Reading
      <3>2. PICK b : b \in canonical[3]
        BY <2>6
      <3>3. b.order = i.order
        BY <3>1, <3>2 DEF Rows
      <3> QED
        BY <2>5, <3>1, <3>2, <3>3 DEF FitRows, Loading, Reading
    <2> HIDE DEF ok
    <2> QED
      BY <1>1, <2>3, <2>4, <2>6, RowsCheck
  <1> QED
    BY <1>2, <1>4, <1>5, <1>6, <1>7, <1>8 DEF FitChecks

LEMMA FitWriteRows ==
    ASSUME TypedInv, RowsInv, NEW w \in Worker, ClearFit(w) \/ PublishFit(w) \/ CopyArtifact(w)
    PROVE  RowsInv'
  <1>1. overlap' = overlap
    BY DEF ClearFit, PublishFit, CopyArtifact, Writes
  <1>2. CASE ClearFit(w)
    <2>1. PICK x \in At(w, "fit", "clear") : Writes(w, {[x EXCEPT !.stage = "load"]})
      BY <1>2 DEF ClearFit
    <2>2. PICK y : y = [x EXCEPT !.stage = "load"]
      OBVIOUS
    <2>3. PICK S : S = {y}
      OBVIOUS
    <2>4. /\ x \in job[w] /\ x.program = "fit" /\ x.stage = "clear" /\ DOMAIN x = Fields["fit"]
          /\ "fit" \notin overlap => FitRows(x)
      BY AtFit
    <2>5. y.stage = "load"
      BY <2>2, <2>4 DEF Fields
    <2>6. job' = [job EXCEPT ![w] = S]
      BY <2>1, <2>2, <2>3 DEF Writes
    <2>7. UNCHANGED <<canonical, probe>> /\ \A k \in 1..3 : fitted'[k] = {}
      BY <1>2, NoFit DEF ClearFit
    <2>8. ASSUME "fit" \notin overlap PROVE FitRows(y)'
      BY <2>4, <2>5, <2>7, <2>8 DEF FitRows, Loading, Reading
    <2> QED
      BY <1>1, <2>3, <2>4, <2>6, <2>7, <2>8, FitGoesOn
  <1>3. CASE PublishFit(w)
    <2>1. PICK x \in At(w, "fit", "write") : \E i \in x.inputs :
              /\ fitted' = [fitted EXCEPT ![x.next] = {Fit(i)}]
              /\ Writes(w, After(x, 3, {[x EXCEPT !.stage = "validate", !.next = 1]}))
      BY <1>3 DEF PublishFit, FitFile
    <2>2. PICK i \in x.inputs : fitted' = [fitted EXCEPT ![x.next] = {Fit(i)}]
      BY <2>1
    <2>3. PICK y : y = IF x.next = 3 THEN [x EXCEPT !.stage = "validate", !.next = 1]
                                     ELSE [x EXCEPT !.next = @ + 1]
      OBVIOUS
    <2>4. PICK S : S = {y}
      OBVIOUS
    <2>5. /\ x \in job[w] /\ x.program = "fit" /\ x.stage = "write" /\ DOMAIN x = Fields["fit"]
          /\ x.next \in 1..3 /\ x.inputs = {i}
          /\ "fit" \notin overlap => FitRows(x)
      BY AtFit
    <2>6. y.stage \in {"write", "validate"} /\ y.inputs = {i}
      BY <2>3, <2>5 DEF Fields
    <2>7. job' = [job EXCEPT ![w] = S]
      BY <2>1, <2>3, <2>4 DEF Writes, After
    <2>8. UNCHANGED <<canonical, probe>>
      BY <1>3 DEF PublishFit
    <2>9. \A k \in 1..3 : fitted'[k] = IF k = x.next THEN {Fit(i)} ELSE fitted[k]
      BY <2>2, <2>5 DEF TypedInv, FilesInv, Single
    <2>10. ASSUME "fit" \notin overlap PROVE FitRows(y)'
      <3>1. probe = {} /\ Rows(i.order)
        BY <2>5, <2>10 DEF FitRows, Loading, Reading
      <3>2. Fit(i).order = i.order
        BY DEF Fit
      <3>3. \A k \in 1..3 : \A f \in fitted'[k] \cup canonical'[k] : f.order = i.order
        BY <2>8, <2>9, <3>1, <3>2 DEF Rows
      <3> QED
        BY <2>6, <2>8, <3>1, <3>3 DEF FitRows, Rows, Loading, Reading
    <2> QED
      BY <1>1, <2>4, <2>5, <2>7, <2>8, <2>10, FitGoesOn
  <1>4. CASE CopyArtifact(w)
    <2>1. PICK x \in At(w, "fit", "copy") :
              /\ canonical' = [canonical EXCEPT ![Promoted[x.next]] = fitted[Promoted[x.next]]]
              /\ Writes(w, {[x EXCEPT !.stage = "compare"]})
      BY <1>4 DEF CopyArtifact
    <2>2. PICK y : y = [x EXCEPT !.stage = "compare"]
      OBVIOUS
    <2>3. PICK S : S = {y}
      OBVIOUS
    <2>4. /\ x \in job[w] /\ x.program = "fit" /\ x.stage = "copy" /\ DOMAIN x = Fields["fit"]
          /\ x.next \in 1..3
          /\ "fit" \notin overlap => FitRows(x)
      BY AtFit
    <2>5. y.stage = "compare" /\ y.inputs = x.inputs
      BY <2>2, <2>4 DEF Fields
    <2>6. job' = [job EXCEPT ![w] = S]
      BY <2>1, <2>2, <2>3 DEF Writes
    <2>7. UNCHANGED <<fitted, probe>>
      BY <1>4 DEF CopyArtifact
    <2>8. PICK m : m = Promoted[x.next]
      OBVIOUS
    <2>9. \A k \in 1..3 : canonical'[k] = canonical[k] \/ canonical'[k] = fitted[k]
      BY <2>1, <2>8 DEF TypedInv, FilesInv, Single
    <2>10. ASSUME "fit" \notin overlap PROVE FitRows(y)'
      <3>1. PICK i \in x.inputs : probe = {} /\ Rows(i.order)
        BY <2>4, <2>10 DEF FitRows, Loading, Reading
      <3>2. \A k \in 1..3 : \A f \in fitted'[k] \cup canonical'[k] : f.order = i.order
        BY <2>7, <2>9, <3>1 DEF Rows
      <3> QED
        BY <2>5, <2>7, <3>1, <3>2 DEF FitRows, Rows, Loading, Reading
    <2> QED
      BY <1>1, <2>3, <2>4, <2>6, <2>7, <2>10, FitGoesOn
  <1> QED
    BY <1>2, <1>3, <1>4

\* The checkpoint is published for the rows of the promoted predictions.
LEMMA PublishRows ==
    ASSUME TypedInv, RowsInv, NEW w \in Worker, PublishProbe(w)
    PROVE  RowsInv' /\ ("fit" \notin overlap => probe = {})
  <1>1. PICK x \in At(w, "fit", "publish") :
            \E i \in x.inputs, train \in canonical[1], test \in canonical[2],
               bundle \in canonical[3] :
                  probe' = {[files |-> <<train, test, bundle>>, rowOrder |-> i.order]}
    BY DEF PublishProbe
  <1>2. PICK i \in x.inputs, train \in canonical[1], test \in canonical[2],
             bundle \in canonical[3] :
                probe' = {[files |-> <<train, test, bundle>>, rowOrder |-> i.order]}
    BY <1>1
  <1>3. /\ x \in job[w] /\ x.program = "fit" /\ x.stage = "publish" /\ x.inputs = {i}
        /\ "fit" \notin overlap => FitRows(x)
    BY AtFit
  <1>4. job' = [job EXCEPT ![w] = {}] /\ overlap' = overlap
    BY DEF PublishProbe, Writes
  <1>5. "fit" \notin overlap => probe = {}
    BY <1>3 DEF FitRows, Loading, Reading
  <1> SUFFICES ASSUME "fit" \notin overlap
               PROVE  /\ \A v \in Worker : \A y \in job'[v] : y.program # "fit"
                      /\ \A c \in probe' : ProbeRows(c)'
    BY <1>4, <1>5 DEF RowsInv
  <1>6. \A v \in Worker : job'[v] = IF v = w THEN {} ELSE job[v]
    BY <1>4 DEF TypedInv, JobsInv
  <1>7. \A v \in Worker : \A y \in job[v] : y.program = "fit" => v = w
    BY <1>3 DEF RowsInv
  <1>8. \A v \in Worker : \A y \in job'[v] : y.program # "fit"
    BY <1>6, <1>7
  <1>9. train.order = i.order /\ test.order = i.order
    BY <1>3 DEF FitRows, Rows, Loading, Reading
  <1>10. \A c \in probe' : ProbeRows(c)'
    BY <1>2, <1>9 DEF ProbeRows
  <1> QED
    BY <1>8, <1>10

\* A fit begins where nothing is promoted.
LEMMA BeginFitRows ==
    ASSUME TypedInv, RowsInv, NEW w \in Worker, NEW x, BeginsAs(w, x), x.program = "fit",
           x.stage = "clear", NotPromotedYet
    PROVE  RowsInv'
  <1>1. /\ UNCHANGED <<fitted, canonical, probe>> /\ job' = [job EXCEPT ![w] = {x}]
        /\ Overlaps(w, "fit")
    BY Beginning, FilesKeep DEF BeginsAs
  <1>2. \A v \in Worker : job'[v] = IF v = w THEN {x} ELSE job[v]
    BY <1>1 DEF TypedInv, JobsInv
  <1>3. probe = {} /\ \A k \in 1..3 : canonical[k] = {}
    BY NoFit DEF NotPromotedYet
  <1>4. FitRows(x)'
    BY <1>1, <1>3 DEF FitRows, Loading, Reading
  <1> SUFFICES ASSUME "fit" \notin overlap'
               PROVE  \A v \in Worker : \A y \in job'[v] : y.program = "fit" => v = w /\ y = x
    BY <1>1, <1>3, <1>4 DEF RowsInv
  <1>5. \A v \in Worker : \A y \in job[v] : y.program # "fit"
    BY <1>1 DEF Overlaps
  <1> QED
    BY <1>2, <1>5

LEMMA RowsStep ==
    ASSUME TypedInv, RowsInv, EvaluationNext
    PROVE  RowsInv'
  <1>0. JobsInv
    BY DEF TypedInv
  <1>1. CASE FileEdits
    <2>1. UNCHANGED <<fitted, probe, job, overlap>>
      BY <1>1, FileEditsKeep
    <2>2. canonical' = canonical \/ probe # {}
      <3>1. CASE \E s \in Selected, k \in 1..3 : EditPredictions(k, s)
        BY <3>1 DEF EditPredictions
      <3>2. CASE PublishManifest \/ Reproduce \/ \E s \in Selected : Reselect(s) \/ EditTable(s)
        BY <3>2 DEF PublishManifest, Reproduce, Reselect, EditTable, probeVars
      <3>3. CASE \E s \in Selected, k \in 1..3 : EditPairs(k, s)
        BY <3>3 DEF EditPairs, probeVars
      <3> QED
        BY <1>1, <3>1, <3>2, <3>3 DEF FileEdits
    <2>3. \A x : FitRows(x) => FitRows(x)'
      BY <2>1, <2>2 DEF FitRows, Rows
    <2>4. \A c \in probe : ProbeRows(c) => ProbeRows(c)'
      BY DEF ProbeRows
    <2> QED
      BY <2>1, <2>3, <2>4 DEF RowsInv
  <1>2. ASSUME NEW w \in Worker, RunBegins(w) PROVE RowsInv'
    <2>1. PICK x : BeginsAs(w, x) /\ (x.program = "fit" => x.stage = "clear" /\ NotPromotedYet)
      BY <1>2, RunBegin
    <2>2. CASE x.program = "fit"
      BY <2>1, <2>2, BeginFitRows
    <2>3. CASE x.program # "fit"
      <3>1. Moves(w, x.program) /\ UNCHANGED fileVars /\ Overlaps(w, x.program)
        BY <2>1, Beginning DEF BeginsAs
      <3>2. /\ UNCHANGED <<fitted, canonical, probe>>
            /\ "fit" \notin overlap' => "fit" \notin overlap
        BY <3>1, FilesKeep DEF Overlaps
      <3> QED
        BY <2>3, <3>1, <3>2, RowsKeep
    <2> QED
      BY <2>2, <2>3
  <1>3. ASSUME NEW w \in Worker,
               \/ LoadSplit(w) \/ GenerateWrites(w) \/ EvaluationChecks(w) \/ WriteOutput(w)
               \/ VerifierChecks(w) \/ WriteVerification(w) \/ Die(w)
        PROVE  \E p \in Program \ {"fit"} :
                  Moves(w, p) /\ UNCHANGED <<fitted, canonical, probe, overlap>>
    <2> USE DEF Program
    <2>1. CASE LoadSplit(w)
      BY <2>1, LoadSplitMoves, ReadsKeep
    <2>2. CASE GenerateWrites(w)
      BY <2>2, GenerateWriteMoves
    <2>3. CASE EvaluationChecks(w)
      BY <2>3, EvaluationChecksMove, ReadsKeep DEF Checks, Moves
    <2>4. CASE WriteOutput(w)
      BY <2>4, OutputMoves DEF Moves
    <2>5. CASE VerifierChecks(w)
      BY <2>5, VerifierChecksMove, ReadsKeep
    <2>6. CASE WriteVerification(w)
      BY <2>6, WriteVerificationMoves
    <2>7. CASE Die(w)
      BY <2>7, DieMoves, FilesKeep
    <2> QED
      BY <1>3, <2>1, <2>2, <2>3, <2>4, <2>5, <2>6, <2>7
  <1>4. ASSUME NEW w \in Worker, NEW p \in Program \ {"fit"},
               Moves(w, p) /\ UNCHANGED <<fitted, canonical, probe, overlap>>
        PROVE  RowsInv'
    BY <1>4, RowsKeep
  <1>5. ASSUME NEW w \in Worker, FitWrites(w) PROVE RowsInv'
    BY <1>5, FitWriteRows, PublishRows DEF FitWrites
  <1> QED
    BY <1>1, <1>2, <1>3, <1>4, <1>5, FitCheckRows, NextSteps

-----------------------------------------------------------------------------
(* What a published checkpoint and a history variable keep.                *)

StaleInv == ~ stale => \A c \in published : generated[3] = {c.report}

LoneProbe == \A c \in probe : probe = {c}

\* Checkpoints stay as they are published, unless two fits overlap.
Later ==
    /\ probe' = probe \/ \E c : probe' = {c}
    /\ overlap \subseteq overlap'
    /\ "fit" \notin overlap' => (probe # {} => probe' = probe)
    /\ ~ stale' => ~ stale
    /\ published # {} => published' = published

LEMMA FileEditsLater ==
    ASSUME TypedInv, StaleInv, FileEdits
    PROVE  Later /\ StaleInv'
  <1>1. UNCHANGED <<probe, overlap>>
    BY FileEditsKeep
  <1>2. CASE PublishManifest
    <2>1. published = {} /\ stale' = stale /\ generated' = generated
      BY <1>2 DEF PublishManifest
    <2>2. \A c \in published' : \E r \in generated[3] : c.report = r
      BY <1>2 DEF PublishManifest
    <2>3. \A r \in generated[3] : generated[3] = {r}
      BY DEF TypedInv, FilesInv, Single
    <2> QED
      BY <1>1, <2>1, <2>2, <2>3 DEF Later, StaleInv
  <1>3. CASE \E s \in Selected, k \in 1..3 : EditPairs(k, s)
    <2>1. published' = published /\ KeepsReport
      BY <1>3 DEF EditPairs
    <2> QED
      BY <1>1, <2>1 DEF Later, StaleInv, KeepsReport, PairFile
  <1>4. CASE UNCHANGED <<published, stale, generated>>
    BY <1>1, <1>4 DEF Later, StaleInv
  <1>5. CASE Reproduce \/ \E s \in Selected : Reselect(s) \/ EditTable(s)
    BY <1>4, <1>5 DEF Reproduce, Reselect, EditTable, pairVars
  <1>6. CASE \E s \in Selected, k \in 1..3 : EditPredictions(k, s)
    BY <1>4, <1>6 DEF EditPredictions, pairVars
  <1> QED
    BY <1>2, <1>3, <1>5, <1>6 DEF FileEdits

LEMMA GenerateLater ==
    ASSUME TypedInv, StaleInv, NEW w \in Worker, GenerateWrites(w)
    PROVE  Later /\ StaleInv'
  <1>1. UNCHANGED <<probe, overlap, published>>
    BY GenerateWriteMoves
  <1>2. CASE WriteStreams(w)
    <2>1. PICK x \in At(w, "generate", "write") :
              x.next < 3 /\ generated' = [generated EXCEPT ![x.next] = {PairsOf(x.selection)}]
      BY <1>2 DEF WriteStreams, PairFile
    <2>2. x.next \in 1..3
      BY AtJob DEF TypedInv, WellFormed
    <2>3. generated'[3] = generated[3]
      BY <2>1, <2>2 DEF TypedInv, FilesInv, Single
    <2>4. stale' = stale
      BY <1>2 DEF WriteStreams
    <2> QED
      BY <1>1, <2>3, <2>4 DEF Later, StaleInv
  <1>3. CASE WriteReport(w)
    <2>1. KeepsReport
      BY <1>3 DEF WriteReport
    <2> QED
      BY <1>1, <2>1 DEF Later, StaleInv, KeepsReport, PairFile
  <1> QED
    BY <1>2, <1>3 DEF GenerateWrites

LEMMA LaterStep ==
    ASSUME TypedInv, RowsInv, StaleInv, EvaluationNext
    PROVE  Later /\ StaleInv'
  <1>1. ASSUME UNCHANGED <<generated, published, stale>>, overlap \subseteq overlap',
               "fit" \notin overlap' => (probe # {} => probe' = probe),
               probe' = probe \/ \E c : probe' = {c}
        PROVE  Later /\ StaleInv'
    BY <1>1 DEF Later, StaleInv
  <1>2. ASSUME NEW w \in Worker, RunBegins(w)
        PROVE  Later /\ StaleInv'
    <2>1. PICK x : BeginsAs(w, x)
      BY <1>2, RunBegin
    <2>2. UNCHANGED fileVars /\ Overlaps(w, x.program)
      BY <2>1, Beginning DEF BeginsAs
    <2> QED
      BY <1>1, <2>2, FilesKeep DEF Overlaps
  <1>3. ASSUME Reads PROVE Later /\ StaleInv'
    BY <1>1, <1>3, ReadsKeep
  <1>4. ASSUME NEW w \in Worker,
               FitChecks(w) \/ LoadSplit(w) \/ EvaluationChecks(w) \/ VerifierChecks(w)
        PROVE  Reads
    BY <1>4, FitCheckMoves, LoadSplitMoves, EvaluationChecksMove, VerifierChecksMove
  <1>5. ASSUME NEW w \in Worker, FitWrites(w) PROVE Later /\ StaleInv'
    <2>1. UNCHANGED <<generated, published, stale, overlap>>
      BY <1>5, FitWriteMoves
    <2>2. CASE PublishProbe(w)
      <3>1. \E c : probe' = {c}
        BY <2>2 DEF PublishProbe
      <3> QED
        BY <1>1, <2>1, <2>2, <3>1, PublishRows
    <2>3. CASE ClearFit(w) \/ PublishFit(w) \/ CopyArtifact(w)
      <3>1. probe' = probe
        BY <2>3 DEF ClearFit, PublishFit, CopyArtifact
      <3> QED
        BY <1>1, <2>1, <3>1
    <2> QED
      BY <1>5, <2>2, <2>3 DEF FitWrites
  <1>6. ASSUME NEW w \in Worker, WriteOutput(w) PROVE Later /\ StaleInv'
    BY <1>1, <1>6, OutputMoves
  <1>7. ASSUME NEW w \in Worker, WriteVerification(w) \/ Die(w) PROVE Later /\ StaleInv'
    BY <1>1, <1>7, WriteVerificationMoves, DieMoves, FilesKeep
  <1> QED
    BY <1>2, <1>3, <1>4, <1>5, <1>6, <1>7, FileEditsLater, GenerateLater, NextSteps

LEMMA LoneStep ==
    ASSUME LoneProbe, Later
    PROVE  LoneProbe'
  BY DEF LoneProbe, Later

-----------------------------------------------------------------------------
(* What scores match.                                                      *)

\* The published predictions are of these rows.
RowOrder(order) == "fit" \notin overlap =>
    probe # {} /\ \A c \in probe : c.rowOrder = order

\* The published report of the pairs has the scaling of these labels.
ScaledAs(labels) == ~ stale =>
    published # {} /\ \A d \in published : Scale[d.report.labels] = Scale[labels]

PartlyMatches(s) ==
    /\ RowOrder(s.selection.order) /\ ScaledAs(s.selection.labels)
    /\ s.pairs.order = s.selection.order

Matches(s) == PartlyMatches(s) /\ Oracle[s.pairs.labels] = Oracle[s.selection.labels]

\* How much of that an evaluation has made sure of.
EvaluationMatches(x) == x.program = "evaluate" =>
    /\ x.stage \in {"negatives", "scaling", "pairs", "streams"} => RowOrder(x.selection.order)
    /\ x.stage \in {"scaling", "pairs", "streams"} => published # {}
    /\ x.stage \in {"pairs", "streams"} =>
          \A i \in x.inputs : ~ stale => \A d \in published : i.report = d.report
    /\ x.stage = "score" => \A i \in x.inputs : PartlyMatches(i)
    /\ x.stage = "write" => \A i \in x.inputs : Matches(i)

MatchInv ==
    /\ \A w \in Worker : \A x \in job[w] : EvaluationMatches(x)
    /\ \A s \in output[1] : Matches(s)

LEMMA MatchLater ==
    ASSUME Later
    PROVE  /\ \A s : PartlyMatches(s) => PartlyMatches(s)'
           /\ \A s : Matches(s) => Matches(s)'
           /\ \A x : EvaluationMatches(x) => EvaluationMatches(x)'
  <1>1. \A o : RowOrder(o) => RowOrder(o)'
    BY DEF Later, RowOrder
  <1>2. \A l : ScaledAs(l) => ScaledAs(l)'
    BY DEF Later, ScaledAs
  <1>3. \A s : PartlyMatches(s) => PartlyMatches(s)'
    BY <1>1, <1>2 DEF PartlyMatches
  <1>4. \A s : Matches(s) => Matches(s)'
    BY <1>3 DEF Matches
  <1>5. \A x : EvaluationMatches(x) => EvaluationMatches(x)'
    BY <1>1, <1>3, <1>4 DEF EvaluationMatches, Later
  <1> QED
    BY <1>3, <1>4, <1>5

LEMMA MatchGoes ==
    ASSUME TypedInv, MatchInv, Later, NEW w \in Worker, NEW S, job' = [job EXCEPT ![w] = S],
           \A y \in S : EvaluationMatches(y)', \A s \in output'[1] : s \in output[1] \/ Matches(s)'
    PROVE  MatchInv'
  <1>1. \A v \in Worker : job'[v] = IF v = w THEN S ELSE job[v]
    BY DEF TypedInv, JobsInv
  <1> QED
    BY <1>1, MatchLater DEF MatchInv

LEMMA MatchOthers ==
    ASSUME TypedInv, MatchInv, Later, NEW w \in Worker, NEW p, p # "evaluate", Moves(w, p),
           output' = output
    PROVE  MatchInv'
  <1>1. PICK S : GoesOn(w, p, S)
    BY DEF Moves
  <1>2. job' = [job EXCEPT ![w] = S] /\ \A y \in S : y.program # "evaluate"
    BY <1>1 DEF GoesOn
  <1>3. \A y \in S : EvaluationMatches(y)'
    BY <1>2 DEF EvaluationMatches
  <1> QED
    BY <1>2, <1>3, MatchGoes

LEMMA MatchCheck ==
    ASSUME TypedInv, MatchInv, Later, NEW w \in Worker, Reads, NEW ok, NEW y, Goes(w, ok, y),
           ok => EvaluationMatches(y)
    PROVE  MatchInv'
  <1> DEFINE S == IF ok THEN {y} ELSE {}
  <1>1. job' = [job EXCEPT ![w] = S]
    BY DEF Goes
  <1>2. \A z \in S : EvaluationMatches(z)
    OBVIOUS
  <1> HIDE DEF S
  <1>3. \A z \in S : EvaluationMatches(z)'
    BY <1>2, MatchLater
  <1>4. output' = output
    BY ReadsKeep
  <1> QED
    BY <1>1, <1>3, <1>4, MatchGoes

LEMMA AtEvaluation ==
    ASSUME TypedInv, MatchInv, NEW w \in Worker, NEW s, NEW x \in At(w, "evaluate", s)
    PROVE  /\ x.program = "evaluate" /\ x.stage = s /\ DOMAIN x = Fields["evaluate"]
           /\ \A i \in x.inputs : x.inputs = {i}
           /\ EvaluationMatches(x)
  BY AtJob DEF TypedInv, WellFormed, MatchInv

LEMMA VerifyPredictionsMatch ==
    ASSUME TypedInv, LoneProbe, MatchInv, Later, NEW w \in Worker, VerifyPredictions(w)
    PROVE  MatchInv'
  <1>1. Reads
    BY DEF VerifyPredictions
  <1>2. PICK x \in At(w, "evaluate", "predictions") : \E i \in x.inputs :
            \/ \E c \in probe :
                 Goes(w, PredictionsVerified(c) /\ SameRows(c, x.selection.order),
                      [x EXCEPT !.stage = "negatives",
                                !.inputs = {[embedding |-> i.embedding,
                                             predictions |-> <<c.files[1], c.files[2]>>]}])
            \/ Goes(w, FALSE, x)
    BY DEF VerifyPredictions
  <1>3. CASE Goes(w, FALSE, x)
    BY <1>1, <1>3, MatchCheck
  <1>4. ASSUME NEW i \in x.inputs, NEW c \in probe,
               Goes(w, PredictionsVerified(c) /\ SameRows(c, x.selection.order),
                    [x EXCEPT !.stage = "negatives",
                              !.inputs = {[embedding |-> i.embedding,
                                           predictions |-> <<c.files[1], c.files[2]>>]}])
        PROVE  MatchInv'
    <2>1. PICK j : j = [embedding |-> i.embedding, predictions |-> <<c.files[1], c.files[2]>>]
      OBVIOUS
    <2>2. PICK y : y = [x EXCEPT !.stage = "negatives", !.inputs = {j}]
      OBVIOUS
    <2> DEFINE ok == PredictionsVerified(c) /\ SameRows(c, x.selection.order)
    <2>3. Goes(w, ok, y)
      BY <1>4, <2>1, <2>2
    <2>6. x.program = "evaluate" /\ DOMAIN x = Fields["evaluate"]
      BY AtEvaluation
    <2>4. y.program = "evaluate" /\ y.stage = "negatives" /\ y.selection = x.selection
      BY <2>2, <2>6 DEF Fields
    <2>5. ASSUME ok PROVE EvaluationMatches(y)
      <3>1. \A a \in probe : a.rowOrder = x.selection.order
        <4>1. c.rowOrder = x.selection.order
          BY <2>5 DEF SameRows
        <4>2. \A a \in probe : a = c
          BY DEF LoneProbe
        <4> QED
          BY <4>1, <4>2
      <3> QED
        BY <2>4, <3>1 DEF EvaluationMatches, RowOrder
    <2> HIDE DEF ok
    <2> QED
      BY <1>1, <2>3, <2>5, MatchCheck
  <1> QED
    BY <1>2, <1>3, <1>4

LEMMA StageMatch ==
    ASSUME TypedInv, MatchInv, StaleInv, Later, NEW w \in Worker,
           HashPairReport(w) \/ ReadPairReport(w) \/ HashPairs(w)
    PROVE  MatchInv'
  <1>1. Reads
    BY DEF HashPairReport, ReadPairReport, HashPairs
  <1>2. CASE HashPairReport(w)
    <2>1. PICK x \in At(w, "evaluate", "negatives") : \E ok :
              (ok => published # {}) /\ Goes(w, ok, [x EXCEPT !.stage = "scaling"])
      BY <1>2 DEF HashPairReport
    <2>2. PICK ok : (ok => published # {}) /\ Goes(w, ok, [x EXCEPT !.stage = "scaling"])
      BY <2>1
    <2>3. PICK y : y = [x EXCEPT !.stage = "scaling"]
      OBVIOUS
    <2>4. /\ x.program = "evaluate" /\ x.stage = "negatives" /\ DOMAIN x = Fields["evaluate"]
          /\ EvaluationMatches(x)
      BY AtEvaluation
    <2>5. y.program = "evaluate" /\ y.stage = "scaling" /\ y.selection = x.selection
      BY <2>3, <2>4 DEF Fields
    <2>6. ok => EvaluationMatches(y)
      BY <2>2, <2>4, <2>5 DEF EvaluationMatches
    <2>7. Goes(w, ok, y)
      BY <2>2, <2>3
    <2> QED
      BY <1>1, <2>6, <2>7, MatchCheck
  <1>3. CASE ReadPairReport(w)
    <2>1. PICK x \in At(w, "evaluate", "scaling") : \E i \in x.inputs, r \in generated[3] :
              Goes(w, TRUE, [x EXCEPT !.stage = "pairs",
                                      !.inputs = {[embedding |-> i.embedding,
                                                   predictions |-> i.predictions, report |-> r]}])
      BY <1>3 DEF ReadPairReport
    <2>2. PICK i \in x.inputs, r \in generated[3] :
              Goes(w, TRUE, [x EXCEPT !.stage = "pairs",
                                      !.inputs = {[embedding |-> i.embedding,
                                                   predictions |-> i.predictions, report |-> r]}])
      BY <2>1
    <2>3. PICK j : j = [embedding |-> i.embedding, predictions |-> i.predictions, report |-> r]
      OBVIOUS
    <2>4. PICK y : y = [x EXCEPT !.stage = "pairs", !.inputs = {j}]
      OBVIOUS
    <2>5. Goes(w, TRUE, y)
      BY <2>2, <2>3, <2>4
    <2>6. /\ x.program = "evaluate" /\ x.stage = "scaling" /\ DOMAIN x = Fields["evaluate"]
          /\ EvaluationMatches(x)
      BY AtEvaluation
    <2>7. /\ y.program = "evaluate" /\ y.stage = "pairs" /\ y.selection = x.selection
          /\ y.inputs = {j} /\ j.report = r
      BY <2>3, <2>4, <2>6 DEF Fields
    <2>8. ~ stale => \A d \in published : d.report = r
      BY DEF StaleInv
    <2>9. EvaluationMatches(y)
      BY <2>6, <2>7, <2>8 DEF EvaluationMatches
    <2> QED
      BY <1>1, <2>5, <2>9, MatchCheck
  <1>4. CASE HashPairs(w)
    <2>1. PICK x \in At(w, "evaluate", "pairs") : \E ok :
              Goes(w, ok, [x EXCEPT !.stage = "streams"])
      BY <1>4 DEF HashPairs
    <2>2. PICK ok : Goes(w, ok, [x EXCEPT !.stage = "streams"])
      BY <2>1
    <2>3. PICK y : y = [x EXCEPT !.stage = "streams"]
      OBVIOUS
    <2>4. /\ x.program = "evaluate" /\ x.stage = "pairs" /\ DOMAIN x = Fields["evaluate"]
          /\ EvaluationMatches(x)
      BY AtEvaluation
    <2>5. /\ y.program = "evaluate" /\ y.stage = "streams" /\ y.selection = x.selection
          /\ y.inputs = x.inputs
      BY <2>3, <2>4 DEF Fields
    <2>6. EvaluationMatches(y)
      BY <2>4, <2>5 DEF EvaluationMatches
    <2>7. Goes(w, ok, y)
      BY <2>2, <2>3
    <2> QED
      BY <1>1, <2>6, <2>7, MatchCheck
  <1> QED
    BY <1>2, <1>3, <1>4

LEMMA ReadPairsMatch ==
    ASSUME TypedInv, MatchInv, Later, NEW w \in Worker, ReadPairs(w)
    PROVE  MatchInv'
  <1>1. Reads
    BY DEF ReadPairs
  <1>2. PICK x \in At(w, "evaluate", "streams") :
          \E i \in x.inputs, c \in published, q \in generated[1] :
            Goes(w, /\ q.order = x.selection.order
                    /\ generated[2] = {c.pairs} /\ c.pairs.order = x.selection.order
                    /\ SameScaling(i.report, x.selection.labels),
                 [x EXCEPT !.stage = "score",
                           !.inputs = {[selection |-> x.selection, embedding |-> i.embedding,
                                        predictions |-> i.predictions, pairs |-> c.pairs]}])
    BY DEF ReadPairs
  <1>3. PICK i \in x.inputs, c \in published, q \in generated[1] :
            Goes(w, /\ q.order = x.selection.order
                    /\ generated[2] = {c.pairs} /\ c.pairs.order = x.selection.order
                    /\ SameScaling(i.report, x.selection.labels),
                 [x EXCEPT !.stage = "score",
                           !.inputs = {[selection |-> x.selection, embedding |-> i.embedding,
                                        predictions |-> i.predictions, pairs |-> c.pairs]}])
    BY <1>2
  <1>4. PICK j : j = [selection |-> x.selection, embedding |-> i.embedding,
                      predictions |-> i.predictions, pairs |-> c.pairs]
    OBVIOUS
  <1>5. PICK y : y = [x EXCEPT !.stage = "score", !.inputs = {j}]
    OBVIOUS
  <1>6. /\ x.program = "evaluate" /\ x.stage = "streams" /\ DOMAIN x = Fields["evaluate"]
        /\ x.inputs = {i} /\ EvaluationMatches(x)
    BY AtEvaluation
  <1>7. y.program = "evaluate" /\ y.stage = "score" /\ y.inputs = {j}
    BY <1>5, <1>6 DEF Fields
  <1>8. j.selection = x.selection /\ j.pairs = c.pairs
    BY <1>4
  <1> DEFINE ok == /\ q.order = x.selection.order
                   /\ generated[2] = {c.pairs} /\ c.pairs.order = x.selection.order
                   /\ SameScaling(i.report, x.selection.labels)
  <1>9. Goes(w, ok, y)
    BY <1>3, <1>4, <1>5
  <1>10. ASSUME ok PROVE EvaluationMatches(y)
    <2>1. RowOrder(j.selection.order)
      BY <1>6, <1>8 DEF EvaluationMatches
    <2>2. ~ stale => \A d \in published : i.report = d.report
      BY <1>6 DEF EvaluationMatches
    <2>3. ScaledAs(j.selection.labels)
      BY <1>8, <1>10, <2>2 DEF ScaledAs, SameScaling
    <2>4. j.pairs.order = j.selection.order
      BY <1>8, <1>10
    <2>5. PartlyMatches(j)
      BY <2>1, <2>3, <2>4 DEF PartlyMatches
    <2> QED
      BY <1>7, <1>8, <2>5 DEF EvaluationMatches
  <1> HIDE DEF ok
  <1> QED
    BY <1>1, <1>9, <1>10, MatchCheck

\* What a map is read as is of the same selection and the same pairs.
LEMMA MappedSame ==
    ASSUME NEW i, NEW j \in Mapped(i)
    PROVE  j.selection = i.selection /\ j.pairs = i.pairs
  BY DEF Mapped

LEMMA ScoreMatch ==
    ASSUME TypedInv, MatchInv, Later, NEW w \in Worker, Score(w)
    PROVE  MatchInv'
  <1>1. Reads
    BY DEF Score
  <1>2. PICK x \in At(w, "evaluate", "score") : \E i \in x.inputs : \E j \in Mapped(i) :
            Goes(w, OracleIsExact(j), [x EXCEPT !.stage = "write", !.inputs = {j}])
    BY DEF Score
  <1>3. PICK i \in x.inputs : \E j \in Mapped(i) :
            Goes(w, OracleIsExact(j), [x EXCEPT !.stage = "write", !.inputs = {j}])
    BY <1>2
  <1>4. PICK j \in Mapped(i) :
            Goes(w, OracleIsExact(j), [x EXCEPT !.stage = "write", !.inputs = {j}])
    BY <1>3
  <1>5. PICK y : y = [x EXCEPT !.stage = "write", !.inputs = {j}]
    OBVIOUS
  <1>6. /\ x.program = "evaluate" /\ x.stage = "score" /\ DOMAIN x = Fields["evaluate"]
        /\ EvaluationMatches(x)
    BY AtEvaluation
  <1>7. y.program = "evaluate" /\ y.stage = "write" /\ y.inputs = {j}
    BY <1>5, <1>6 DEF Fields
  <1>8. PartlyMatches(i)
    BY <1>6 DEF EvaluationMatches
  <1>9. PartlyMatches(j)
    BY <1>8, MappedSame DEF PartlyMatches
  <1>10. OracleIsExact(j) => EvaluationMatches(y)
    BY <1>7, <1>9 DEF EvaluationMatches, Matches, OracleIsExact
  <1>11. Goes(w, OracleIsExact(j), y)
    BY <1>4, <1>5
  <1> QED
    BY <1>1, <1>10, <1>11, MatchCheck

\* What an evaluation writes first is what it has scored.
LEMMA OutputMatch ==
    ASSUME TypedInv, MatchInv, Later, NEW w \in Worker, WriteOutput(w)
    PROVE  MatchInv'
  <1>1. PICK x, i, S : /\ Outputs(w, x, i) /\ GoesOn(w, "evaluate", S)
                       /\ \A y \in S : y.inputs = {i} /\ y.stage = "write"
    BY OutputMoves
  <1>2. /\ x \in job[w] /\ x.program = "evaluate" /\ x.stage = "write" /\ x.inputs = {i}
        /\ x.next \in 1..4 /\ output'[1] = IF 1 = x.next THEN {Content(x, i)} ELSE output[1]
    BY <1>1 DEF Outputs, IsEvaluation
  <1>3. Matches(i)
    BY <1>2 DEF MatchInv, EvaluationMatches
  <1>4. Matches(i)'
    BY <1>3, MatchLater
  <1>5. \A y \in S : EvaluationMatches(y)'
    BY <1>1, <1>4 DEF EvaluationMatches
  <1>6. x.next = 1 => Content(x, i) = i
    BY DEF Content, Scores
  <1>7. \A s \in output'[1] : s \in output[1] \/ Matches(s)'
    BY <1>2, <1>4, <1>6
  <1>8. job' = [job EXCEPT ![w] = S]
    BY <1>1 DEF GoesOn
  <1> QED
    BY <1>5, <1>7, <1>8, MatchGoes

LEMMA MatchStep ==
    ASSUME TypedInv, RowsInv, LoneProbe, StaleInv, MatchInv, EvaluationNext
    PROVE  MatchInv'
  <1>0. Later /\ JobsInv
    BY LaterStep DEF TypedInv
  <1>1. CASE FileEdits
    <2>1. job' = job /\ output' = output
      BY <1>1, FileEditsKeep
    <2> QED
      BY <1>0, <2>1, MatchLater DEF MatchInv
  <1>2. ASSUME NEW w \in Worker, RunBegins(w) PROVE MatchInv'
    <2>1. PICK x : BeginsAs(w, x) /\ (x.program = "evaluate" => BeginEvaluation(w))
      BY <1>2, RunBegin
    <2>2. /\ output' = output /\ Moves(w, x.program) /\ job' = [job EXCEPT ![w] = {x}]
      BY <2>1, Beginning, FilesKeep DEF BeginsAs
    <2>3. CASE x.program # "evaluate"
      BY <1>0, <2>2, <2>3, MatchOthers
    <2>4. CASE x.program = "evaluate"
      <3>1. PICK z : /\ z = [program |-> "evaluate", stage |-> "report", next |-> 1,
                             selection |-> Unread, inputs |-> {}]
                     /\ Begins(w, z)
        BY <2>1, <2>4 DEF BeginEvaluation
      <3>2. PICK S : S = {z} /\ job' = [job EXCEPT ![w] = S]
        BY <3>1 DEF Begins
      <3>3. \A y \in S : EvaluationMatches(y)'
        BY <3>1, <3>2 DEF EvaluationMatches
      <3> QED
        BY <1>0, <2>2, <3>2, <3>3, MatchGoes
    <2> QED
      BY <2>3, <2>4
  <1>3. ASSUME NEW w \in Worker, ReadSelection(w) PROVE MatchInv'
    <2>1. SelectionStep(w, "evaluate", "embeddings")
      BY <1>3 DEF ReadSelection
    <2>2. PICK x \in job[w] : \E y, ok :
              /\ Reads /\ Goes(w, ok, y) /\ y.program = "evaluate"
              /\ y.stage \in SelectionStage \cup {"embeddings"}
      BY <1>0, <2>1, SelectionGoes
    <2>3. PICK y, ok : /\ Reads /\ Goes(w, ok, y) /\ y.program = "evaluate"
                       /\ y.stage \in SelectionStage \cup {"embeddings"}
      BY <2>2
    <2>4. EvaluationMatches(y)
      BY <2>3 DEF EvaluationMatches, SelectionStage
    <2> QED
      BY <1>0, <2>3, <2>4, MatchCheck
  <1>4. ASSUME NEW w \in Worker, VerifyEmbeddings(w) PROVE MatchInv'
    <2>1. Reads
      BY <1>4 DEF VerifyEmbeddings
    <2>2. PICK x \in At(w, "evaluate", "embeddings") : \E ok, i :
              Goes(w, ok, [x EXCEPT !.stage = "predictions", !.inputs = {i}])
      BY <1>4 DEF VerifyEmbeddings
    <2>3. PICK ok, i : Goes(w, ok, [x EXCEPT !.stage = "predictions", !.inputs = {i}])
      BY <2>2
    <2>4. PICK y : y = [x EXCEPT !.stage = "predictions", !.inputs = {i}]
      OBVIOUS
    <2>5. DOMAIN x = Fields["evaluate"]
      BY AtEvaluation
    <2>6. y.stage = "predictions"
      BY <2>4, <2>5 DEF Fields
    <2>7. EvaluationMatches(y)
      BY <2>6 DEF EvaluationMatches
    <2> QED
      BY <1>0, <2>1, <2>3, <2>4, <2>7, MatchCheck
  <1>5. ASSUME NEW w \in Worker, EvaluationChecks(w) PROVE MatchInv'
    BY <1>0, <1>3, <1>4, <1>5, VerifyPredictionsMatch, StageMatch, ReadPairsMatch, ScoreMatch
       DEF EvaluationChecks
  <1>6. ASSUME NEW w \in Worker,
               \/ FitChecks(w) \/ FitWrites(w) \/ LoadSplit(w) \/ GenerateWrites(w)
               \/ VerifierChecks(w) \/ WriteVerification(w) \/ Die(w)
        PROVE  \E p \in Program \ {"evaluate"} : Moves(w, p) /\ output' = output
    <2> USE DEF Program
    <2>1. CASE FitChecks(w)
      BY <2>1, FitCheckMoves, ReadsKeep
    <2>2. CASE FitWrites(w)
      BY <2>2, FitWriteMoves
    <2>3. CASE LoadSplit(w)
      BY <2>3, LoadSplitMoves, ReadsKeep
    <2>4. CASE GenerateWrites(w)
      BY <2>4, GenerateWriteMoves
    <2>5. CASE VerifierChecks(w)
      BY <2>5, VerifierChecksMove, ReadsKeep
    <2>6. CASE WriteVerification(w)
      BY <2>6, WriteVerificationMoves
    <2>7. CASE Die(w)
      BY <2>7, DieMoves, FilesKeep
    <2> QED
      BY <1>6, <2>1, <2>2, <2>3, <2>4, <2>5, <2>6, <2>7
  <1>7. ASSUME NEW w \in Worker, NEW p \in Program \ {"evaluate"}, Moves(w, p), output' = output
        PROVE  MatchInv'
    BY <1>0, <1>7, MatchOthers
  <1> QED
    BY <1>0, <1>1, <1>2, <1>5, <1>6, <1>7, OutputMatch, NextSteps

-----------------------------------------------------------------------------
(* Verified scores.                                                        *)

\* What the checkpoints name as the inputs of scores.
Frozen(c, d) ==
    [selection |-> report, embedding |-> reproduced.embedding,
     predictions |-> <<c.files[1], c.files[2]>>, pairs |-> d.pairs]

\* The promoted predictions are those that the checkpoint names.
Promotes(c) == canonical[1] = {c.files[1]} /\ canonical[2] = {c.files[2]}

\* What a verification knows as long as no file has changed since it began.
Knows(x) ==
    /\ x.stage # "result" => x.result = output[3]
    /\ x.stage \in {"manifest", "table"} => x.selection = report
    /\ x.stage \in {"rows", "primitives"} => table = report
    /\ x.stage \in {"embeddings", "predictions", "pairs", "streams"} => x.selection = report
    /\ x.stage \in {"predictions", "pairs", "streams", "compare"} =>
          embedding = reproduced.embedding
    /\ x.stage = "predictions" => x.inputs = {[embedding |-> reproduced.embedding]}
    /\ x.stage \in {"pairs", "streams"} => \E c \in probe :
          /\ Promotes(c)
          /\ x.inputs = {[embedding |-> reproduced.embedding,
                          predictions |-> <<c.files[1], c.files[2]>>]}
    /\ x.stage = "compare" => \E c \in probe, d \in published :
          Promotes(c) /\ x.inputs = {Frozen(c, d)}
    /\ x.stage = "write" => \E c \in probe, d \in published :
          output[1] = {Frozen(c, d)} /\ \E r \in x.result : r.scores = Frozen(c, d)

VerifiedInv ==
    /\ \A w \in Worker : \A x \in job[w] : x.program = "verify" => (calm[w] => Knows(x))
    /\ VerifiedScoresRestOnFrozenInputs
    /\ VerifiedScoresMatchTheirRows

ScoresInv == EInv /\ RowsInv /\ LoneProbe /\ StaleInv /\ MatchInv /\ VerifiedInv

LEMMA InitScores == EvaluationInit => ScoresInv
  <1> SUFFICES ASSUME EvaluationInit PROVE ScoresInv
    OBVIOUS
  <1>1. output = [k \in 1..4 |-> {}]
    BY NoOutput DEF EvaluationInit
  <1>2. /\ probe = {} /\ published = {} /\ verification = {} /\ output[1] = {}
        /\ \A w \in Worker : job[w] = {}
    BY <1>1 DEF EvaluationInit
  <1>3. RowsInv /\ LoneProbe /\ StaleInv /\ MatchInv
    BY <1>2 DEF RowsInv, LoneProbe, StaleInv, MatchInv
  <1>4. VerifiedInv
    BY <1>2 DEF VerifiedInv, VerifiedScoresRestOnFrozenInputs, VerifiedScoresMatchTheirRows
  <1> QED
    BY <1>3, <1>4, InitInv DEF ScoresInv

\* No file that a verification rests on is touched, or nobody is calm any more.
Minds(w) ==
    \/ \A v \in Worker : ~ calm'[v]
    \/ /\ UNCHANGED <<report, table, embedding, reproduced, canonical, probe, published, output>>
       /\ \A v \in Worker : v # w => calm'[v] = calm[v]

LEMMA ReadsMinds ==
    ASSUME Reads, NEW w \in Worker
    PROVE  Minds(w) /\ verification' = verification
  BY ReadsKeep DEF Minds, selectionVars

LEMMA KnowsKeep ==
    ASSUME UNCHANGED <<report, table, embedding, reproduced, canonical, probe, published, output>>,
           NEW x, Knows(x)
    PROVE  Knows(x)'
  <1>1. \A c, d : Frozen(c, d)' = Frozen(c, d) /\ (Promotes(c) <=> Promotes(c)')
    BY DEF Frozen, Promotes
  <1> QED
    BY <1>1 DEF Knows

LEMMA VerifiedStays ==
    ASSUME VerifiedInv, Later, verification' = verification
    PROVE  (VerifiedScoresRestOnFrozenInputs /\ VerifiedScoresMatchTheirRows)'
  BY DEF VerifiedInv, Later, VerifiedScoresRestOnFrozenInputs, VerifiedScoresMatchTheirRows

LEMMA KnowsOthers ==
    ASSUME TypedInv, VerifiedInv, NEW w \in Worker, NEW S, job' = [job EXCEPT ![w] = S], Minds(w),
           \A y \in S : y.program = "verify" => (calm'[w] => Knows(y)')
    PROVE  \A v \in Worker : \A y \in job'[v] : y.program = "verify" => (calm'[v] => Knows(y)')
  <1>1. \A v \in Worker : job'[v] = IF v = w THEN S ELSE job[v]
    BY DEF TypedInv, JobsInv
  <1>2. CASE \A v \in Worker : ~ calm'[v]
    BY <1>2
  <1>3. CASE /\ UNCHANGED <<report, table, embedding, reproduced, canonical, probe, published,
                            output>>
             /\ \A v \in Worker : v # w => calm'[v] = calm[v]
    <2> SUFFICES ASSUME NEW v \in Worker, NEW y \in job'[v], y.program = "verify", calm'[v]
                 PROVE  Knows(y)'
      OBVIOUS
    <2>1. CASE v = w
      BY <1>1, <2>1
    <2>2. CASE v # w
      <3>1. y \in job[v] /\ calm[v]
        BY <1>1, <1>3, <2>2
      <3>2. Knows(y)
        BY <3>1 DEF VerifiedInv
      <3> QED
        BY <1>3, <3>2, KnowsKeep
    <2> QED
      BY <2>1, <2>2
  <1> QED
    BY <1>2, <1>3 DEF Minds

LEMMA KnowsMoves ==
    ASSUME TypedInv, VerifiedInv, Later, NEW w \in Worker, NEW p, p # "verify", Moves(w, p),
           Minds(w), verification' = verification
    PROVE  VerifiedInv'
  <1>1. PICK S : GoesOn(w, p, S)
    BY DEF Moves
  <1>2. job' = [job EXCEPT ![w] = S] /\ \A y \in S : y.program # "verify"
    BY <1>1 DEF GoesOn
  <1>3. \A v \in Worker : \A y \in job'[v] : y.program = "verify" => (calm'[v] => Knows(y)')
    BY <1>2, KnowsOthers
  <1> QED
    BY <1>3, VerifiedStays DEF VerifiedInv

\* A check of a verification.
LEMMA KnowsGoes ==
    ASSUME TypedInv, VerifiedInv, Later, NEW w \in Worker, Reads, NEW ok, NEW y, Goes(w, ok, y),
           ok => (calm[w] => Knows(y))
    PROVE  VerifiedInv'
  <1> DEFINE S == IF ok THEN {y} ELSE {}
  <1>1. job' = [job EXCEPT ![w] = S]
    BY DEF Goes
  <1>2. \A z \in S : calm[w] => Knows(z)
    OBVIOUS
  <1> HIDE DEF S
  <1>3. /\ UNCHANGED <<report, table, embedding, reproduced, canonical, probe, published, output,
                       calm, verification>>
        /\ Minds(w)
    BY ReadsKeep, ReadsMinds DEF selectionVars
  <1>4. \A z \in S : calm'[w] => Knows(z)'
    BY <1>2, <1>3, KnowsKeep
  <1>5. \A v \in Worker : \A z \in job'[v] : z.program = "verify" => (calm'[v] => Knows(z)')
    BY <1>1, <1>3, <1>4, KnowsOthers
  <1> QED
    BY <1>3, <1>5, VerifiedStays DEF VerifiedInv

LEMMA AtVerify ==
    ASSUME TypedInv, VerifiedInv, NEW w \in Worker, NEW s, NEW x \in At(w, "verify", s)
    PROVE  /\ x.program = "verify" /\ x.stage = s /\ DOMAIN x = Fields["verify"]
           /\ \A i \in x.inputs : x.inputs = {i}
           /\ calm[w] => Knows(x)
  BY AtJob DEF TypedInv, WellFormed, VerifiedInv

LEMMA LoadResultKnows ==
    ASSUME TypedInv, VerifiedInv, Later, NEW w \in Worker, LoadResult(w)
    PROVE  VerifiedInv'
  <1>1. PICK x \in At(w, "verify", "result") :
            Goes(w, output[3] # {}, [x EXCEPT !.stage = "report", !.result = output[3]])
    BY DEF LoadResult
  <1>2. PICK y : y = [x EXCEPT !.stage = "report", !.result = output[3]]
    OBVIOUS
  <1>3. DOMAIN x = Fields["verify"]
    BY AtVerify
  <1>4. y.stage = "report" /\ y.result = output[3]
    BY <1>2, <1>3 DEF Fields
  <1>5. Knows(y)
    BY <1>4 DEF Knows
  <1>6. Reads
    BY DEF LoadResult
  <1>7. PICK ok : Goes(w, ok, y)
    BY <1>1, <1>2
  <1> QED
    BY <1>5, <1>6, <1>7, KnowsGoes

LEMMA RereadKnows ==
    ASSUME TypedInv, VerifiedInv, Later, NEW w \in Worker, RereadSelection(w)
    PROVE  VerifiedInv'
  <1>1. Reads /\ \/ LoadReport(w, "verify") \/ HashManifest(w, "verify")
                 \/ HashTable(w, "verify") \/ ReadRows(w, "verify")
                 \/ ReadPrimitives(w, "verify", "embeddings")
    BY DEF RereadSelection, SelectionStep
  <1>3. CASE LoadReport(w, "verify")
    <2>1. PICK x \in At(w, "verify", "report") :
              Goes(w, TRUE, [x EXCEPT !.stage = "manifest", !.selection = report])
      BY <1>3 DEF LoadReport
    <2>2. PICK y : y = [x EXCEPT !.stage = "manifest", !.selection = report]
      OBVIOUS
    <2>3. /\ x.stage = "report" /\ DOMAIN x = Fields["verify"]
          /\ calm[w] => Knows(x)
      BY AtVerify
    <2>6. y.stage = "manifest" /\ y.result = x.result /\ y.selection = report
      BY <2>2, <2>3 DEF Fields
    <2>4. calm[w] => Knows(y)
      BY <2>3, <2>6 DEF Knows
    <2> QED
      BY <1>1, <2>1, <2>2, <2>4, KnowsGoes
  <1>4. CASE HashManifest(w, "verify")
    <2>1. PICK x \in At(w, "verify", "manifest") : \E ok : Goes(w, ok, [x EXCEPT !.stage = "table"])
      BY <1>4 DEF HashManifest
    <2>2. PICK y : y = [x EXCEPT !.stage = "table"]
      OBVIOUS
    <2>3. /\ x.stage = "manifest" /\ DOMAIN x = Fields["verify"]
          /\ calm[w] => Knows(x)
      BY AtVerify
    <2>6. y.stage = "table" /\ y.result = x.result /\ y.selection = x.selection
      BY <2>2, <2>3 DEF Fields
    <2>4. calm[w] => Knows(y)
      BY <2>3, <2>6 DEF Knows
    <2>5. PICK ok : Goes(w, ok, y)
      BY <2>1, <2>2
    <2> QED
      BY <1>1, <2>4, <2>5, KnowsGoes
  <1>5. CASE HashTable(w, "verify")
    <2>1. PICK x \in At(w, "verify", "table") :
              Goes(w, table = x.selection, [x EXCEPT !.stage = "rows"])
      BY <1>5 DEF HashTable
    <2>2. PICK y : y = [x EXCEPT !.stage = "rows"]
      OBVIOUS
    <2>3. /\ x.stage = "table" /\ DOMAIN x = Fields["verify"]
          /\ calm[w] => Knows(x)
      BY AtVerify
    <2>6. y.stage = "rows" /\ y.result = x.result
      BY <2>2, <2>3 DEF Fields
    <2>4. table = x.selection => (calm[w] => Knows(y))
      BY <2>3, <2>6 DEF Knows
    <2>5. Goes(w, table = x.selection, y)
      BY <2>1, <2>2
    <2> QED
      BY <1>1, <2>4, <2>5, KnowsGoes
  <1>6. CASE ReadRows(w, "verify")
    <2>1. PICK x \in At(w, "verify", "rows") :
              Goes(w, TRUE, [x EXCEPT !.stage = "primitives", !.selection.order = manifest])
      BY <1>6 DEF ReadRows
    <2>2. PICK y : y = [x EXCEPT !.stage = "primitives", !.selection.order = manifest]
      OBVIOUS
    <2>3. /\ x.stage = "rows" /\ DOMAIN x = Fields["verify"]
          /\ calm[w] => Knows(x)
      BY AtVerify
    <2>6. y.stage = "primitives" /\ y.result = x.result
      BY <2>2, <2>3 DEF Fields
    <2>4. calm[w] => Knows(y)
      BY <2>3, <2>6 DEF Knows
    <2> QED
      BY <1>1, <2>1, <2>2, <2>4, KnowsGoes
  <1>7. CASE ReadPrimitives(w, "verify", "embeddings")
    <2>1. PICK x \in At(w, "verify", "primitives") : \E ok :
              Goes(w, ok, [x EXCEPT !.stage = "embeddings", !.selection = table])
      BY <1>7 DEF ReadPrimitives
    <2>2. PICK y : y = [x EXCEPT !.stage = "embeddings", !.selection = table]
      OBVIOUS
    <2>3. /\ x.stage = "primitives" /\ DOMAIN x = Fields["verify"]
          /\ calm[w] => Knows(x)
      BY AtVerify
    <2>6. y.stage = "embeddings" /\ y.result = x.result /\ y.selection = table
      BY <2>2, <2>3 DEF Fields
    <2>4. calm[w] => Knows(y)
      BY <2>3, <2>6 DEF Knows
    <2>5. PICK ok : Goes(w, ok, y)
      BY <2>1, <2>2
    <2> QED
      BY <1>1, <2>4, <2>5, KnowsGoes
  <1> QED
    BY <1>1, <1>3, <1>4, <1>5, <1>6, <1>7

LEMMA ReverifyKnows ==
    ASSUME TypedInv, VerifiedInv, Later, NEW w \in Worker,
           ReverifyEmbeddings(w) \/ ReverifyPredictions(w) \/ RehashPairs(w)
    PROVE  VerifiedInv'
  <1>1. Reads
    BY DEF ReverifyEmbeddings, ReverifyPredictions, RehashPairs
  <1>2. CASE ReverifyEmbeddings(w)
    <2>1. PICK x \in At(w, "verify", "embeddings") :
              Goes(w, EmbeddingsVerified,
                   [x EXCEPT !.stage = "predictions", !.inputs = {[embedding |-> embedding]}])
      BY <1>2 DEF ReverifyEmbeddings
    <2>2. PICK i : i = [embedding |-> embedding]
      OBVIOUS
    <2>3. PICK y : y = [x EXCEPT !.stage = "predictions", !.inputs = {i}]
      OBVIOUS
    <2>4. /\ x.stage = "embeddings" /\ DOMAIN x = Fields["verify"]
          /\ calm[w] => Knows(x)
      BY AtVerify
    <2>5. /\ y.stage = "predictions" /\ y.result = x.result /\ y.selection = x.selection
          /\ y.inputs = {i}
      BY <2>3, <2>4 DEF Fields
    <2>6. EmbeddingsVerified => (calm[w] => Knows(y))
      BY <2>2, <2>4, <2>5 DEF Knows, EmbeddingsVerified
    <2>7. Goes(w, EmbeddingsVerified, y)
      BY <2>1, <2>2, <2>3
    <2> QED
      BY <1>1, <2>6, <2>7, KnowsGoes
  <1>3. CASE ReverifyPredictions(w)
    <2>1. PICK x \in At(w, "verify", "predictions") : \E i \in x.inputs, c \in probe :
              Goes(w, canonical[1] = {c.files[1]} /\ canonical[2] = {c.files[2]},
                   [x EXCEPT !.stage = "pairs",
                             !.inputs = {[embedding |-> i.embedding,
                                          predictions |-> <<c.files[1], c.files[2]>>]}])
      BY <1>3 DEF ReverifyPredictions
    <2>2. PICK i \in x.inputs, c \in probe :
              Goes(w, canonical[1] = {c.files[1]} /\ canonical[2] = {c.files[2]},
                   [x EXCEPT !.stage = "pairs",
                             !.inputs = {[embedding |-> i.embedding,
                                          predictions |-> <<c.files[1], c.files[2]>>]}])
      BY <2>1
    <2>3. PICK j : j = [embedding |-> i.embedding, predictions |-> <<c.files[1], c.files[2]>>]
      OBVIOUS
    <2>4. PICK y : y = [x EXCEPT !.stage = "pairs", !.inputs = {j}]
      OBVIOUS
    <2>5. /\ x.stage = "predictions" /\ DOMAIN x = Fields["verify"] /\ x.inputs = {i}
          /\ calm[w] => Knows(x)
      BY AtVerify
    <2>6. /\ y.stage = "pairs" /\ y.result = x.result /\ y.selection = x.selection
          /\ y.inputs = {j}
      BY <2>4, <2>5 DEF Fields
    <2>7. ASSUME Promotes(c), calm[w] PROVE Knows(y)
      <3>1. i = [embedding |-> reproduced.embedding]
        BY <2>5, <2>7 DEF Knows
      <3>2. j = [embedding |-> reproduced.embedding,
                 predictions |-> <<c.files[1], c.files[2]>>]
        BY <2>3, <3>1
      <3> QED
        BY <2>5, <2>6, <2>7, <3>2 DEF Knows
    <2>8. Goes(w, Promotes(c), y)
      BY <2>2, <2>3, <2>4 DEF Promotes
    <2> QED
      BY <1>1, <2>7, <2>8, KnowsGoes
  <1>4. CASE RehashPairs(w)
    <2>1. PICK x \in At(w, "verify", "pairs") : \E ok : Goes(w, ok, [x EXCEPT !.stage = "streams"])
      BY <1>4 DEF RehashPairs
    <2>2. PICK y : y = [x EXCEPT !.stage = "streams"]
      OBVIOUS
    <2>3. /\ x.stage = "pairs" /\ DOMAIN x = Fields["verify"]
          /\ calm[w] => Knows(x)
      BY AtVerify
    <2>4. /\ y.stage = "streams" /\ y.result = x.result /\ y.selection = x.selection
          /\ y.inputs = x.inputs
      BY <2>2, <2>3 DEF Fields
    <2>5. calm[w] => Knows(y)
      BY <2>3, <2>4 DEF Knows
    <2>6. PICK ok : Goes(w, ok, y)
      BY <2>1, <2>2
    <2> QED
      BY <1>1, <2>5, <2>6, KnowsGoes
  <1> QED
    BY <1>2, <1>3, <1>4

LEMMA RereadPairsKnows ==
    ASSUME TypedInv, VerifiedInv, Later, NEW w \in Worker, RereadPairs(w)
    PROVE  VerifiedInv'
  <1>1. Reads
    BY DEF RereadPairs
  <1>2. PICK x \in At(w, "verify", "streams") : \E i \in x.inputs, d \in published : \E ok :
            Goes(w, ok, [x EXCEPT !.stage = "compare",
                                  !.inputs = {[selection |-> x.selection,
                                               embedding |-> i.embedding,
                                               predictions |-> i.predictions,
                                               pairs |-> d.pairs]}])
    BY DEF RereadPairs
  <1>3. PICK i \in x.inputs, d \in published : \E ok :
            Goes(w, ok, [x EXCEPT !.stage = "compare",
                                  !.inputs = {[selection |-> x.selection,
                                               embedding |-> i.embedding,
                                               predictions |-> i.predictions,
                                               pairs |-> d.pairs]}])
    BY <1>2
  <1>4. PICK j : j = [selection |-> x.selection, embedding |-> i.embedding,
                      predictions |-> i.predictions, pairs |-> d.pairs]
    OBVIOUS
  <1>5. PICK y : y = [x EXCEPT !.stage = "compare", !.inputs = {j}]
    OBVIOUS
  <1>6. /\ x.stage = "streams" /\ DOMAIN x = Fields["verify"] /\ x.inputs = {i}
        /\ calm[w] => Knows(x)
    BY AtVerify
  <1>7. y.stage = "compare" /\ y.result = x.result /\ y.inputs = {j}
    BY <1>5, <1>6 DEF Fields
  <1>8. ASSUME calm[w] PROVE Knows(y)
    <2>1. PICK c \in probe :
              /\ Promotes(c)
              /\ x.inputs = {[embedding |-> reproduced.embedding,
                              predictions |-> <<c.files[1], c.files[2]>>]}
      BY <1>6, <1>8 DEF Knows
    <2>2. i.embedding = reproduced.embedding /\ i.predictions = <<c.files[1], c.files[2]>>
      BY <1>6, <2>1
    <2>3. x.selection = report /\ embedding = reproduced.embedding /\ x.result = output[3]
      BY <1>6, <1>8 DEF Knows
    <2>4. j = Frozen(c, d)
      BY <1>4, <2>2, <2>3 DEF Frozen
    <2> QED
      BY <1>7, <2>1, <2>3, <2>4 DEF Knows
  <1>9. PICK ok : Goes(w, ok, y)
    BY <1>3, <1>4, <1>5
  <1> QED
    BY <1>1, <1>8, <1>9, KnowsGoes

\* The maps of a verification during which no file changed are what was hashed.
LEMMA CompareKnows ==
    ASSUME TypedInv, VerifiedInv, Later, NEW w \in Worker, CompareScores(w)
    PROVE  VerifiedInv'
  <1>1. Reads
    BY DEF CompareScores
  <1>2. PICK x \in At(w, "verify", "compare") : \E i \in x.inputs : \E j \in Mapped(i) :
            Goes(w, Recomputed(x, j), [x EXCEPT !.stage = "write"])
    BY DEF CompareScores
  <1>3. PICK i \in x.inputs : \E j \in Mapped(i) :
            Goes(w, Recomputed(x, j), [x EXCEPT !.stage = "write"])
    BY <1>2
  <1>4. PICK j \in Mapped(i) : Goes(w, Recomputed(x, j), [x EXCEPT !.stage = "write"])
    BY <1>3
  <1>5. PICK y : y = [x EXCEPT !.stage = "write"]
    OBVIOUS
  <1>6. /\ x.stage = "compare" /\ DOMAIN x = Fields["verify"] /\ x.inputs = {i}
        /\ calm[w] => Knows(x)
    BY AtVerify
  <1>7. y.stage = "write" /\ y.result = x.result
    BY <1>5, <1>6 DEF Fields
  <1>8. ASSUME Recomputed(x, j), calm[w] PROVE Knows(y)
    <2>1. PICK c \in probe, d \in published : Promotes(c) /\ x.inputs = {Frozen(c, d)}
      BY <1>6, <1>8 DEF Knows
    <2>2. i = Frozen(c, d) /\ embedding = reproduced.embedding /\ x.result = output[3]
      BY <1>6, <1>8, <2>1 DEF Knows
    <2>3. /\ i.selection = report /\ i.embedding = embedding /\ i.pairs = d.pairs
          /\ i.predictions[1] = c.files[1] /\ i.predictions[2] = c.files[2]
      BY <2>2 DEF Frozen
    <2>4. PICK e \in {i.embedding, embedding}, a \in {i.predictions[1]} \cup canonical[1],
               b \in {i.predictions[2]} \cup canonical[2] :
                 j = [selection |-> i.selection, embedding |-> e, predictions |-> <<a, b>>,
                      pairs |-> i.pairs]
      BY DEF Mapped
    <2>5. e = reproduced.embedding /\ a = c.files[1] /\ b = c.files[2]
      BY <2>1, <2>2, <2>3, <2>4 DEF Promotes
    <2>6. j = Frozen(c, d)
      BY <2>3, <2>4, <2>5 DEF Frozen
    <2>7. output[1] = {j} /\ \E r \in x.result : j = r.scores
      BY <1>8 DEF Recomputed, Recompute
    <2> QED
      BY <1>7, <2>2, <2>6, <2>7 DEF Knows
  <1>9. Goes(w, Recomputed(x, j), y)
    BY <1>4, <1>5
  <1> QED
    BY <1>1, <1>8, <1>9, KnowsGoes

\* What is verified rests on the frozen inputs, and is what an evaluation has matched.
LEMMA WriteVerificationKnows ==
    ASSUME TypedInv, RowsInv, LoneProbe, StaleInv, MatchInv, VerifiedInv, Later, NEW w \in Worker,
           WriteVerification(w)
    PROVE  VerifiedInv'
  <1>1. PICK x \in At(w, "verify", "write") :
            verification' = {[result |-> output[3], scores |-> output[1], calm |-> calm[w],
                              report |-> report, reproduced |-> reproduced, probe |-> probe,
                              published |-> published]}
    BY DEF WriteVerification
  <1>2. PICK v : v = [result |-> output[3], scores |-> output[1], calm |-> calm[w],
                      report |-> report, reproduced |-> reproduced, probe |-> probe,
                      published |-> published]
    OBVIOUS
  <1>3. verification' = {v}
    BY <1>1, <1>2
  <1>4. UNCHANGED <<report, table, embedding, reproduced, canonical, probe, published, stale,
                    output, calm, overlap>>
    BY WriteVerificationMoves DEF selectionVars
  <1>5. \A u \in Worker : \A z \in job'[u] : z.program = "verify" => (calm'[u] => Knows(z)')
    <2>1. PICK S : S = {} /\ job' = [job EXCEPT ![w] = S]
      BY DEF WriteVerification, Goes
    <2>2. Minds(w)
      BY <1>4 DEF Minds
    <2> QED
      BY <2>1, <2>2, KnowsOthers
  <1>6. x.stage = "write" /\ (calm[w] => Knows(x))
    BY AtVerify
  <1>7. v.calm = calm[w] /\ v.scores = output[1] /\ v.result = output[3] /\ v.report = report
        /\ v.reproduced = reproduced /\ v.probe = probe /\ v.published = published
    BY <1>2
  <1>8. ASSUME v.calm
        PROVE  \E c \in probe, d \in published :
                  output[1] = {Frozen(c, d)} /\ \E r \in output[3] : r.scores = Frozen(c, d)
    BY <1>6, <1>7, <1>8 DEF Knows
  <1>9. VerifiedScoresRestOnFrozenInputs'
    <2> SUFFICES ASSUME v.calm
                 PROVE  \E s \in v.scores, c \in v.probe, d \in v.published :
                           /\ s = [selection |-> v.report, embedding |-> v.reproduced.embedding,
                                   predictions |-> <<c.files[1], c.files[2]>>, pairs |-> d.pairs]
                           /\ \E r \in v.result : r.scores = s
      BY <1>3 DEF VerifiedScoresRestOnFrozenInputs
    <2>1. PICK c \in probe, d \in published :
              output[1] = {Frozen(c, d)} /\ \E r \in output[3] : r.scores = Frozen(c, d)
      BY <1>8
    <2>2. PICK s : s = Frozen(c, d)
      OBVIOUS
    <2>3. /\ s \in v.scores /\ c \in v.probe /\ d \in v.published
          /\ \E r \in v.result : r.scores = s
      BY <1>7, <2>1, <2>2
    <2>4. s = [selection |-> v.report, embedding |-> v.reproduced.embedding,
               predictions |-> <<c.files[1], c.files[2]>>, pairs |-> d.pairs]
      BY <1>7, <2>2 DEF Frozen
    <2> QED
      BY <2>3, <2>4
  <1>10. VerifiedScoresMatchTheirRows'
    <2>1. ASSUME v.calm, NEW s \in v.scores
          PROVE  /\ "fit" \notin overlap =>
                      \A k \in 1..2 : s.predictions[k].order = s.selection.order
                 /\ s.pairs.order = s.selection.order
                 /\ Oracle[s.pairs.labels] = Oracle[s.selection.labels]
                 /\ ~ stale =>
                      \A d \in v.published : Scale[d.report.labels] = Scale[s.selection.labels]
      <3>1. PICK c \in probe, d \in published : output[1] = {Frozen(c, d)}
        BY <1>8, <2>1
      <3>2. s = Frozen(c, d) /\ s \in output[1]
        BY <1>7, <2>1, <3>1
      <3>3. Matches(s)
        BY <3>2 DEF MatchInv
      <3>4. s.predictions[1] = c.files[1] /\ s.predictions[2] = c.files[2]
        BY <3>2 DEF Frozen
      <3>5. ASSUME "fit" \notin overlap
            PROVE  \A k \in 1..2 : s.predictions[k].order = s.selection.order
        <4>1. c.rowOrder = s.selection.order
          BY <3>3, <3>5 DEF Matches, PartlyMatches, RowOrder
        <4>2. c.files[1].order = c.rowOrder /\ c.files[2].order = c.rowOrder
          BY <3>5 DEF RowsInv, ProbeRows
        <4> QED
          BY <3>4, <4>1, <4>2
      <3>6. ~ stale => \A e \in v.published : Scale[e.report.labels] = Scale[s.selection.labels]
        BY <1>7, <3>3 DEF Matches, PartlyMatches, ScaledAs
      <3> QED
        BY <3>3, <3>5, <3>6 DEF Matches, PartlyMatches
    <2> QED
      BY <1>3, <1>4, <2>1 DEF VerifiedScoresMatchTheirRows
  <1> QED
    BY <1>5, <1>9, <1>10 DEF VerifiedInv

LEMMA VerifiedStep ==
    ASSUME ScoresInv, EvaluationNext
    PROVE  VerifiedInv'
  <1>0. /\ TypedInv /\ RowsInv /\ LoneProbe /\ StaleInv /\ MatchInv /\ VerifiedInv
        /\ Later /\ DOMAIN job = Worker /\ DOMAIN calm = Worker
    BY LaterStep DEF ScoresInv, EInv, TypedInv, JobsInv
  <1>1. CASE FileEdits
    <2>1. verification' = verification /\ \A v \in Worker : ~ calm'[v]
      BY <1>0, <1>1, FileEditsKeep DEF Stirs
    <2> QED
      BY <1>0, <2>1, VerifiedStays DEF VerifiedInv
  <1>2. ASSUME NEW w \in Worker, RunBegins(w) PROVE VerifiedInv'
    <2>1. PICK x : BeginsAs(w, x) /\ (x.program = "verify" => x.stage = "result")
      BY <1>2, RunBegin
    <2>2. /\ UNCHANGED fileVars /\ calm' = [calm EXCEPT ![w] = TRUE]
          /\ job' = [job EXCEPT ![w] = {x}]
      BY <2>1, Beginning DEF BeginsAs
    <2>3. /\ UNCHANGED <<report, table, embedding, reproduced, canonical, probe, published, output,
                         verification>>
          /\ \A v \in Worker : v # w => calm'[v] = calm[v]
      BY <1>0, <2>2, FilesKeep DEF selectionVars
    <2>4. Minds(w)
      BY <2>3 DEF Minds
    <2>5. PICK S : S = {x} /\ job' = [job EXCEPT ![w] = S]
      BY <2>2
    <2>6. \A y \in S : y.program = "verify" => (calm'[w] => Knows(y)')
      BY <2>1, <2>5 DEF Knows
    <2>7. \A v \in Worker : \A y \in job'[v] : y.program = "verify" => (calm'[v] => Knows(y)')
      BY <1>0, <2>4, <2>5, <2>6, KnowsOthers
    <2> QED
      BY <1>0, <2>3, <2>7, VerifiedStays DEF VerifiedInv
  <1>3. ASSUME NEW w \in Worker,
               \/ FitChecks(w) \/ FitWrites(w) \/ LoadSplit(w) \/ GenerateWrites(w)
               \/ EvaluationChecks(w) \/ WriteOutput(w)
        PROVE  \E p \in Program \ {"verify"} :
                  Moves(w, p) /\ Minds(w) /\ verification' = verification
    <2> USE DEF Program
    <2>1. CASE FitChecks(w)
      BY <1>0, <2>1, FitCheckMoves, ReadsMinds
    <2>2. CASE FitWrites(w)
      BY <1>0, <2>2, FitWriteMoves DEF Stirs, Minds
    <2>3. CASE LoadSplit(w)
      BY <1>0, <2>3, LoadSplitMoves, ReadsMinds
    <2>4. CASE GenerateWrites(w)
      BY <1>0, <2>4, GenerateWriteMoves DEF Stirs, Minds
    <2>5. CASE EvaluationChecks(w)
      BY <1>0, <2>5, EvaluationChecksMove, ReadsMinds DEF Checks, Moves
    <2>6. CASE WriteOutput(w)
      <3>1. \A v \in Worker : ~ calm'[v]
        BY <1>0, <2>6, OutputMoves DEF Stirs
      <3>2. Moves(w, "evaluate") /\ verification' = verification
        BY <1>0, <2>6, OutputMoves DEF Moves
      <3> QED
        BY <3>1, <3>2 DEF Minds
    <2> QED
      BY <1>3, <2>1, <2>2, <2>3, <2>4, <2>5, <2>6
  <1>4. ASSUME NEW w \in Worker, NEW p \in Program \ {"verify"},
               Moves(w, p), Minds(w), verification' = verification
        PROVE  VerifiedInv'
    BY <1>0, <1>4, KnowsMoves
  <1>5. ASSUME NEW w \in Worker, VerifierChecks(w) PROVE VerifiedInv'
    BY <1>0, <1>5, LoadResultKnows, RereadKnows, ReverifyKnows, RereadPairsKnows, CompareKnows
       DEF VerifierChecks
  <1>6. ASSUME NEW w \in Worker, Die(w) PROVE VerifiedInv'
    <2>1. PICK S : S = {} /\ job' = [job EXCEPT ![w] = S]
      BY <1>6 DEF Die
    <2>2. UNCHANGED <<report, table, embedding, reproduced, canonical, probe, published, output,
                      verification, calm>>
      BY <1>6, DieMoves, FilesKeep DEF selectionVars
    <2>3. Minds(w) /\ \A y \in S : FALSE
      BY <2>1, <2>2 DEF Minds
    <2>4. \A v \in Worker : \A y \in job'[v] : y.program = "verify" => (calm'[v] => Knows(y)')
      BY <1>0, <2>1, <2>3, KnowsOthers
    <2> QED
      BY <1>0, <2>2, <2>4, VerifiedStays DEF VerifiedInv
  <1> QED
    BY <1>0, <1>1, <1>2, <1>3, <1>4, <1>5, <1>6, WriteVerificationKnows, NextSteps

LEMMA StepScores == ScoresInv /\ [EvaluationNext]_evaluationVars => ScoresInv'
  <1>1. ASSUME ScoresInv, EvaluationNext PROVE ScoresInv'
    <2>1. EInv' /\ RowsInv' /\ Later /\ StaleInv'
      BY <1>1, StepInv, RowsStep, LaterStep DEF ScoresInv, EInv
    <2>2. LoneProbe'
      BY <1>1, <2>1, LoneStep DEF ScoresInv
    <2>3. MatchInv'
      BY <1>1, MatchStep DEF ScoresInv, EInv
    <2> QED
      BY <1>1, <2>1, <2>2, <2>3, VerifiedStep DEF ScoresInv
  <1>2. ASSUME ScoresInv, UNCHANGED evaluationVars PROVE ScoresInv'
    <2>1. /\ UNCHANGED <<selectionVars, embedding, reproduced, fitted, canonical, probe, generated,
                         published, stale, output, verification>>
          /\ UNCHANGED <<job, calm, overlap>>
      BY <1>2, FilesKeep DEF evaluationVars
    <2>2. EInv'
      BY <1>2, StepInv DEF ScoresInv
    <2>3. \A x : FitRows(x) => FitRows(x)'
      BY <2>1 DEF FitRows, Rows
    <2>4. RowsInv' /\ LoneProbe' /\ StaleInv'
      BY <1>2, <2>1, <2>3 DEF ScoresInv, RowsInv, ProbeRows, LoneProbe, StaleInv
    <2>5. Later
      BY <2>1 DEF Later
    <2>6. MatchInv'
      BY <1>2, <2>1, <2>5, MatchLater DEF ScoresInv, MatchInv
    <2>7. VerifiedInv'
      BY <1>2, <2>1, <2>5, KnowsKeep, VerifiedStays DEF ScoresInv, VerifiedInv, selectionVars
    <2> QED
      BY <2>2, <2>4, <2>6, <2>7 DEF ScoresInv
  <1> QED
    BY <1>1, <1>2

\* The invariant of the scores and of their verification, at all times.
THEOREM ScoresInvariance == EvaluationSpec => []ScoresInv
  BY InitScores, StepScores, PTL DEF EvaluationSpec

\* A verification during which no file changed stands for scores of exactly the
\* selection, the matrices, the predictions and the pairs that the selection report and
\* the checkpoints name.  (verify_method_evaluation)
THEOREM FrozenInputs == EvaluationSpec => []VerifiedScoresRestOnFrozenInputs
  <1>1. ScoresInv => VerifiedScoresRestOnFrozenInputs
    BY DEF ScoresInv, VerifiedInv
  <1> QED
    BY <1>1, ScoresInvariance, PTL

\* Such scores have predictions and pairs of the scored rows and pairs whose oracle is
\* that of the scored labels, and the published report of the pairs has their scaling:
\* the first unless two fits were under way at a time, the last unless the report ever
\* was another one.  It is the evaluation that compared all this, the verification only
\* the rows of the pairs.  (_verify_predictions, verify_evaluation_inputs)
THEOREM MatchingRows == EvaluationSpec => []VerifiedScoresMatchTheirRows
  <1>1. ScoresInv => VerifiedScoresMatchTheirRows
    BY DEF ScoresInv, VerifiedInv
  <1> QED
    BY <1>1, ScoresInvariance, PTL
=============================================================================
