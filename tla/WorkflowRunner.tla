--------------------------- MODULE WorkflowRunner ---------------------------
(***************************************************************************)
(* The workflow kernel, relate/workflows: WorkflowRunner.run with its      *)
(* chain of commitments, blocking, failure, tracing and resume from a      *)
(* checkpoint, and validate_completed_run, which reviews a finished run    *)
(* without executing it.                                                   *)
(*                                                                         *)
(* One workflow of Steps steps is run again and again, each run in some    *)
(* context.  A context is the run_id and the identity mapping; the name    *)
(* and version of the workflow and of its steps are those of the           *)
(* definition throughout.  A commitment is what it was computed from (no   *)
(* collisions), and a step result is its status and commitment payload.    *)
(*                                                                         *)
(* Callers keep the records of runs and hand in checkpoints made of them.  *)
(* A checkpoint may have been altered: another run_id, a result replaced,  *)
(* a record replaced by any record that is kept, a record dropped, a       *)
(* blocked record relabelled (Relabel).  Nobody recomputes commitments     *)
(* over altered records.                                                   *)
(***************************************************************************)
EXTENDS Naturals, Sequences, SequencesExt, FiniteSets

CONSTANTS
    Steps,     \* number of steps of the definition
    RunId, Identity,
    Payload,   \* what a step commits to
    NoContext, \* no run has begun
    Relabel,   \* whether callers relabel blocked records as completed
    MaxRuns,   \* bound on the runs
    MaxKept    \* bound on the runs whose records are kept

ASSUME StepsAssumption == Steps \in Nat \ {0}
ASSUME BoundsAssumption == MaxRuns \in Nat /\ MaxKept \in Nat
ASSUME RelabelAssumption == Relabel \in BOOLEAN

Context == [run : RunId, identity : Identity]

ASSUME NoContextAssumption == NoContext \notin Context

VARIABLES
    ctx,         \* context of the latest run
    phase,       \* where that run is, or how it ended
    records,     \* its StepExecutionRecords
    events,      \* what its trace sink received
    kept,        \* the runs whose records callers keep
    genuine,     \* history: whether the latest run was resumed from a
                 \* checkpoint of its own context that nobody altered
    executed,    \* history: the step executions that produced a result
    runs

vars == <<ctx, phase, records, events, kept, genuine, executed, runs>>

-----------------------------------------------------------------------------
(* Commitments.                                                            *)

Result == [status : {"COMPLETED", "BLOCKED"}, payload : Payload]

InputCommitment(c, i, prior) == [context |-> c, step |-> i, prior |-> prior]
OutputCommitment(i, input, result) == [step |-> i, input |-> input, result |-> result]

\* The output commitments of the first n records of s.
Prior(s, n) == [j \in 1..n |-> s[j].output]

\* step_input_commitment and step_output_commitment recomputed for the record
\* at position i of s, from the context and the result the record carries.
Recomputed(s, i, c) ==
    LET input == InputCommitment(c, i, Prior(s, i - 1)) IN
    /\ s[i].step = i
    /\ s[i].input = input
    /\ s[i].output = OutputCommitment(i, input, s[i].result)

-----------------------------------------------------------------------------
(* Checkpoints.                                                            *)

Checkpoint(run, steps) == [run |-> run, steps |-> steps]

\* Mutant: the output commitment is not recomputed.
ValidResumeInputsOnly(cp, c) ==
    /\ cp.run = c.run
    /\ Len(cp.steps) <= Steps
    /\ \A i \in 1..Len(cp.steps) :
          /\ cp.steps[i].status = "COMPLETED"
          /\ cp.steps[i].step = i
          /\ cp.steps[i].input = InputCommitment(c, i, Prior(cp.steps, i - 1))

\* Mutant: prior_commitments is extended before the input is recomputed.
ValidResumeOffByOne(cp, c) ==
    /\ cp.run = c.run
    /\ Len(cp.steps) <= Steps
    /\ \A i \in 1..Len(cp.steps) :
          /\ cp.steps[i].status = "COMPLETED"
          /\ cp.steps[i].step = i
          /\ cp.steps[i].input = InputCommitment(c, i, Prior(cp.steps, i))

\* _validate_resume.
ValidResume(cp, c) ==
    /\ cp.run = c.run
    /\ Len(cp.steps) <= Steps
    /\ \A i \in 1..Len(cp.steps) :
          cp.steps[i].status = "COMPLETED" /\ Recomputed(cp.steps, i, c)

\* validate_completed_run of a result whose status is COMPLETED.
ValidCompletedRun(s, c) ==
    /\ Len(s) = Steps
    /\ \A i \in 1..Steps :
          /\ s[i].status = "COMPLETED" /\ s[i].result.status = "COMPLETED"
          /\ Recomputed(s, i, c)

-----------------------------------------------------------------------------

Returned == {"COMPLETED", "BLOCKED"}
Ended == Returned \cup {"execution error", "raised", "rejected"}
Active == {"ready", "executing"}
Phase == {"idle"} \cup Active \cup Ended

Init ==
    /\ ctx = NoContext
    /\ phase = "idle"
    /\ records = <<>> /\ events = <<>>
    /\ kept = {} /\ genuine = FALSE
    /\ executed = {}
    /\ runs = 0

\* run(context)
StartRun(c) ==
    /\ phase \notin Active
    /\ runs < MaxRuns /\ runs' = runs + 1
    /\ ctx' = c /\ phase' = "ready"
    /\ records' = <<>> /\ events' = <<>>
    /\ genuine' = FALSE
    /\ UNCHANGED <<kept, executed>>

\* run(context, resume_from=checkpoint)
ResumeRun(c, cp) ==
    /\ phase \notin Active
    /\ runs < MaxRuns /\ runs' = runs + 1
    /\ ctx' = c /\ events' = <<>>
    /\ genuine' = \E k \in kept : k.ctx = c /\ cp = Checkpoint(c.run, k.completed)
    /\ IF ValidResume(cp, c)
       THEN phase' = "ready" /\ records' = cp.steps
       ELSE phase' = "rejected" /\ records' = <<>>
    /\ UNCHANGED <<kept, executed>>

EventType == {"STEP_STARTED", "STEP_COMPLETED", "STEP_BLOCKED", "STEP_FAILED"}

Event == [type : EventType, step : 1..Steps]

Emit(type, i) == events' = Append(events, [type |-> type, step |-> i])

\* The step that runs next.
Current == Len(records) + 1

\* The sink may raise after it received an event: the exception leaves run()
\* as it is, without the records.
OrSinkRaises(next) == phase' = next \/ phase' = "raised"

BeginStep ==
    /\ phase = "ready" /\ Current <= Steps
    /\ Emit("STEP_STARTED", Current)
    /\ OrSinkRaises("executing")
    /\ UNCHANGED <<ctx, records, kept, genuine, executed, runs>>

\* The record of the step that is executing, with its result.
NewRecord(result) ==
    LET input == InputCommitment(ctx, Current, Prior(records, Len(records))) IN
    [step |-> Current, status |-> result.status, input |-> input,
     output |-> OutputCommitment(Current, input, result), result |-> result]

Execution(c, r) == [context |-> c, step |-> r.step, input |-> r.input, result |-> r.result]

\* Mutant: the run goes on after a blocked step.
FinishStepKeepsGoing(result) ==
    /\ phase = "executing"
    /\ records' = Append(records, NewRecord(result))
    /\ executed' = executed \cup {Execution(ctx, NewRecord(result))}
    /\ Emit("STEP_COMPLETED", Current)
    /\ OrSinkRaises("ready")
    /\ UNCHANGED <<ctx, kept, genuine, runs>>

\* step.execute returned a StepResult.
FinishStep(result) ==
    /\ phase = "executing"
    /\ records' = Append(records, NewRecord(result))
    /\ executed' = executed \cup {Execution(ctx, NewRecord(result))}
    /\ IF result.status = "COMPLETED"
       THEN Emit("STEP_COMPLETED", Current) /\ OrSinkRaises("ready")
       ELSE Emit("STEP_BLOCKED", Current) /\ OrSinkRaises("BLOCKED")
    /\ UNCHANGED <<ctx, kept, genuine, runs>>

\* step.execute raised: WorkflowExecutionError carries the records so far.
FailStep ==
    /\ phase = "executing"
    /\ Emit("STEP_FAILED", Current)
    /\ OrSinkRaises("execution error")
    /\ UNCHANGED <<ctx, records, kept, genuine, executed, runs>>

\* step.execute returned something else: the same error, without an event.
ReturnWrongType ==
    /\ phase = "executing"
    /\ phase' = "execution error"
    /\ UNCHANGED <<ctx, records, events, kept, genuine, executed, runs>>

ReturnCompleted ==
    /\ phase = "ready" /\ Len(records) = Steps
    /\ phase' = "COMPLETED"
    /\ UNCHANGED <<ctx, records, events, kept, genuine, executed, runs>>

-----------------------------------------------------------------------------
(* Callers.                                                                *)

\* The records of a WorkflowRunResult or the partial_records of a
\* WorkflowExecutionError are kept.  Those of completed_checkpoint() are the
\* completed ones, and only the last record can be a blocked one.
KeepRecords ==
    /\ phase \in Returned \cup {"execution error"}
    /\ Cardinality(kept) < MaxKept
    /\ kept' = kept \cup
          {[ctx |-> ctx, records |-> records,
            completed |-> IF phase = "BLOCKED" THEN Front(records) ELSE records]}
    /\ UNCHANGED <<ctx, phase, records, events, genuine, executed, runs>>

Known == UNION {Range(k.records) : k \in kept}

Alterations(s) ==
    UNION {{[s EXCEPT ![i].result = result] : result \in Result}
           \cup {[s EXCEPT ![i] = r] : r \in Known}
           \cup {RemoveAt(s, i)} : i \in 1..Len(s)}

Relabelled(s) ==
    IF Relabel THEN {[i \in 1..Len(s) |-> [s[i] EXCEPT !.status = "COMPLETED"]]} ELSE {}

\* The checkpoints a caller can hand in.
Checkpoints ==
    UNION {{Checkpoint(run, steps) :
               run \in RunId,
               steps \in {k.completed} \cup Alterations(k.completed) \cup Relabelled(k.records)} :
           k \in kept}

-----------------------------------------------------------------------------

Run ==
    \/ BeginStep
    \/ \E result \in Result : FinishStep(result)
    \/ FailStep
    \/ ReturnWrongType
    \/ ReturnCompleted

Next ==
    \/ \E c \in Context : StartRun(c)
    \/ \E c \in Context, cp \in Checkpoints : ResumeRun(c, cp)
    \/ Run
    \/ KeepRecords

Spec == Init /\ [][Next]_vars

-----------------------------------------------------------------------------
(* Properties.                                                             *)

TypeOK ==
    /\ ctx \in Context \cup {NoContext}
    /\ phase \in Phase
    /\ Len(records) \in 0..Steps
    /\ events \in Seq(Event) /\ Len(events) <= 2 * Steps
    /\ runs \in 0..MaxRuns

\* Whatever was done to the checkpoints in the meantime: every record of a run
\* stands for a step that was really executed, with this very result, in a run
\* of the same run_id and identity and after the same prior results.
RecordsWereExecuted ==
    \A i \in 1..Len(records) : Execution(ctx, records[i]) \in executed

\* The runner never returns COMPLETED for records the review of completed runs
\* refuses, resumed or not, unless callers relabel blocked records.
CompletedRunValidates ==
    phase = "COMPLETED" /\ ~ Relabel => ValidCompletedRun(records, ctx)

\* No false alarm: a checkpoint that was not altered is accepted by every run in
\* the context it was taken in, wherever the earlier runs of that context
\* stopped and however often they were resumed.
OwnCheckpointAccepted ==
    phase = "rejected" => ~ genuine

=============================================================================
