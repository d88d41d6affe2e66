-------------------------- MODULE WorkflowInvariant --------------------------
(***************************************************************************)
(* The inductive invariant of the workflow kernel.                         *)
(*                                                                         *)
(* RecordsWereExecuted is not inductive: a resumed run takes its records   *)
(* from a checkpoint that anybody may have altered.  What makes it hold is *)
(* that the output commitment of every record that is kept was computed    *)
(* from an executed step, so that recomputing it leaves no other result.   *)
(***************************************************************************)
EXTENDS WorkflowRunner

\* r is a record whose output commitment binds its input, its result and its
\* step, whose input commitment is of context c, and whose step was executed.
Authentic(r, c) ==
    /\ r = [step |-> r.step, status |-> r.status, input |-> r.input,
            output |-> r.output, result |-> r.result]
    /\ r.input.context = c
    /\ r.output = OutputCommitment(r.step, r.input, r.result)
    /\ Execution(c, r) \in executed

\* The records of s form a chain of commitments from c on.
Chained(s, c) == \A i \in 1..Len(s) : Recomputed(s, i, c)

\* The first n records of s are of completed steps.
CompletedUpTo(s, n) ==
    \A i \in 1..n : s[i].status = "COMPLETED" /\ (~ Relabel => s[i].result.status = "COMPLETED")

RecordsInv ==
    /\ records \in Seq(Range(records))
    /\ \A r \in Range(records) : Authentic(r, ctx) /\ (~ Relabel => r.status = r.result.status)
    /\ Chained(records, ctx)

PhaseInv ==
    /\ phase \in {"ready", "executing", "COMPLETED", "execution error"} =>
          CompletedUpTo(records, Len(records))
    /\ phase = "BLOCKED" => records # <<>> /\ CompletedUpTo(records, Len(records) - 1)
    /\ phase = "COMPLETED" => Len(records) = Steps
    /\ phase = "ready" => Len(events) <= 2 * Len(records)
    /\ phase = "executing" => Len(records) < Steps /\ Len(events) <= 2 * Len(records) + 1

KeptInv ==
    \A k \in kept :
       /\ k.records \in Seq(Range(k.records)) /\ k.completed \in Seq(Range(k.records))
       /\ \A r \in Range(k.records) : Authentic(r, k.ctx) /\ (~ Relabel => r.status = r.result.status)
       /\ Len(k.completed) <= Steps
       /\ Chained(k.completed, k.ctx) /\ CompletedUpTo(k.completed, Len(k.completed))

\* What recomputing the commitments along every kept chain preserves.
WInv == TypeOK /\ RecordsInv /\ PhaseInv /\ KeptInv /\ OwnCheckpointAccepted

=============================================================================
