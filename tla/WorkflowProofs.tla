--------------------------- MODULE WorkflowProofs ----------------------------
(***************************************************************************)
(* Proofs about the workflow kernel for workflows of any length, any       *)
(* contexts and payloads, and any number of runs and checkpoints.          *)
(*                                                                         *)
(* The heart is PresentedIsKept and AcceptedIsAuthentic: whatever callers  *)
(* do to a checkpoint, its commitments are those of records that were      *)
(* kept, and recomputing a commitment admits one result only.              *)
(***************************************************************************)
EXTENDS WorkflowInvariant, SequenceTheorems, TLAPS

-----------------------------------------------------------------------------
(* Sequences.                                                              *)

\* A sequence is a sequence over its own elements.
LEMMA OverItsRange ==
    ASSUME NEW S, NEW s \in Seq(S)
    PROVE  /\ s \in Seq(Range(s)) /\ Range(s) \subseteq S
           /\ DOMAIN s = 1..Len(s) /\ Len(s) \in Nat
           /\ \A i \in 1..Len(s) : s[i] \in Range(s)
  <1>1. DOMAIN s = 1..Len(s) /\ Len(s) \in Nat /\ \A i \in 1..Len(s) : s[i] \in S
    BY LenProperties, ElementOfSeq
  <1>2. Range(s) \subseteq S /\ \A i \in 1..Len(s) : s[i] \in Range(s)
    BY <1>1 DEF Range
  <1>3. s = [i \in 1..Len(s) |-> s[i]]
    BY <1>1, LenProperties
  <1>4. s \in [1..Len(s) -> Range(s)]
    BY <1>2, <1>3
  <1>5. s \in UNION {[1..n -> Range(s)] : n \in Nat}
    BY <1>1, <1>4
  <1> QED
    BY <1>1, <1>2, <1>5, SeqDef

\* Every element of s with position i removed is an element of s.
LEMMA RemoveAtElements ==
    ASSUME NEW S, NEW s \in Seq(S), NEW i \in 1..Len(s)
    PROVE  /\ RemoveAt(s, i) \in Seq(S)
           /\ Range(RemoveAt(s, i)) \subseteq Range(s)
  <1> DEFINE R == Range(s)
  <1>1. /\ s \in Seq(R) /\ Len(s) \in Nat /\ R \subseteq S
        /\ \A j \in 1..Len(s) : s[j] \in R
    BY OverItsRange
  <1> HIDE DEF R
  <1>2. SubSeq(s, 1, i - 1) \in Seq(R)
    <2>1. \A j \in 1..(i - 1) : s[j] \in R
      BY <1>1
    <2> QED
      BY <2>1, SubSeqProperties
  <1>3. SubSeq(s, i + 1, Len(s)) \in Seq(R)
    <2>1. \A j \in (i + 1)..Len(s) : s[j] \in R
      BY <1>1
    <2>2. i + 1 \in Int /\ Len(s) \in Int
      BY <1>1
    <2> QED
      BY <2>1, <2>2, SubSeqProperties
  <1>4. RemoveAt(s, i) \in Seq(R)
    BY <1>2, <1>3, ConcatProperties DEF RemoveAt
  <1>5. RemoveAt(s, i) \in Seq(S)
    BY <1>1, <1>4, SeqMonotonic
  <1>6. Range(RemoveAt(s, i)) \subseteq R
    BY <1>4, OverItsRange
  <1> QED
    BY <1>5, <1>6 DEF R

\* The front of a sequence that is not empty is all of it but the last element.
LEMMA FrontElements ==
    ASSUME NEW S, NEW s \in Seq(S), s # <<>>
    PROVE  /\ Front(s) \in Seq(S)
           /\ Len(Front(s)) = Len(s) - 1 /\ Len(s) \in Nat \ {0}
           /\ \A i \in 1..(Len(s) - 1) : Front(s)[i] = s[i]
  <1>1. Len(s) \in Nat \ {0} /\ \A i \in 1..Len(s) : s[i] \in S
    BY EmptySeq, ElementOfSeq
  <1> DEFINE n == Len(s) - 1
  <1>2. n \in Nat /\ \A i \in 1..n : s[i] \in S
    BY <1>1
  <1> HIDE DEF n
  <1>3. /\ SubSeq(s, 1, n) \in Seq(S)
        /\ Len(SubSeq(s, 1, n)) = IF 1 <= n THEN n - 1 + 1 ELSE 0
        /\ \A i \in 1..(n - 1 + 1) : SubSeq(s, 1, n)[i] = s[1 + i - 1]
    BY <1>2, SubSeqProperties
  <1>4. Len(SubSeq(s, 1, n)) = n /\ \A i \in 1..n : SubSeq(s, 1, n)[i] = s[i]
    BY <1>2, <1>3
  <1> QED
    BY <1>1, <1>3, <1>4 DEF Front, n

-----------------------------------------------------------------------------
(* Commitments.                                                            *)

\* Equal output commitments bind equal steps, inputs and results: this is what
\* the model takes a hash for.
LEMMA OutputBinds ==
    ASSUME NEW i, NEW input, NEW result, NEW j, NEW other, NEW value,
           OutputCommitment(i, input, result) = OutputCommitment(j, other, value)
    PROVE  i = j /\ input = other /\ result = value
  BY DEF OutputCommitment

\* The commitments of a record depend on the records up to it only.
LEMMA RecomputedAgrees ==
    ASSUME NEW s, NEW t, NEW c, NEW i \in Nat,
           \A j \in 1..i : s[j] = t[j],
           1 <= i, Recomputed(s, i, c)
    PROVE  Recomputed(t, i, c)
  <1>1. s[i] = t[i]
    OBVIOUS
  <1>2. Prior(s, i - 1) = Prior(t, i - 1)
    BY DEF Prior
  <1> QED
    BY <1>1, <1>2 DEF Recomputed

-----------------------------------------------------------------------------
(* Checkpoints.                                                            *)

\* Whatever a caller did to it, every record of a checkpoint that can be handed
\* in carries the commitments of a record that is kept, and the status too
\* unless callers relabel.
LEMMA PresentedIsKept ==
    ASSUME KeptInv, NEW cp \in Checkpoints
    PROVE  /\ cp.steps \in Seq(Range(cp.steps))
           /\ \A e \in Range(cp.steps) : \E k \in kept : \E r \in Range(k.records) :
                 /\ e = [step |-> r.step, status |-> e.status, input |-> r.input,
                         output |-> r.output, result |-> e.result]
                 /\ ~ Relabel => e.status = r.status
  <1> DEFINE Like(e, r) ==
                /\ e = [step |-> r.step, status |-> e.status, input |-> r.input,
                        output |-> r.output, result |-> e.result]
                /\ ~ Relabel => e.status = r.status
             FromKept(s) ==
                /\ s \in Seq(Range(s))
                /\ \A e \in Range(s) : \E k \in kept : \E r \in Range(k.records) : Like(e, r)
  <1>1. PICK k \in kept :
           \E run \in RunId :
              \E steps \in {k.completed} \cup Alterations(k.completed) \cup Relabelled(k.records) :
                 cp = Checkpoint(run, steps)
    BY DEF Checkpoints
  <1>2. cp.steps \in {k.completed} \cup Alterations(k.completed) \cup Relabelled(k.records)
    BY <1>1 DEF Checkpoint
  <1>3. \A m \in kept : \A r \in Range(m.records) : Like(r, r)
    BY DEF KeptInv, Authentic
  <1>4. /\ k.records \in Seq(Range(k.records)) /\ k.completed \in Seq(Range(k.records))
        /\ k.completed \in Seq(Range(k.completed)) /\ Range(k.completed) \subseteq Range(k.records)
        /\ \A i \in 1..Len(k.completed) : k.completed[i] \in Range(k.records)
        /\ \A i \in 1..Len(k.records) : k.records[i] \in Range(k.records)
        /\ Len(k.completed) \in Nat /\ Len(k.records) \in Nat
    BY OverItsRange, <1>1 DEF KeptInv
  <1>5. CASE cp.steps = k.completed
    <2>1. \A e \in Range(cp.steps) : e \in Range(k.records)
      BY <1>4, <1>5
    <2> QED
      BY <1>1, <1>3, <1>4, <1>5, <2>1
  <1>6. ASSUME NEW i \in 1..Len(k.completed), NEW result \in Result,
               cp.steps = [k.completed EXCEPT ![i].result = result]
        PROVE  FromKept(cp.steps)
    <2> DEFINE r == k.completed[i]
               e == [r EXCEPT !.result = result]
    <2>1. r \in Range(k.records) /\ Like(r, r)
      BY <1>1, <1>3, <1>4
    <2>2. Like(e, r)
      BY <2>1
    <2>3. cp.steps = [k.completed EXCEPT ![i] = e]
      BY <1>6
    <2> HIDE DEF e, r
    <2>4. cp.steps \in Seq(Range(k.records) \cup {e})
      BY <1>4, <2>3, SeqMonotonic, ExceptSeq
    <2>5. cp.steps \in Seq(Range(cp.steps)) /\ Range(cp.steps) \subseteq Range(k.records) \cup {e}
      BY <2>4, OverItsRange
    <2> QED
      BY <1>1, <1>3, <2>1, <2>2, <2>5
  <1>7. ASSUME NEW i \in 1..Len(k.completed), NEW r \in Known,
               cp.steps = [k.completed EXCEPT ![i] = r]
        PROVE  FromKept(cp.steps)
    <2>1. PICK m \in kept : r \in Range(m.records)
      BY DEF Known
    <2>2. cp.steps \in Seq(Range(k.records) \cup {r})
      BY <1>4, <1>7, SeqMonotonic, ExceptSeq
    <2>3. cp.steps \in Seq(Range(cp.steps)) /\ Range(cp.steps) \subseteq Range(k.records) \cup {r}
      BY <2>2, OverItsRange
    <2> QED
      BY <1>1, <1>3, <2>1, <2>3
  <1>8. ASSUME NEW i \in 1..Len(k.completed), cp.steps = RemoveAt(k.completed, i)
        PROVE  FromKept(cp.steps)
    <2>1. cp.steps \in Seq(Range(k.records)) /\ Range(cp.steps) \subseteq Range(k.records)
      BY <1>4, <1>8, RemoveAtElements
    <2>2. cp.steps \in Seq(Range(cp.steps))
      BY <2>1, OverItsRange
    <2> QED
      BY <1>1, <1>3, <2>1, <2>2
  <1>9. ASSUME cp.steps \in Relabelled(k.records)
        PROVE  FromKept(cp.steps)
    <2> DEFINE f(i) == [k.records[i] EXCEPT !.status = "COMPLETED"]
    <2>1. Relabel /\ cp.steps = [i \in 1..Len(k.records) |-> f(i)]
      BY <1>9 DEF Relabelled
    <2>2. \A i \in 1..Len(k.records) : Like(f(i), k.records[i])
      BY <1>1, <1>3, <1>4, <2>1
    <2> HIDE DEF f
    <2>3. DOMAIN cp.steps = 1..Len(k.records)
      BY <2>1
    <2>4. cp.steps \in [1..Len(k.records) -> Range(cp.steps)]
      BY <2>1 DEF Range
    <2>5. cp.steps \in Seq(Range(cp.steps))
      BY <1>4, <2>4, SeqDef
    <2>6. \A e \in Range(cp.steps) : \E i \in 1..Len(k.records) : e = f(i)
      BY <2>1, <2>3 DEF Range
    <2>7. ASSUME NEW e \in Range(cp.steps) PROVE \E r \in Range(k.records) : Like(e, r)
      <3>1. PICK i \in 1..Len(k.records) : e = f(i)
        BY <2>6
      <3>2. k.records[i] \in Range(k.records)
        BY <1>4 DEF Range
      <3> QED
        BY <2>2, <3>1, <3>2
    <2> QED
      BY <1>1, <2>5, <2>7
  <1> QED
    BY <1>2, <1>5, <1>6, <1>7, <1>8, <1>9 DEF Alterations

\* The records of a checkpoint that _validate_resume accepts are authentic for
\* the context of the run: a replaced result or a record of another context
\* does not pass.
LEMMA AcceptedIsAuthentic ==
    ASSUME KeptInv, NEW c, NEW cp \in Checkpoints, ValidResume(cp, c)
    PROVE  /\ \A r \in Range(cp.steps) :
                 /\ r.status = "COMPLETED"
                 /\ Authentic(r, c)
                 /\ ~ Relabel => r.status = r.result.status
           /\ Chained(cp.steps, c)
  <1>1. cp.steps \in Seq(Range(cp.steps)) /\ DOMAIN cp.steps = 1..Len(cp.steps)
    BY PresentedIsKept, OverItsRange
  <1>2. Chained(cp.steps, c)
    BY DEF ValidResume, Chained
  <1>3. SUFFICES ASSUME NEW e \in Range(cp.steps)
                 PROVE  /\ e.status = "COMPLETED"
                        /\ Authentic(e, c)
                        /\ ~ Relabel => e.status = e.result.status
    BY <1>2
  <1>4. PICK i \in 1..Len(cp.steps) : e = cp.steps[i]
    BY <1>1 DEF Range
  <1>5. /\ e.status = "COMPLETED"
        /\ e.step = i /\ e.input = InputCommitment(c, i, Prior(cp.steps, i - 1))
        /\ e.output = OutputCommitment(i, e.input, e.result)
    BY <1>4 DEF ValidResume, Recomputed
  <1>6. PICK k \in kept : \E r \in Range(k.records) :
                 /\ e = [step |-> r.step, status |-> e.status, input |-> r.input,
                         output |-> r.output, result |-> e.result]
                 /\ ~ Relabel => e.status = r.status
    BY PresentedIsKept
  <1>7. PICK r \in Range(k.records) :
                 /\ e = [step |-> r.step, status |-> e.status, input |-> r.input,
                         output |-> r.output, result |-> e.result]
                 /\ ~ Relabel => e.status = r.status
    BY <1>6
  <1>8. /\ r.input.context = k.ctx
        /\ r.output = OutputCommitment(r.step, r.input, r.result)
        /\ Execution(k.ctx, r) \in executed
        /\ ~ Relabel => r.status = r.result.status
    BY <1>6 DEF KeptInv, Authentic
  <1>9. e.step = r.step /\ e.input = r.input /\ e.output = r.output
    BY <1>7
  <1>10. e.result = r.result
    BY <1>5, <1>8, <1>9, OutputBinds
  <1>11. e.input.context = c
    BY <1>5 DEF InputCommitment
  <1>12. k.ctx = c
    BY <1>8, <1>9, <1>11
  <1>13. Execution(c, e) \in executed
    BY <1>8, <1>9, <1>10, <1>12 DEF Execution
  <1>14. e = [step |-> e.step, status |-> e.status, input |-> e.input,
              output |-> e.output, result |-> e.result]
    BY <1>7, <1>9
  <1>15. Authentic(e, c)
    BY <1>5, <1>11, <1>13, <1>14 DEF Authentic
  <1> QED
    BY <1>5, <1>7, <1>8, <1>10, <1>15

-----------------------------------------------------------------------------
(* The invariant.                                                          *)

USE StepsAssumption, BoundsAssumption

\* What the type invariant says of lengths.
LEMMA Lengths ==
    ASSUME TypeOK
    PROVE  /\ Len(records) \in Nat /\ Len(records) <= Steps
           /\ Len(events) \in Nat /\ Len(events) <= 2 * Steps
  <1>1. Len(records) \in Nat /\ Len(records) <= Steps /\ Len(events) <= 2 * Steps
    BY DEF TypeOK
  <1>2. Len(events) \in Nat
    BY LenProperties DEF TypeOK
  <1> QED
    BY <1>1, <1>2

\* The invariant holds before the first run.
LEMMA InitWInv == Init => WInv
  <1> SUFFICES ASSUME Init PROVE WInv
    OBVIOUS
  <1>1. TypeOK
    <2>1. phase \in Phase
      BY DEF Init, Phase
    <2> QED
      BY <2>1 DEF Init, TypeOK
  <1>2. RecordsInv
    <2>1. Range(<<>>) = {} /\ Len(<<>>) = 0
      BY DEF Range
    <2> QED
      BY <2>1 DEF Init, RecordsInv, Chained
  <1>3. PhaseInv /\ KeptInv /\ OwnCheckpointAccepted
    BY DEF Init, PhaseInv, KeptInv, OwnCheckpointAccepted
  <1> QED
    BY <1>1, <1>2, <1>3 DEF WInv

\* A step of the runner leaves kept checkpoints alone and forgets no execution,
\* so what is kept stays authentic.
LEMMA KeptStays ==
    ASSUME KeptInv, UNCHANGED kept, executed \subseteq executed'
    PROVE  KeptInv'
  BY DEF KeptInv, Authentic, Chained, CompletedUpTo

\* The run of a new context starts without records.
LEMMA StartRunStep ==
    ASSUME WInv, NEW c \in Context, StartRun(c)
    PROVE  WInv'
  <1>1. TypeOK'
    <2>1. phase' \in Phase
      BY DEF StartRun, Phase, Active
    <2> QED
      BY <2>1 DEF WInv, StartRun, TypeOK
  <1>2. RecordsInv'
    <2>1. Range(<<>>) = {} /\ Len(<<>>) = 0
      BY DEF Range
    <2> QED
      BY <2>1 DEF StartRun, RecordsInv, Chained
  <1>3. PhaseInv'
    BY DEF StartRun, PhaseInv, CompletedUpTo
  <1>4. KeptInv'
    BY KeptStays DEF WInv, StartRun
  <1>5. OwnCheckpointAccepted'
    BY DEF StartRun, OwnCheckpointAccepted
  <1> QED
    BY <1>1, <1>2, <1>3, <1>4, <1>5 DEF WInv

\* A resumed run takes over authentic records, and a genuine checkpoint of its
\* context is never rejected.
LEMMA ResumeRunStep ==
    ASSUME WInv, NEW c \in Context, NEW cp \in Checkpoints, ResumeRun(c, cp)
    PROVE  WInv'
  <1>1. KeptInv'
    BY KeptStays DEF WInv, ResumeRun
  <1>2. CASE ValidResume(cp, c)
    <2>1. ctx' = c /\ phase' = "ready" /\ records' = cp.steps /\ events' = <<>> /\ executed' = executed
      BY <1>2 DEF ResumeRun
    <2>2. /\ cp.steps \in Seq(Range(cp.steps)) /\ DOMAIN cp.steps = 1..Len(cp.steps)
          /\ Len(cp.steps) \in Nat
          /\ \A i \in 1..Len(cp.steps) : cp.steps[i] \in Range(cp.steps)
      BY PresentedIsKept, OverItsRange DEF WInv
    <2>3. /\ \A r \in Range(cp.steps) :
                 /\ r.status = "COMPLETED"
                 /\ Authentic(r, c)
                 /\ ~ Relabel => r.status = r.result.status
          /\ Chained(cp.steps, c)
      BY <1>2, AcceptedIsAuthentic DEF WInv
    <2>4. TypeOK'
      <3>1. phase' \in Phase
        BY <2>1 DEF Phase, Active
      <3>2. Len(records') \in 0..Steps
        BY <1>2, <2>1, <2>2 DEF ValidResume
      <3> QED
        BY <2>1, <3>1, <3>2 DEF WInv, TypeOK, ResumeRun
    <2>5. RecordsInv'
      BY <2>1, <2>2, <2>3 DEF RecordsInv, Authentic, Chained
    <2>6. PhaseInv'
      BY <2>1, <2>2, <2>3 DEF PhaseInv, CompletedUpTo
    <2>7. OwnCheckpointAccepted'
      BY <2>1 DEF OwnCheckpointAccepted
    <2> QED
      BY <1>1, <2>4, <2>5, <2>6, <2>7 DEF WInv
  <1>3. CASE ~ ValidResume(cp, c)
    <2>1. ctx' = c /\ phase' = "rejected" /\ records' = <<>> /\ events' = <<>>
      BY <1>3 DEF ResumeRun
    <2>2. TypeOK'
      <3>1. phase' \in Phase
        BY <2>1 DEF Phase, Ended
      <3> QED
        BY <2>1, <3>1 DEF WInv, TypeOK, ResumeRun
    <2>3. RecordsInv'
      <3>1. Range(<<>>) = {} /\ Len(<<>>) = 0
        BY DEF Range
      <3> QED
        BY <2>1, <3>1 DEF RecordsInv, Chained
    <2>4. PhaseInv'
      BY <2>1 DEF PhaseInv
    <2>5. ASSUME NEW k \in kept, k.ctx = c, cp = Checkpoint(c.run, k.completed)
          PROVE  FALSE
      <3>1. cp.run = c.run /\ cp.steps = k.completed
        BY <2>5 DEF Checkpoint
      <3>2. /\ Len(k.completed) <= Steps
            /\ \A i \in 1..Len(k.completed) :
                  k.completed[i].status = "COMPLETED" /\ Recomputed(k.completed, i, c)
        BY <2>5 DEF WInv, KeptInv, Chained, CompletedUpTo
      <3> QED
        BY <1>3, <3>1, <3>2 DEF ValidResume
    <2>6. OwnCheckpointAccepted'
      BY <2>5 DEF OwnCheckpointAccepted, ResumeRun
    <2> QED
      BY <1>1, <2>2, <2>3, <2>4, <2>6 DEF WInv
  <1> QED
    BY <1>2, <1>3

\* An event is appended to the trace.
LEMMA EmitOne ==
    ASSUME TypeOK, NEW type \in EventType, NEW i \in 1..Steps, Emit(type, i)
    PROVE  /\ events' \in Seq(Event)
           /\ Len(events') = Len(events) + 1 /\ Len(events) \in Nat
  <1>1. events \in Seq(Event)
    BY DEF TypeOK
  <1>2. [type |-> type, step |-> i] \in Event
    BY DEF Event
  <1> QED
    BY <1>1, <1>2, AppendProperties, LenProperties DEF Emit

\* A step begins.
LEMMA BeginStepStep == ASSUME WInv, BeginStep PROVE WInv'
  <1>1. Current \in 1..Steps /\ Len(records) < Steps /\ Len(records) \in Nat
    BY Lengths DEF WInv, BeginStep, Current
  <1>2. /\ events' \in Seq(Event)
        /\ Len(events') = Len(events) + 1 /\ Len(events) \in Nat
    BY <1>1, EmitOne DEF WInv, BeginStep, EventType
  <1>3. Len(events) <= 2 * Len(records)
    BY DEF WInv, PhaseInv, BeginStep
  <1>4. TypeOK'
    <2>1. phase' \in Phase
      BY DEF BeginStep, OrSinkRaises, Phase, Active, Ended
    <2> QED
      BY <1>1, <1>2, <1>3, <2>1 DEF WInv, TypeOK, BeginStep
  <1>5. RecordsInv'
    BY DEF WInv, RecordsInv, Authentic, Chained, BeginStep
  <1>6. PhaseInv'
    <2>1. phase' \in {"executing", "raised"} /\ records' = records
      BY DEF BeginStep, OrSinkRaises
    <2>2. CompletedUpTo(records, Len(records))
      BY DEF WInv, PhaseInv, BeginStep
    <2>3. CompletedUpTo(records, Len(records))'
      BY <2>1, <2>2 DEF CompletedUpTo
    <2> QED
      BY <1>1, <1>2, <1>3, <2>1, <2>3 DEF PhaseInv
  <1>7. KeptInv'
    BY KeptStays DEF WInv, BeginStep
  <1>8. OwnCheckpointAccepted'
    BY DEF OwnCheckpointAccepted, BeginStep, OrSinkRaises
  <1> QED
    BY <1>4, <1>5, <1>6, <1>7, <1>8 DEF WInv

\* A step returns a result: the new record is authentic because the execution is
\* remembered, and it extends the chain.
LEMMA FinishStepStep == ASSUME WInv, NEW result \in Result, FinishStep(result) PROVE WInv'
  <1>a. PICK n : n = Len(records)
    OBVIOUS
  <1>b. PICK new : new = NewRecord(result)
    OBVIOUS
  <1>c. PICK input : input = InputCommitment(ctx, Current, Prior(records, n))
    OBVIOUS
  <1>1. /\ n \in Nat /\ n < Steps /\ Current = n + 1 /\ Current \in 1..Steps
        /\ Len(events) <= 2 * n + 1
    <2>1. n \in Nat /\ n < Steps /\ Len(events) <= 2 * n + 1
      BY <1>a, Lengths DEF WInv, PhaseInv, FinishStep
    <2> QED
      BY <1>a, <2>1 DEF Current
  <1>2. /\ records' = Append(records, new)
        /\ executed' = executed \cup {Execution(ctx, new)}
        /\ UNCHANGED <<ctx, kept, genuine, runs>>
        /\ phase = "executing"
        /\ phase' \in {"ready", "BLOCKED", "raised"}
        /\ phase' = "ready" => result.status = "COMPLETED"
        /\ \E type \in EventType : Emit(type, Current)
    BY <1>b DEF FinishStep, OrSinkRaises, EventType
  <1>3. /\ events' \in Seq(Event)
        /\ Len(events') = Len(events) + 1 /\ Len(events) \in Nat
    BY <1>1, <1>2, EmitOne DEF WInv
  <1>4. /\ new = [step |-> new.step, status |-> new.status, input |-> new.input,
                  output |-> new.output, result |-> new.result]
        /\ new.step = n + 1 /\ new.status = result.status /\ new.result = result
        /\ new.input = input /\ new.output = OutputCommitment(n + 1, input, result)
    BY <1>a, <1>b, <1>c, <1>1 DEF NewRecord
  <1>5. input.context = ctx
    BY <1>c DEF InputCommitment
  <1>6. Authentic(new, ctx)'
    <2>1. Execution(ctx, new) \in executed'
      BY <1>2
    <2> QED
      BY <1>2, <1>4, <1>5, <2>1 DEF Authentic
  <1>7. /\ records \in Seq(Range(records))
        /\ \A i \in 1..n : records[i] \in Range(records)
    BY <1>a, OverItsRange DEF WInv, RecordsInv
  <1>8. /\ records' \in Seq(Range(records) \cup {new})
        /\ Len(records') = n + 1
        /\ \A i \in 1..n : records'[i] = records[i]
        /\ records'[n + 1] = new
    <2>1. records \in Seq(Range(records) \cup {new})
      BY <1>7, SeqMonotonic
    <2> QED
      BY <1>a, <1>2, <2>1, AppendProperties
  <1>9. records' \in Seq(Range(records')) /\ Range(records') \subseteq Range(records) \cup {new}
    BY <1>8, OverItsRange
  <1>10. Chained(records', ctx)
    <2> SUFFICES ASSUME NEW i \in 1..(n + 1) PROVE Recomputed(records', i, ctx)
      BY <1>8 DEF Chained
    <2>1. CASE i \in 1..n
      <3>1. Recomputed(records, i, ctx)
        BY <1>a, <2>1 DEF WInv, RecordsInv, Chained
      <3>2. \A j \in 1..i : records[j] = records'[j]
        BY <1>1, <1>8, <2>1
      <3> QED
        BY <1>1, <3>1, <3>2, RecomputedAgrees
    <2>2. CASE i = n + 1
      <3>1. Prior(records', n) = Prior(records, n)
        BY <1>8 DEF Prior
      <3>2. i - 1 = n
        BY <1>1, <2>2
      <3> QED
        BY <1>c, <1>1, <1>4, <1>8, <2>2, <3>1, <3>2 DEF Recomputed
    <2> QED
      BY <1>1, <2>1, <2>2
  <1>11. RecordsInv'
    <2>1. \A r \in Range(records) : Authentic(r, ctx)'
      BY <1>2 DEF WInv, RecordsInv, Authentic
    <2>2. \A r \in Range(records) \cup {new} :
             Authentic(r, ctx)' /\ (~ Relabel => r.status = r.result.status)
      BY <1>4, <1>6, <2>1 DEF WInv, RecordsInv
    <2> QED
      BY <1>2, <1>9, <1>10, <2>2 DEF RecordsInv, Authentic, Chained
  <1>12. CompletedUpTo(records', n)
    BY <1>a, <1>2, <1>8 DEF WInv, PhaseInv, CompletedUpTo
  <1>13. phase' = "ready" => CompletedUpTo(records', n + 1)
    <2> SUFFICES ASSUME phase' = "ready", NEW i \in 1..(n + 1)
                 PROVE  /\ records'[i].status = "COMPLETED"
                        /\ ~ Relabel => records'[i].result.status = "COMPLETED"
      BY DEF CompletedUpTo
    <2>1. CASE i = n + 1
      BY <1>2, <1>4, <1>8, <2>1
    <2>2. CASE i \in 1..n
      BY <1>12, <2>2 DEF CompletedUpTo
    <2> QED
      BY <1>1, <2>1, <2>2
  <1>14. PhaseInv'
    <2>1. n + 1 - 1 = n /\ records' # <<>>
      BY <1>1, <1>8
    <2> QED
      <3>1. CompletedUpTo(records, n)'
        BY <1>12 DEF CompletedUpTo
      <3>2. phase' = "ready" => CompletedUpTo(records, n + 1)'
        BY <1>13 DEF CompletedUpTo
      <3>3. Len(records') = n + 1 /\ Len(records') - 1 = n
        BY <1>1, <1>8
      <3>4. Len(events') <= 2 * Len(records')
        BY <1>1, <1>3, <3>3
      <3>5. phase' = "ready" => CompletedUpTo(records, Len(records))'
        BY <3>2, <3>3
      <3>6. (CompletedUpTo(records, Len(records) - 1))'
        BY <3>1, <3>3
      <3> QED
        BY <1>2, <2>1, <3>4, <3>5, <3>6 DEF PhaseInv
  <1>15. TypeOK'
    <2>1. phase' \in Phase
      BY <1>2 DEF Phase, Active, Ended, Returned
    <2> QED
      BY <1>1, <1>2, <1>3, <1>8, <2>1 DEF WInv, TypeOK
  <1>16. KeptInv'
    BY <1>2, KeptStays DEF WInv
  <1>17. OwnCheckpointAccepted'
    BY <1>2 DEF OwnCheckpointAccepted
  <1> QED
    BY <1>11, <1>14, <1>15, <1>16, <1>17 DEF WInv

\* A step fails: the records so far stay.
LEMMA FailStepStep == ASSUME WInv, FailStep PROVE WInv'
  <1>1. /\ Current \in 1..Steps /\ Len(records) < Steps /\ Len(records) \in Nat
        /\ Len(events) <= 2 * Len(records) + 1
    <2>1. Len(records) \in Nat /\ Len(records) < Steps /\ Len(events) <= 2 * Len(records) + 1
      BY Lengths DEF WInv, PhaseInv, FailStep
    <2> QED
      BY <2>1 DEF Current
  <1>2. /\ events' \in Seq(Event)
        /\ Len(events') = Len(events) + 1 /\ Len(events) \in Nat
    BY <1>1, EmitOne DEF WInv, FailStep, EventType
  <1>3. TypeOK'
    <2>1. phase' \in Phase
      BY DEF FailStep, OrSinkRaises, Phase, Ended
    <2>2. Len(events') <= 2 * Steps
      BY <1>1, <1>2
    <2>3. TypeOK /\ UNCHANGED <<ctx, records, runs>>
      BY DEF WInv, FailStep
    <2> QED
      BY <1>2, <2>1, <2>2, <2>3 DEF TypeOK
  <1>4. RecordsInv' /\ PhaseInv'
    BY DEF WInv, RecordsInv, PhaseInv, Authentic, Chained, CompletedUpTo, FailStep, OrSinkRaises
  <1>5. KeptInv'
    BY KeptStays DEF WInv, FailStep
  <1>6. OwnCheckpointAccepted'
    BY DEF OwnCheckpointAccepted, FailStep, OrSinkRaises
  <1> QED
    BY <1>3, <1>4, <1>5, <1>6 DEF WInv

\* The run ends, with an error or COMPLETED: its records stay.
LEMMA EndOfRunStep == ASSUME WInv, ReturnWrongType \/ ReturnCompleted PROVE WInv'
  <1>1. TypeOK' /\ OwnCheckpointAccepted'
    <2>1. phase' \in Phase
      BY DEF ReturnWrongType, ReturnCompleted, Phase, Ended, Returned
    <2> QED
      BY <2>1 DEF WInv, TypeOK, OwnCheckpointAccepted, ReturnWrongType, ReturnCompleted
  <1>2. RecordsInv' /\ PhaseInv'
    BY DEF WInv, RecordsInv, PhaseInv, Authentic, Chained, CompletedUpTo,
           ReturnWrongType, ReturnCompleted
  <1>3. KeptInv'
    BY KeptStays DEF WInv, ReturnWrongType, ReturnCompleted
  <1> QED
    BY <1>1, <1>2, <1>3 DEF WInv

\* The records of a run are kept, and the completed ones of a blocked run are
\* all but the last.
LEMMA KeepRecordsStep == ASSUME WInv, KeepRecords PROVE WInv'
  <1> DEFINE completed == IF phase = "BLOCKED" THEN Front(records) ELSE records
             k0 == [ctx |-> ctx, records |-> records, completed |-> completed]
  <1>1. /\ kept' = kept \cup {k0}
        /\ phase \in {"COMPLETED", "BLOCKED", "execution error"}
        /\ UNCHANGED <<ctx, phase, records, events, genuine, executed, runs>>
    BY DEF KeepRecords, Returned
  <1>2. records \in Seq(Range(records)) /\ Len(records) \in Nat /\ Len(records) <= Steps
    BY Lengths DEF WInv, RecordsInv
  <1>3. /\ completed \in Seq(Range(records))
        /\ Len(completed) \in Nat /\ Len(completed) <= Len(records)
        /\ \A i \in 1..Len(completed) : completed[i] = records[i]
        /\ CompletedUpTo(completed, Len(completed))
    <2>1. CASE phase = "BLOCKED"
      <3>1. records # <<>> /\ CompletedUpTo(records, Len(records) - 1)
        BY <2>1 DEF WInv, PhaseInv
      <3>2. /\ Front(records) \in Seq(Range(records))
            /\ Len(Front(records)) = Len(records) - 1 /\ Len(records) \in Nat \ {0}
            /\ \A i \in 1..(Len(records) - 1) : Front(records)[i] = records[i]
        BY <1>2, <3>1, FrontElements
      <3> QED
        BY <2>1, <3>1, <3>2 DEF CompletedUpTo
    <2>2. CASE phase # "BLOCKED"
      <3>1. CompletedUpTo(records, Len(records))
        BY <1>1, <2>2 DEF WInv, PhaseInv
      <3> QED
        BY <1>2, <2>2, <3>1
    <2> QED
      BY <2>1, <2>2
  <1> HIDE DEF completed
  <1>4. Chained(completed, ctx)
    <2> SUFFICES ASSUME NEW i \in 1..Len(completed) PROVE Recomputed(completed, i, ctx)
      BY DEF Chained
    <2>1. i \in 1..Len(records) /\ i \in Nat /\ 1 <= i
      BY <1>2, <1>3
    <2>2. Recomputed(records, i, ctx)
      BY <2>1 DEF WInv, RecordsInv, Chained
    <2>3. \A j \in 1..i : records[j] = completed[j]
      BY <1>3
    <2> QED
      BY <2>1, <2>2, <2>3, RecomputedAgrees
  <1>5. KeptInv'
    <2>1. \A r \in Range(records) : Authentic(r, ctx) /\ (~ Relabel => r.status = r.result.status)
      BY DEF WInv, RecordsInv
    <2>2. k0.ctx = ctx /\ k0.records = records /\ k0.completed = completed
      OBVIOUS
    <2> HIDE DEF k0
    <2>3. Len(completed) <= Steps
      BY <1>2, <1>3
    <2>4. ASSUME NEW k \in kept \cup {k0}
          PROVE  /\ k.records \in Seq(Range(k.records)) /\ k.completed \in Seq(Range(k.records))
                 /\ \A r \in Range(k.records) :
                       Authentic(r, k.ctx) /\ (~ Relabel => r.status = r.result.status)
                 /\ Len(k.completed) <= Steps
                 /\ Chained(k.completed, k.ctx) /\ CompletedUpTo(k.completed, Len(k.completed))
      <3>1. CASE k = k0
        BY <1>2, <1>3, <1>4, <2>1, <2>2, <2>3, <3>1
      <3>2. CASE k \in kept
        BY <3>2 DEF WInv, KeptInv
      <3> QED
        BY <3>1, <3>2
    <2> QED
      BY <1>1, <2>4 DEF KeptInv, Authentic
  <1>6. TypeOK' /\ OwnCheckpointAccepted'
    BY <1>1 DEF WInv, TypeOK, OwnCheckpointAccepted
  <1>7. RecordsInv' /\ PhaseInv'
    BY <1>1 DEF WInv, RecordsInv, PhaseInv, Authentic, Chained, CompletedUpTo
  <1> QED
    BY <1>5, <1>6, <1>7 DEF WInv

\* Every step preserves the invariant.
LEMMA NextWInv == WInv /\ [Next]_vars => WInv'
  <1> SUFFICES ASSUME WInv, [Next]_vars PROVE WInv'
    OBVIOUS
  <1>1. ASSUME NEW c \in Context, StartRun(c) PROVE WInv'
    BY <1>1, StartRunStep
  <1>2. ASSUME NEW c \in Context, NEW cp \in Checkpoints, ResumeRun(c, cp) PROVE WInv'
    BY <1>2, ResumeRunStep
  <1>3. CASE Run
    BY <1>3, BeginStepStep, FinishStepStep, FailStepStep, EndOfRunStep DEF Run
  <1>4. CASE KeepRecords
    BY <1>4, KeepRecordsStep
  <1>5. CASE UNCHANGED vars
    BY <1>5 DEF vars, WInv, TypeOK, RecordsInv, PhaseInv, KeptInv, OwnCheckpointAccepted,
                Authentic, Chained, CompletedUpTo
  <1> QED
    BY <1>1, <1>2, <1>3, <1>4, <1>5 DEF Next

-----------------------------------------------------------------------------
(* Theorems.                                                               *)

\* The invariant of the kernel, for workflows of any length.
THEOREM Invariance == Spec => []WInv
  <1> QED
    BY InitWInv, NextWInv, PTL DEF Spec

\* Every record of a run, resumed from whatever checkpoint, stands for a step
\* that was executed with this result in this context.
THEOREM OnlyExecutedRecords == Spec => []RecordsWereExecuted
  <1>1. WInv => RecordsWereExecuted
    <2> SUFFICES ASSUME WInv, NEW i \in 1..Len(records)
                 PROVE  Execution(ctx, records[i]) \in executed
      BY DEF RecordsWereExecuted
    <2>1. records[i] \in Range(records)
      BY OverItsRange DEF WInv, RecordsInv
    <2> QED
      BY <2>1 DEF WInv, RecordsInv, Authentic
  <1> QED
    BY <1>1, Invariance, PTL

\* A run that returns COMPLETED passes validate_completed_run, unless callers
\* relabel blocked records.
THEOREM CompletedRunsValidate == Spec => []CompletedRunValidates
  <1>1. WInv => CompletedRunValidates
    BY DEF WInv, RecordsInv, PhaseInv, CompletedRunValidates, ValidCompletedRun, Chained, CompletedUpTo
  <1> QED
    BY <1>1, Invariance, PTL

\* Nobody's own unaltered checkpoint is ever rejected.
THEOREM NoFalseRejection == Spec => []OwnCheckpointAccepted
  <1>1. WInv => OwnCheckpointAccepted
    BY DEF WInv
  <1> QED
    BY <1>1, Invariance, PTL

=============================================================================
