--------------------------- MODULE DiscoveryProofs ---------------------------
(***************************************************************************)
(* Proofs about the candidate registry and the discovery iteration, for    *)
(* any clients, candidates, plans, workers, partitions and output          *)
(* directories, and any number of entries and faults.                      *)
(*                                                                         *)
(* What an append was checked against is kept with it until it is written, *)
(* so the registry is right as long as no append was written over another  *)
(* one (RegistryInv).  What a run verified and hashed then stays a prefix  *)
(* of the registry (RunsInv), and so does what it published (ResultsInv).  *)
(***************************************************************************)
EXTENDS DiscoveryIteration, SequenceTheorems, FiniteSetTheorems, WellFoundedInduction, TLAPS

\* Files are sequences of entries; an append that passed its checks is right after
\* the entries it was checked against.
RegistryInv ==
    /\ chain \in [File -> Seq(Entry)]
    /\ \A c \in Client :
          /\ base[c] \subseteq Seq(Entry)
          /\ \A o \in order[c] :
                /\ o.file \in File /\ o.entry \in Entry
                /\ o.file = "registry" => Admitted(o.entry, o.checked)
    /\ RegistryTellsOneStory

Iterations ==
    [output : Output, entrypoint : Entrypoint, verified : Seq(Entry), hashed : SUBSET Seq(Entry)]

\* A run that has verified and hashed the registry knows prefixes of it.
RunsInv ==
    "registry" \notin overlapped =>
        \A w \in Worker : \A i \in iteration[w] :
            /\ i \in Iterations /\ VerifiedRegistrations(i.verified)
            /\ IsPrefix(i.verified, registry)
            /\ \A h \in i.hashed :
                  IsPrefix(i.verified, h) /\ IsPrefix(h, registry)

\* A published result continues the registry its run verified, and the registry
\* continues it.
ResultsInv ==
    "registry" \notin overlapped =>
        \A p \in Output : \A r \in output[p] :
            /\ r.verified \in Seq(Entry) /\ VerifiedRegistrations(r.verified)
            /\ r.hash \in Seq(Entry) /\ r.copy \in Seq(Entry)
            /\ IsPrefix(r.verified, r.hash) /\ IsPrefix(r.hash, r.copy)
            /\ IsPrefix(r.copy, registry)

Domains == DOMAIN iteration = Worker /\ DOMAIN output = Output

DInv == Domains /\ RegistryInv /\ RunsInv /\ ResultsInv

-----------------------------------------------------------------------------
(* Prefixes.                                                               *)

\* A prefix has the same elements.
LEMMA PrefixElements ==
    ASSUME NEW S, NEW s \in Seq(S), NEW t \in Seq(S)
    PROVE  IsPrefix(s, t) <=> Len(s) <= Len(t) /\ \A i \in 1..Len(s) : s[i] = t[i]
  <1>1. Len(s) \in Nat /\ Len(t) \in Nat
    OBVIOUS
  <1>2. SubSeq(s, 1, Len(s)) = s
    BY SubSeqFull
  <1> SUFFICES ASSUME Len(s) <= Len(t)
               PROVE  SubSeq(t, 1, Len(s)) = s <=> \A i \in 1..Len(s) : s[i] = t[i]
    BY <1>2 DEF IsPrefix
  <1> DEFINE u == SubSeq(t, 1, Len(s))
  <1>3. u \in Seq(S) /\ Len(u) = Len(s) /\ \A i \in 1..Len(s) : u[i] = t[i]
    BY <1>1, SubSeqProperties
  <1> QED
    BY <1>1, <1>3, SeqEqual

\* Prefixes of prefixes, and of sequences that were appended to.
LEMMA PrefixReflexive ==
    ASSUME NEW S, NEW s \in Seq(S) PROVE IsPrefix(s, s)
  BY PrefixElements

LEMMA PrefixOfAppend ==
    ASSUME NEW S, NEW s \in Seq(S), NEW t \in Seq(S), NEW e \in S, IsPrefix(s, t)
    PROVE  IsPrefix(s, Append(t, e))
  <1>1. Len(s) \in Nat /\ Len(t) \in Nat
    OBVIOUS
  <1>2. Len(s) <= Len(t) /\ \A i \in 1..Len(s) : s[i] = t[i]
    BY PrefixElements
  <1>3. /\ Append(t, e) \in Seq(S) /\ Len(Append(t, e)) = Len(t) + 1
        /\ \A i \in 1..Len(t) : Append(t, e)[i] = t[i]
    BY AppendProperties
  <1>4. Len(s) <= Len(Append(t, e)) /\ \A i \in 1..Len(s) : s[i] = Append(t, e)[i]
    BY <1>1, <1>2, <1>3
  <1> QED
    BY <1>3, <1>4, PrefixElements

\* What comes before an entry does not change when another one is appended.
LEMMA BeforeAppend ==
    ASSUME NEW S, NEW t \in Seq(S), NEW e \in S, NEW i \in 1..(Len(t) + 1)
    PROVE  /\ SubSeq(Append(t, e), 1, i - 1) = SubSeq(t, 1, i - 1)
           /\ i = Len(t) + 1 => SubSeq(Append(t, e), 1, i - 1) = t
  <1> DEFINE a == SubSeq(Append(t, e), 1, i - 1)
             b == SubSeq(t, 1, i - 1)
  <1>1. Len(t) \in Nat /\ i - 1 \in Nat /\ i - 1 <= Len(t)
    OBVIOUS
  <1>2. /\ Append(t, e) \in Seq(S) /\ Len(Append(t, e)) = Len(t) + 1
        /\ \A j \in 1..Len(t) : Append(t, e)[j] = t[j]
    BY AppendProperties
  <1>3. a \in Seq(S) /\ Len(a) = i - 1 /\ \A j \in 1..(i - 1) : a[j] = Append(t, e)[j]
    BY <1>1, <1>2, SubSeqProperties
  <1>4. b \in Seq(S) /\ Len(b) = i - 1 /\ \A j \in 1..(i - 1) : b[j] = t[j]
    BY <1>1, SubSeqProperties
  <1>5. a = b
    BY <1>1, <1>2, <1>3, <1>4, SeqEqual
  <1>6. i = Len(t) + 1 => b = t
    BY <1>1, SubSeqFull
  <1> QED
    BY <1>5, <1>6

-----------------------------------------------------------------------------
(* The registry.                                                           *)

\* Entries name candidates and discoveries; what is checked is the registry.
LEMMA RequestInv ==
    ASSUME RegistryInv, NEW c \in Client, NEW file \in File, NEW entry \in Entry,
           Request(c, file, entry), file = "registry" => Admitted(entry, registry)
    PROVE  RegistryInv'
  <1>1. chain' = chain /\ base' = base /\ overlapped' = overlapped
    BY DEF Request
  <1>2. ASSUME NEW d \in Client, NEW o \in order'[d]
        PROVE  o \in order[d] \/
                 (o.file = file /\ o.entry = entry /\ o.checked = chain[file])
    BY <1>2 DEF Request
  <1>3. RegistryTellsOneStory'
    BY <1>1 DEF RegistryInv, RegistryTellsOneStory, registry
  <1> QED
    BY <1>1, <1>2, <1>3 DEF RegistryInv, registry

\* Every operation checks what its entry needs.
LEMMA OperationInv ==
    ASSUME RegistryInv, NEW c \in Client,
           \/ \E k \in Candidate :
                 \/ RegisterCandidate(c, k)
                 \/ RecordEvaluation(c, k)
                 \/ \E status \in CandidateStatuses : ChangeStatus(c, k, status)
           \/ \E d \in Discovery : AppendDiscovery(c, d)
    PROVE  RegistryInv' /\ chain' = chain /\ overlapped' = overlapped
  <1>1. ASSUME NEW k \in Candidate, RegisterCandidate(c, k)
        PROVE  RegistryInv' /\ chain' = chain /\ overlapped' = overlapped
    <2> DEFINE e == [event |-> "REGISTERED", about |-> k, status |-> "active"]
    <2>1. e \in Entry /\ Request(c, "registry", e) /\ Admitted(e, registry)
      BY <1>1 DEF RegisterCandidate, Entry, Admitted
    <2> QED
      BY <2>1, RequestInv DEF File, Request
  <1>2. ASSUME NEW k \in Candidate, RecordEvaluation(c, k)
        PROVE  RegistryInv' /\ chain' = chain /\ overlapped' = overlapped
    <2> DEFINE e == [event |-> "EVALUATED", about |-> k, status |-> "none"]
    <2>1. e \in Entry /\ Request(c, "registry", e) /\ Admitted(e, registry)
      BY <1>2 DEF RecordEvaluation, Entry, Admitted
    <2> QED
      BY <2>1, RequestInv DEF File, Request
  <1>3. ASSUME NEW k \in Candidate, NEW status \in CandidateStatuses,
               ChangeStatus(c, k, status)
        PROVE  RegistryInv' /\ chain' = chain /\ overlapped' = overlapped
    <2> DEFINE e == [event |-> "STATUS_CHANGED", about |-> k, status |-> status]
    <2>1. e \in Entry /\ Request(c, "registry", e) /\ Admitted(e, registry)
      BY <1>3 DEF ChangeStatus, Entry, Admitted
    <2> QED
      BY <2>1, RequestInv DEF File, Request
  <1>4. ASSUME NEW d \in Discovery, AppendDiscovery(c, d)
        PROVE  RegistryInv' /\ chain' = chain /\ overlapped' = overlapped
    <2> DEFINE e == [event |-> "DISCOVERED", about |-> d, status |-> "none"]
    <2>1. e \in Entry /\ Request(c, "ledger", e)
      BY <1>4 DEF AppendDiscovery, Entry
    <2> QED
      BY <2>1, RequestInv DEF File, Request
  <1> QED
    BY <1>1, <1>2, <1>3, <1>4

\* What a step may do to the registry while no two appends overlap.
Grows ==
    "registry" \notin overlapped' =>
        /\ "registry" \notin overlapped
        /\ \/ registry' = registry
           \/ \E e \in Entry : Admitted(e, registry) /\ registry' = Append(registry, e)

\* A file that is written over a content the client has not seen is in overlapped.
LEMMA WriteInv ==
    ASSUME RegistryInv, NEW c \in Client, WriteChain(c)
    PROVE  RegistryInv' /\ Grows
  <1>1. PICK o \in order[c], entries \in base[c] :
          /\ chain' = [chain EXCEPT ![o.file] = Append(entries, o.entry)]
          /\ overlapped' = overlapped \cup
                {f \in {o.file} : chain[f] # entries \/ chain[f] # o.checked}
    BY DEF WriteChain
  <1>2. o.file \in File /\ o.entry \in Entry /\ entries \in Seq(Entry)
    BY DEF RegistryInv
  <1>3. chain' \in [File -> Seq(Entry)]
    BY <1>1, <1>2, AppendProperties DEF RegistryInv
  <1>4. ASSUME NEW d \in Client
        PROVE  order'[d] \subseteq order[d] /\ base'[d] \subseteq base[d]
    BY DEF WriteChain
  <1>5. Grows
    <2> SUFFICES ASSUME "registry" \notin overlapped'
                 PROVE  /\ "registry" \notin overlapped
                        /\ \/ registry' = registry
                           \/ \E e \in Entry : Admitted(e, registry) /\ registry' = Append(registry, e)
      BY DEF Grows
    <2>1. "registry" \notin overlapped
      BY <1>1
    <2>2. CASE o.file = "registry"
      <3>1. chain["registry"] = entries /\ chain["registry"] = o.checked
        BY <1>1, <2>2
      <3>2. registry' = Append(registry, o.entry)
        BY <1>1, <2>2, <3>1 DEF RegistryInv, registry, File
      <3>3. Admitted(o.entry, registry)
        BY <2>2, <3>1 DEF RegistryInv, registry
      <3> QED
        BY <1>2, <2>1, <3>2, <3>3
    <2>3. CASE o.file # "registry"
      BY <1>1, <1>2, <2>1, <2>3 DEF RegistryInv, registry, File
    <2> QED
      BY <2>2, <2>3
  <1>6. RegistryTellsOneStory'
    <2> SUFFICES ASSUME "registry" \notin overlapped', NEW i \in DOMAIN registry'
                 PROVE  Admitted(registry'[i], SubSeq(registry', 1, i - 1))
      BY DEF RegistryTellsOneStory, Admitted, Registered, Evaluated, Of
    <2>1. registry \in Seq(Entry)
      BY DEF RegistryInv, registry, File
    <2>2. \A j \in DOMAIN registry : Admitted(registry[j], SubSeq(registry, 1, j - 1))
      BY <1>5 DEF Grows, RegistryInv, RegistryTellsOneStory
    <2>3. CASE registry' = registry
      BY <2>2, <2>3
    <2>4. ASSUME NEW e \in Entry, Admitted(e, registry), registry' = Append(registry, e)
          PROVE  Admitted(registry'[i], SubSeq(registry', 1, i - 1))
      <3>1. /\ Len(registry') = Len(registry) + 1 /\ Len(registry) \in Nat
            /\ \A j \in 1..Len(registry) : registry'[j] = registry[j]
            /\ registry'[Len(registry) + 1] = e
            /\ registry' \in Seq(Entry)
        BY <2>1, <2>4, AppendProperties
      <3>2. i \in 1..(Len(registry) + 1)
        BY <3>1
      <3>3. CASE i = Len(registry) + 1
        <4>1. registry'[i] = e
          BY <3>1, <3>3
        <4>2. SubSeq(registry', 1, i - 1) = registry
          BY <2>1, <2>4, <3>2, <3>3, BeforeAppend
        <4> QED
          BY <2>4, <4>1, <4>2
      <3>4. CASE i # Len(registry) + 1
        <4>1. i \in DOMAIN registry /\ registry'[i] = registry[i]
          BY <2>1, <3>1, <3>2, <3>4
        <4>2. SubSeq(registry', 1, i - 1) = SubSeq(registry, 1, i - 1)
          BY <2>1, <2>4, <3>2, BeforeAppend
        <4> QED
          BY <2>2, <4>1, <4>2
      <3> QED
        BY <3>3, <3>4
    <2> QED
      BY <1>5, <2>3, <2>4 DEF Grows
  <1> QED
    BY <1>3, <1>4, <1>5, <1>6 DEF RegistryInv

\* The registry invariant is inductive, and the registry only grows.
LEMMA RegistryStep ==
    ASSUME RegistryInv, RegistryNext
    PROVE  RegistryInv' /\ Grows
  <1>1. PICK c \in Client :
          \/ \E k \in Candidate :
                \/ RegisterCandidate(c, k)
                \/ RecordEvaluation(c, k)
                \/ \E status \in CandidateStatuses : ChangeStatus(c, k, status)
          \/ \E d \in Discovery : AppendDiscovery(c, d)
          \/ ReadChain(c) \/ WriteChain(c) \/ ClientStops(c)
    BY DEF RegistryNext
  <1>2. CASE ReadChain(c)
    <2>1. chain' = chain /\ order' = order /\ overlapped' = overlapped
      BY <1>2 DEF ReadChain
    <2>2. ASSUME NEW d \in Client PROVE base'[d] \subseteq Seq(Entry)
      BY <1>2 DEF ReadChain, RegistryInv
    <2>3. RegistryTellsOneStory'
      BY <2>1 DEF RegistryInv, RegistryTellsOneStory, registry
    <2> QED
      BY <2>1, <2>2, <2>3 DEF RegistryInv, Grows, registry
  <1>3. CASE ClientStops(c)
    <2>1. chain' = chain /\ overlapped' = overlapped
      BY <1>3 DEF ClientStops
    <2>2. ASSUME NEW d \in Client
          PROVE  order'[d] \subseteq order[d] /\ base'[d] \subseteq base[d]
      BY <1>3 DEF ClientStops
    <2>3. RegistryTellsOneStory'
      BY <2>1 DEF RegistryInv, RegistryTellsOneStory, registry
    <2> QED
      BY <2>1, <2>2, <2>3 DEF RegistryInv, Grows, registry
  <1> QED
    BY <1>1, <1>2, <1>3, WriteInv, OperationInv DEF Grows, registry

-----------------------------------------------------------------------------
(* The iteration.                                                          *)

\* A step that leaves the registry alone, or makes it grow, leaves prefixes of it
\* prefixes of it.
LEMMA PrefixSurvives ==
    ASSUME RegistryInv, Grows, "registry" \notin overlapped',
           NEW s \in Seq(Entry), IsPrefix(s, registry)
    PROVE  IsPrefix(s, registry')
  <1>1. registry \in Seq(Entry)
    BY DEF RegistryInv, registry, File
  <1>2. CASE registry' = registry
    BY <1>2
  <1>3. ASSUME NEW e \in Entry, registry' = Append(registry, e)
        PROVE  IsPrefix(s, registry')
    BY <1>1, <1>3, PrefixOfAppend
  <1> QED
    BY <1>2, <1>3 DEF Grows

\* Steps that only change the registry.
LEMMA RegistryMoves ==
    ASSUME DInv, RegistryInv', Grows, UNCHANGED <<iteration, output>>
    PROVE  DInv'
  <1>1. RunsInv'
    <2> SUFFICES ASSUME "registry" \notin overlapped', NEW w \in Worker,
                        NEW i \in iteration[w]
                 PROVE  /\ i \in Iterations /\ VerifiedRegistrations(i.verified)
                        /\ IsPrefix(i.verified, registry')
                        /\ \A h \in i.hashed : IsPrefix(i.verified, h) /\ IsPrefix(h, registry')
      BY DEF RunsInv, VerifiedRegistrations, Iterations
    <2>1. "registry" \notin overlapped
      BY DEF Grows
    <2> QED
      BY <2>1, PrefixSurvives DEF DInv, RunsInv, Iterations
  <1>2. ResultsInv'
    <2> SUFFICES ASSUME "registry" \notin overlapped', NEW p \in Output,
                        NEW r \in output[p]
                 PROVE  /\ r.verified \in Seq(Entry) /\ VerifiedRegistrations(r.verified)
                        /\ r.hash \in Seq(Entry) /\ r.copy \in Seq(Entry)
                        /\ IsPrefix(r.verified, r.hash) /\ IsPrefix(r.hash, r.copy)
                        /\ IsPrefix(r.copy, registry')
      BY DEF ResultsInv, VerifiedRegistrations
    <2>1. "registry" \notin overlapped
      BY DEF Grows
    <2> QED
      BY <2>1, PrefixSurvives DEF DInv, ResultsInv
  <1> QED
    BY <1>1, <1>2 DEF DInv, Domains

\* Steps that leave the registry alone.
LEMMA RegistryStays ==
    ASSUME RegistryInv, UNCHANGED registryVars PROVE RegistryInv' /\ registry' = registry
  <1>1. chain' = chain /\ order' = order /\ base' = base /\ overlapped' = overlapped
    BY DEF registryVars
  <1>2. RegistryTellsOneStory'
    BY <1>1 DEF RegistryInv, RegistryTellsOneStory, registry
  <1> QED
    BY <1>1, <1>2 DEF RegistryInv, registry

\* A run that goes on, ends or dies.
LEMMA RunMoves ==
    ASSUME DInv, UNCHANGED registryVars, UNCHANGED output, DOMAIN iteration' = Worker,
           \A w \in Worker : iteration'[w] \subseteq iteration[w]
    PROVE  DInv'
  <1>1. RegistryInv' /\ registry' = registry /\ overlapped' = overlapped
    BY RegistryStays DEF DInv, registryVars
  <1>2. RunsInv'
    <2> SUFFICES ASSUME "registry" \notin overlapped, NEW w \in Worker,
                        NEW i \in iteration'[w]
                 PROVE  /\ i \in Iterations /\ VerifiedRegistrations(i.verified)
                        /\ IsPrefix(i.verified, registry)
                        /\ \A h \in i.hashed : IsPrefix(i.verified, h) /\ IsPrefix(h, registry)
      BY <1>1 DEF RunsInv, VerifiedRegistrations, Iterations
    <2> QED
      BY DEF DInv, RunsInv
  <1>3. ResultsInv'
    BY <1>1 DEF DInv, ResultsInv, VerifiedRegistrations
  <1> QED
    BY <1>1, <1>2, <1>3 DEF DInv, Domains

\* A run begins with the registry it has verified.
LEMMA BeginInv ==
    ASSUME DInv, NEW w \in Worker, NEW o \in Output, NEW e \in Entrypoint, NEW under \in Job,
           BeginIteration(w, o, e, under)
    PROVE  DInv'
  <1>1. RegistryInv' /\ registry' = registry /\ overlapped' = overlapped /\ output' = output
    BY RegistryStays DEF BeginIteration, DInv, registryVars
  <1>2. ResultsInv'
    BY <1>1 DEF DInv, ResultsInv, VerifiedRegistrations
  <1> DEFINE new == [output |-> o, entrypoint |-> e, verified |-> registry, hashed |-> {}]
  <1>3. VerifiedRegistrations(registry) /\ registry \in Seq(Entry)
    BY DEF BeginIteration, DInv, RegistryInv, registry, File
  <1>4. new \in Iterations /\ VerifiedRegistrations(new.verified) /\ new.hashed = {}
        /\ IsPrefix(new.verified, registry)
    BY <1>3, PrefixReflexive DEF Iterations
  <1>5. \A v \in Worker : \A i \in iteration'[v] : i = new \/ i \in iteration[v]
    BY DEF BeginIteration, DInv, Domains
  <1>6. RunsInv'
    <2> SUFFICES ASSUME "registry" \notin overlapped, NEW v \in Worker,
                        NEW i \in iteration'[v]
                 PROVE  /\ i \in Iterations /\ VerifiedRegistrations(i.verified)
                        /\ IsPrefix(i.verified, registry)
                        /\ \A h \in i.hashed : IsPrefix(i.verified, h) /\ IsPrefix(h, registry)
      BY <1>1 DEF RunsInv, VerifiedRegistrations, Iterations
    <2>1. CASE i = new
      BY <1>4, <2>1
    <2>2. CASE i \in iteration[v]
      BY <2>2 DEF DInv, RunsInv
    <2> QED
      BY <1>5, <2>1, <2>2
  <1>7. Domains'
    BY DEF BeginIteration, DInv, Domains
  <1> QED
    BY <1>1, <1>2, <1>6, <1>7 DEF DInv

\* The digest is taken of a registry that continues the verified one.
LEMMA EvaluateInv ==
    ASSUME DInv, NEW w \in Worker, EvaluateQueries(w) PROVE DInv'
  <1>1. RegistryInv' /\ registry' = registry /\ overlapped' = overlapped /\ output' = output
    BY RegistryStays DEF EvaluateQueries, DInv, registryVars
  <1>2. ResultsInv'
    BY <1>1 DEF DInv, ResultsInv, VerifiedRegistrations
  <1>3. PICK j \in iteration[w] :
          IF Adapted(j.entrypoint)
          THEN iteration' = [iteration EXCEPT ![w] = {[j EXCEPT !.hashed = {registry}]}]
          ELSE iteration' = [iteration EXCEPT ![w] = {}]
    BY DEF EvaluateQueries, EndRun
  <1> DEFINE new == [j EXCEPT !.hashed = {registry}]
  <1>4. \A v \in Worker : \A i \in iteration'[v] : i = new \/ i \in iteration[v]
    <2>1. CASE Adapted(j.entrypoint)
      <3>1. iteration' = [iteration EXCEPT ![w] = {new}]
        BY <1>3, <2>1
      <3> QED
        BY <3>1 DEF DInv, Domains
    <2>2. CASE ~ Adapted(j.entrypoint)
      BY <1>3, <2>2 DEF DInv, Domains
    <2> QED
      BY <2>1, <2>2
  <1>5. RunsInv'
    <2> SUFFICES ASSUME "registry" \notin overlapped, NEW v \in Worker,
                        NEW i \in iteration'[v]
                 PROVE  /\ i \in Iterations /\ VerifiedRegistrations(i.verified)
                        /\ IsPrefix(i.verified, registry)
                        /\ \A h \in i.hashed : IsPrefix(i.verified, h) /\ IsPrefix(h, registry)
      BY <1>1 DEF RunsInv, VerifiedRegistrations, Iterations
    <2>1. CASE i = new
      <3>1. j \in Iterations /\ VerifiedRegistrations(j.verified)
            /\ IsPrefix(j.verified, registry)
        BY DEF DInv, RunsInv
      <3>2. registry \in Seq(Entry)
        BY DEF DInv, RegistryInv, registry, File
      <3>3. new \in Iterations /\ new.verified = j.verified /\ new.hashed = {registry}
        BY <3>1, <3>2 DEF Iterations
      <3> QED
        BY <2>1, <3>1, <3>2, <3>3, PrefixReflexive
    <2>2. CASE i \in iteration[v]
      BY <2>2 DEF DInv, RunsInv
    <2> QED
      BY <1>4, <2>1, <2>2
  <1>6. Domains'
    BY <1>1, <1>3 DEF DInv, Domains
  <1> QED
    BY <1>1, <1>2, <1>5, <1>6 DEF DInv

\* What is copied continues what was hashed.
LEMMA PublishInv ==
    ASSUME DInv, NEW w \in Worker, PublishResult(w) PROVE DInv'
  <1>1. RegistryInv' /\ registry' = registry /\ overlapped' = overlapped
    BY RegistryStays DEF PublishResult, DInv, registryVars
  <1>0. PICK i \in iteration[w] : \E hash \in i.hashed :
          output' = IF output[i.output] # {} THEN output
                    ELSE [output EXCEPT ![i.output] =
                            {[verified |-> i.verified, hash |-> hash, copy |-> registry]}]
    BY DEF PublishResult
  <1>2. PICK hash \in i.hashed :
          output' = IF output[i.output] # {} THEN output
                    ELSE [output EXCEPT ![i.output] =
                            {[verified |-> i.verified, hash |-> hash, copy |-> registry]}]
    BY <1>0
  <1> DEFINE new == [verified |-> i.verified, hash |-> hash, copy |-> registry]
  <1>3. \A p \in Output : \A r \in output'[p] : r = new \/ r \in output[p]
    BY <1>2 DEF DInv, Domains
  <1>4. ResultsInv'
    <2> SUFFICES ASSUME "registry" \notin overlapped, NEW p \in Output, NEW r \in output'[p]
                 PROVE  /\ r.verified \in Seq(Entry) /\ VerifiedRegistrations(r.verified)
                        /\ r.hash \in Seq(Entry) /\ r.copy \in Seq(Entry)
                        /\ IsPrefix(r.verified, r.hash) /\ IsPrefix(r.hash, r.copy)
                        /\ IsPrefix(r.copy, registry)
      BY <1>1 DEF ResultsInv, VerifiedRegistrations
    <2>1. CASE r = new
      <3>1. /\ i \in Iterations /\ VerifiedRegistrations(i.verified)
            /\ IsPrefix(i.verified, hash) /\ IsPrefix(hash, registry)
        BY DEF DInv, RunsInv
      <3>2. registry \in Seq(Entry)
        BY DEF DInv, RegistryInv, registry, File
      <3>3. i.verified \in Seq(Entry) /\ hash \in Seq(Entry) /\ IsPrefix(registry, registry)
        BY <3>1, <3>2, PrefixReflexive DEF Iterations
      <3> QED
        BY <2>1, <3>1, <3>2, <3>3
    <2>2. CASE r \in output[p]
      BY <2>2 DEF DInv, ResultsInv
    <2> QED
      BY <1>3, <2>1, <2>2
  <1>5. RunsInv'
    <2>1. \A v \in Worker : iteration'[v] \subseteq iteration[v]
      BY DEF PublishResult, EndRun, DInv, Domains
    <2> SUFFICES ASSUME "registry" \notin overlapped, NEW v \in Worker,
                        NEW k \in iteration'[v]
                 PROVE  /\ k \in Iterations /\ VerifiedRegistrations(k.verified)
                        /\ IsPrefix(k.verified, registry)
                        /\ \A h \in k.hashed : IsPrefix(k.verified, h) /\ IsPrefix(h, registry)
      BY <1>1 DEF RunsInv, VerifiedRegistrations, Iterations
    <2> QED
      BY <2>1 DEF DInv, RunsInv
  <1>6. Domains'
    BY <1>2 DEF PublishResult, EndRun, DInv, Domains
  <1> QED
    BY <1>1, <1>4, <1>5, <1>6 DEF DInv

\* A step of a worker.
LEMMA WorkerInv ==
    ASSUME DInv, NEW w \in Worker, WorkerStep(w) \/ IterationFails(w)
    PROVE  DInv'
  <1>1. CASE Embedding(w)
    BY <1>1, RunMoves DEF Embedding, DInv, Domains
  <1>2. CASE IterationFails(w)
    BY <1>2, RunMoves DEF IterationFails, DInv, Domains
  <1> QED
    BY <1>1, <1>2, EvaluateInv, PublishInv DEF WorkerStep

-----------------------------------------------------------------------------

\* The invariant holds before anyone has appended anything.
LEMMA InitInv == IterationInit => DInv
  <1> SUFFICES ASSUME IterationInit PROVE DInv
    OBVIOUS
  <1>1. RegistryInv
    BY DEF IterationInit, RegistryInit, RegistryInv, RegistryTellsOneStory, registry, File
  <1>2. RunsInv /\ ResultsInv
    BY DEF IterationInit, RunsInv, ResultsInv
  <1> QED
    BY <1>1, <1>2 DEF DInv, Domains, IterationInit

\* Every step keeps the invariant.
LEMMA StepInv == DInv /\ [IterationNext]_iterationVars => DInv'
  <1> SUFFICES ASSUME DInv, [IterationNext]_iterationVars PROVE DInv'
    OBVIOUS
  <1>1. ASSUME NEW w \in Worker,
               \E o \in Output, e \in Entrypoint, under \in Job : BeginIteration(w, o, e, under)
        PROVE  DInv'
    BY <1>1, BeginInv
  <1>2. CASE RegistryNext /\ UNCHANGED <<recoveryVars, iteration, output>>
    BY <1>2, RegistryStep, RegistryMoves DEF DInv
  <1>3. CASE UNCHANGED <<registryVars, iteration, output>>
    BY <1>3, RunMoves DEF DInv, Domains
  <1> QED
    BY <1>1, <1>2, <1>3, WorkerInv DEF IterationNext, iterationVars

\* The invariant of the registry, of the runs and of the results, at all times.
THEOREM Invariance == IterationSpec => []DInv
  BY InitInv, StepInv, PTL DEF IterationSpec

\* Unless two appends overlapped, the registry registers a version once and after
\* its predecessor, evaluates it at most once and selects it only after that.
\* (register_candidate, record_candidate_evaluation, change_candidate_status)
THEOREM OneStory == IterationSpec => []RegistryTellsOneStory
  <1>1. DInv => RegistryTellsOneStory
    BY DEF DInv, RegistryInv
  <1> QED
    BY <1>1, Invariance, PTL

\* Unless two appends overlapped, the registry a result names and the one it holds
\* continue the registry its run has verified.  (run_discovery_iteration)
THEOREM ResultsContinue == IterationSpec => []ResultRegistryContinues
  <1>1. DInv => ResultRegistryContinues
    BY DEF DInv, ResultsInv, ResultRegistryContinues
  <1> QED
    BY <1>1, Invariance, PTL

\* The elements of a prefix of a prefix of a prefix are elements of the whole.
LEMMA PrefixOfPrefix ==
    ASSUME NEW S, NEW s \in Seq(S), NEW t \in Seq(S), NEW u \in Seq(S), NEW v \in Seq(S),
           IsPrefix(s, t), IsPrefix(t, u), IsPrefix(u, v)
    PROVE  Len(s) <= Len(v) /\ \A i \in 1..Len(s) : s[i] = v[i]
  <1>1. Len(s) \in Nat /\ Len(t) \in Nat /\ Len(u) \in Nat /\ Len(v) \in Nat
    OBVIOUS
  <1>2. Len(s) <= Len(t) /\ \A i \in 1..Len(s) : s[i] = t[i]
    BY PrefixElements
  <1>3. Len(t) <= Len(u) /\ \A i \in 1..Len(t) : t[i] = u[i]
    BY PrefixElements
  <1>4. Len(u) <= Len(v) /\ \A i \in 1..Len(u) : u[i] = v[i]
    BY PrefixElements
  <1> QED
    BY <1>1, <1>2, <1>3, <1>4

\* Whatever is published, the registry still begins with the registrations of the
\* plan.  (verify_registered_candidates)
THEOREM PlanFirst == IterationSpec => []PlanIsRegisteredFirst
  <1>1. DInv => PlanIsRegisteredFirst
    <2> SUFFICES ASSUME DInv, "registry" \notin overlapped, NEW p \in Output,
                        NEW r \in output[p]
                 PROVE  /\ {registry[i].about : i \in 1..Cardinality(Plan)} = Plan
                        /\ \A i \in 1..Cardinality(Plan) : registry[i].event = "REGISTERED"
      BY DEF PlanIsRegisteredFirst
    <2>1. registry \in Seq(Entry)
      BY DEF DInv, RegistryInv, registry, File
    <2>2. r.verified \in Seq(Entry) /\ VerifiedRegistrations(r.verified)
      BY DEF DInv, ResultsInv
    <2>3. \A i \in 1..Len(r.verified) : r.verified[i] = registry[i]
      BY <2>1, PrefixOfPrefix DEF DInv, ResultsInv
    <2>4. Len(r.verified) = Cardinality(Plan) /\ DOMAIN r.verified = 1..Len(r.verified)
      BY <2>2 DEF VerifiedRegistrations
    <2> QED
      BY <2>2, <2>3, <2>4 DEF VerifiedRegistrations
  <1> QED
    BY <1>1, Invariance, PTL

-----------------------------------------------------------------------------
(* The embedding.                                                          *)

\* What is kept under a fingerprint was computed under it, and for its row; unless
\* embed_partition_with_cache put to it, what is intact is of a frozen batch.
CacheInv ==
    /\ DOMAIN cache = Fingerprint
    /\ \A fp \in Fingerprint :
          /\ DOMAIN cache[fp] = Row
          /\ \A r \in Row : \A v \in cache[fp][r] : v = [job |-> fp, row |-> r, batch |-> v.batch]
          /\ fp \notin mixed => \A r \in Row : Get(fp, r) \subseteq Canonical(fp)[r]

\* The rows up to the partition at hand have their vectors.
Assembled(w) == \A p \in 1..3 : p < part[w] \/ stage[w] = "embedded" =>
    \A i \in DOMAIN Rows(p) : held[w][Rows(p)[i]] # {}

\* Nothing but its own run has filled what a worker holds.
HeldInv(w) ==
    /\ part[w] \in 1..3 /\ held[w] = [r \in Row |-> held[w][r]]
    /\ stage[w] = "idle" => held[w] = Nothing /\ part[w] = 1
    /\ \A j \in job[w] :
          /\ job[w] = {j} /\ j.under \in Job
          /\ \A r \in Row : \A v \in held[w][r] :
                v = [job |-> j.under, row |-> r, batch |-> v.batch]
          /\ j.policy # "packed" /\ (FingerprintOf(j.under) \notin mixed \/ j.policy = "direct") =>
                \A r \in Row : held[w][r] \subseteq Canonical(j.under)[r]
          /\ Assembled(w)

EmbeddingInv ==
    /\ DOMAIN stage = Worker /\ DOMAIN job = Worker
    /\ DOMAIN part = Worker /\ DOMAIN held = Worker
    /\ CacheInv /\ \A w \in Worker : HeldInv(w)

\* A nonempty set of numbers has a least one.
LEMMA LeastExists ==
    ASSUME NEW S \in SUBSET Nat, S # {}
    PROVE  \E x \in S : \A y \in S : x <= y
  <1>1. PICK n \in S : TRUE
    OBVIOUS
  <1> DEFINE Low == {0..k : k \in {j \in S : j <= n}}
  <1>2. 0..n \in Low
    OBVIOUS
  <1>3. Low \subseteq FiniteSubsetsOf(0..n)
    <2>1. \A k \in Nat : k <= n => 0..k \in SUBSET (0..n) /\ IsFiniteSet(0..k)
      BY FS_Interval
    <2> QED
      BY <2>1 DEF FiniteSubsetsOf
  <1>4. IsWellFoundedOn(StrictSubsetOrdering(0..n), FiniteSubsetsOf(0..n))
    BY FS_StrictSubsetOrderingWellFounded
  <1> HIDE DEF Low
  <1>5. PICK T \in Low : \A U \in Low : ~ (<<U, T>> \in StrictSubsetOrdering(0..n))
    BY <1>2, <1>3, <1>4, WFMin
  <1>6. PICK x \in S : T = 0..x /\ x <= n
    BY <1>5 DEF Low
  <1>7. ASSUME NEW y \in S, y < x PROVE FALSE
    <2>1. 0..y \in Low
      BY <1>6, <1>7 DEF Low
    <2>2. 0..y \subseteq T /\ 0..y # T /\ T \subseteq 0..n
      BY <1>6, <1>7
    <2> QED
      BY <1>5, <2>1, <2>2 DEF StrictSubsetOrdering
  <1> QED
    BY <1>7

LEMMA MinIsLeast == ASSUME NEW S \in SUBSET Nat, S # {}
                    PROVE  Min(S) \in S /\ \A y \in S : Min(S) <= y
  BY LeastExists DEF Min

\* The frozen batches of a partition: their rows, one after the other.
LEMMA BatchRows ==
    ASSUME NEW p \in 1..3, NEW k \in DOMAIN FrozenBatches(p)
    PROVE  /\ FrozenBatches(p)[k] \in Seq(Row) /\ FrozenBatches(p)[k] # <<>>
           /\ \A r \in ToSet(FrozenBatches(p)[k]) : \E i \in DOMAIN Rows(p) :
                  /\ Rows(p)[i] = r /\ (k - 1) * BatchSize < i /\ i <= k * BatchSize
           /\ \A i \in DOMAIN Rows(p) : (k - 1) * BatchSize < i /\ i <= k * BatchSize =>
                  Rows(p)[i] \in ToSet(FrozenBatches(p)[k])
  <1> DEFINE rows == Rows(p)  n == Len(rows)  s == (k - 1) * BatchSize + 1
             e == Least(s + BatchSize - 1, n)
  <1>1. rows \in Seq(Row) /\ n \in Nat /\ DOMAIN rows = 1..n /\ BatchSize \in Nat \ {0}
    BY RecoveryAssumption DEF Rows
  <1>2. k \in 1..((n + BatchSize - 1) \div BatchSize)
    BY DEF FrozenBatches
  <1>3. FrozenBatches(p)[k] = SubSeq(rows, s, e)
    BY <1>2 DEF FrozenBatches, BatchFrom
  <1>4. k \in Nat \ {0} /\ s - 1 = k * BatchSize - BatchSize /\ s \in Nat \ {0} /\ s <= n
    <2>1. (n + BatchSize - 1) \div BatchSize \in Int
          /\ ((n + BatchSize - 1) \div BatchSize) * BatchSize <= n + BatchSize - 1
      BY <1>1
    <2>2. k \in Nat \ {0} /\ k * BatchSize <= ((n + BatchSize - 1) \div BatchSize) * BatchSize
      BY <1>1, <1>2, <2>1
    <2>3. k * BatchSize \in Nat /\ (k - 1) * BatchSize \in Nat
          /\ (k - 1) * BatchSize = k * BatchSize - BatchSize
      BY <1>1, <2>2
    <2> QED
      BY <1>1, <2>1, <2>2, <2>3
  <1>5. e \in Nat /\ s <= e /\ e <= n /\ e <= k * BatchSize /\ (e = n \/ e = k * BatchSize)
    BY <1>1, <1>4 DEF Least
  <1> HIDE DEF e, s, n, rows
  <1>6. /\ SubSeq(rows, s, e) \in Seq(Row) /\ Len(SubSeq(rows, s, e)) = e - s + 1
        /\ \A i \in 1..(e - s + 1) : SubSeq(rows, s, e)[i] = rows[s + i - 1]
    BY <1>1, <1>4, <1>5, SubSeqProperties
  <1>7. ToSet(SubSeq(rows, s, e)) = {rows[i] : i \in s..e}
    <2>1. DOMAIN SubSeq(rows, s, e) = 1..(e - s + 1)
      BY <1>6
    <2>2. \A i \in 1..(e - s + 1) : s + i - 1 \in s..e
      BY <1>4, <1>5
    <2>3. \A i \in s..e : i - s + 1 \in 1..(e - s + 1) /\ s + (i - s + 1) - 1 = i
      BY <1>4, <1>5
    <2>4. ASSUME NEW r \in ToSet(SubSeq(rows, s, e)) PROVE r \in {rows[i] : i \in s..e}
      BY <1>6, <2>1, <2>2, <2>4 DEF ToSet
    <2>5. ASSUME NEW i \in s..e PROVE rows[i] \in ToSet(SubSeq(rows, s, e))
      <3>1. i - s + 1 \in 1..(e - s + 1) /\ SubSeq(rows, s, e)[i - s + 1] = rows[i]
        BY <1>6, <2>3, <2>5
      <3> QED
        BY <2>1, <3>1 DEF ToSet
    <2> QED
      BY <2>4, <2>5
  <1>8. \A i \in 1..n : i \in s..e <=> (k - 1) * BatchSize < i /\ i <= k * BatchSize
    BY <1>1, <1>4, <1>5 DEF s
  <1>9. s..e \subseteq 1..n /\ SubSeq(rows, s, e) # <<>>
    <2>1. s..e \subseteq 1..n
      BY <1>1, <1>4, <1>5
    <2>2. Len(SubSeq(rows, s, e)) # 0
      BY <1>4, <1>5, <1>6
    <2>3. Len(<<>>) = 0
      OBVIOUS
    <2> QED
      BY <2>1, <2>2, <2>3
  <1>10. \A r \in ToSet(SubSeq(rows, s, e)) : \E i \in 1..n :
             rows[i] = r /\ (k - 1) * BatchSize < i /\ i <= k * BatchSize
    BY <1>7, <1>8, <1>9
  <1>11. \A i \in 1..n : (k - 1) * BatchSize < i /\ i <= k * BatchSize =>
             rows[i] \in ToSet(SubSeq(rows, s, e))
    BY <1>7, <1>8
  <1> QED
    BY <1>1, <1>3, <1>6, <1>9, <1>10, <1>11 DEF rows

\* Every row is in a frozen batch of its partition, and in no other.
LEMMA BatchCovers ==
    ASSUME NEW p \in 1..3, NEW i \in DOMAIN Rows(p)
    PROVE  \E k \in DOMAIN FrozenBatches(p) : Rows(p)[i] \in ToSet(FrozenBatches(p)[k])
  <1> DEFINE n == Len(Rows(p))  q == (i - 1) \div BatchSize
             m == (n + BatchSize - 1) \div BatchSize
  <1>1. n \in Nat /\ i \in 1..n /\ BatchSize \in Nat \ {0}
    BY RecoveryAssumption DEF Rows
  <1>2. q \in Nat /\ q * BatchSize <= i - 1 /\ i - 1 < q * BatchSize + BatchSize
    BY <1>1
  <1>3. m \in Nat /\ n + BatchSize - 1 < m * BatchSize + BatchSize
    BY <1>1
  <1>4. DOMAIN FrozenBatches(p) = 1..m
    BY DEF FrozenBatches
  <1> HIDE DEF q, m, n
  <1>5. q < m
    <2>1. SUFFICES ASSUME m <= q PROVE FALSE
      BY <1>2, <1>3
    <2>2. m * BatchSize <= q * BatchSize /\ m * BatchSize \in Nat /\ q * BatchSize \in Nat
      BY <1>1, <1>2, <1>3, <2>1
    <2> QED
      BY <1>1, <1>2, <1>3, <2>2
  <1>6. PICK k : k = q + 1
    OBVIOUS
  <1>7. k \in 1..m /\ (k - 1) * BatchSize < i /\ i <= k * BatchSize
    <2>1. q * BatchSize \in Nat /\ k - 1 = q /\ k * BatchSize = q * BatchSize + BatchSize
      BY <1>1, <1>2, <1>6
    <2> QED
      BY <1>1, <1>2, <1>3, <1>5, <1>6, <2>1
  <1> QED
    BY <1>4, <1>7, BatchRows

LEMMA BatchUnique ==
    ASSUME NEW p \in 1..3, NEW k \in DOMAIN FrozenBatches(p),
           NEW q \in 1..3, NEW l \in DOMAIN FrozenBatches(q),
           NEW r \in ToSet(FrozenBatches(p)[k]), r \in ToSet(FrozenBatches(q)[l])
    PROVE  p = q /\ k = l
  <1>1. PICK i \in DOMAIN Rows(p) :
            Rows(p)[i] = r /\ (k - 1) * BatchSize < i /\ i <= k * BatchSize
    BY BatchRows
  <1>2. PICK j \in DOMAIN Rows(q) :
            Rows(q)[j] = r /\ (l - 1) * BatchSize < j /\ j <= l * BatchSize
    BY BatchRows
  <1>3. p = q /\ i = j
    BY <1>1, <1>2, RecoveryAssumption DEF Rows
  <1>4. k \in Int /\ l \in Int /\ i \in Int /\ BatchSize \in Nat \ {0}
    <2>1. DOMAIN Rows(p) \subseteq Int
      BY RecoveryAssumption DEF Rows
    <2>2. DOMAIN FrozenBatches(p) \subseteq Int /\ DOMAIN FrozenBatches(q) \subseteq Int
      BY DEF FrozenBatches
    <2> QED
      BY <2>1, <2>2, RecoveryAssumption
  <1>5. ASSUME NEW a \in Int, NEW b \in Int, a < b PROVE a * BatchSize <= (b - 1) * BatchSize
    <2>1. a <= b - 1
      BY <1>5
    <2> QED
      BY <1>4, <2>1
  <1>6. ~ (k < l) /\ ~ (l < k)
    <2>1. \A a, b \in Int : a * BatchSize \in Int
      BY <1>4
    <2>2. k - 1 \in Int /\ l - 1 \in Int
      BY <1>4
    <2> QED
      BY <1>1, <1>2, <1>3, <1>4, <1>5, <2>1, <2>2
  <1> QED
    BY <1>3, <1>4, <1>6

LEMMA CanonicalOf ==
    ASSUME NEW under, NEW p \in 1..3, NEW k \in DOMAIN FrozenBatches(p),
           NEW r \in ToSet(FrozenBatches(p)[k])
    PROVE  r \in Row /\ Canonical(under)[r] = {Embed(under, FrozenBatches(p)[k], r)}
  <1>1. r \in Row
    BY BatchRows DEF ToSet
  <1>2. \A q \in 1..3 : r \in ToSet(Rows(q)) <=> q = p
    <2>1. PICK i \in DOMAIN Rows(p) : Rows(p)[i] = r
      BY BatchRows
    <2>2. r \in ToSet(Rows(p))
      BY <2>1 DEF ToSet
    <2>3. ASSUME NEW q \in 1..3, r \in ToSet(Rows(q)) PROVE q = p
      <3>1. PICK j \in DOMAIN Rows(q) : Rows(q)[j] = r
        BY <2>3 DEF ToSet
      <3> QED
        BY <2>1, <3>1, RecoveryAssumption DEF Rows
    <2> QED
      BY <2>2, <2>3
  <1>3. (CHOOSE q \in 1..3 : r \in ToSet(Rows(q))) = p
    BY <1>2
  <1>4. (CHOOSE j \in DOMAIN FrozenBatches(p) : r \in ToSet(FrozenBatches(p)[j])) = k
    BY BatchUnique
  <1> QED
    BY <1>1, <1>3, <1>4 DEF Canonical

\* What is computed is intact.
LEMMA EmbedIntact ==
    ASSUME NEW under, NEW batch, NEW r
    PROVE  /\ Intact(Embed(under, batch, r))
           /\ Embed(under, batch, r) = [job |-> under, row |-> r, batch |-> Padded(batch)]
  <1>1. DOMAIN Padded(batch) = 1..BatchSize /\ 1 \in 1..BatchSize
    BY RecoveryAssumption DEF Padded
  <1>2. Padded(batch) # <<>>
    <2>1. DOMAIN <<>> = {}
      OBVIOUS
    <2> QED
      BY <1>1, <2>1
  <1> QED
    BY <1>2 DEF Intact, Embed

\* The next batch of a run that keeps the frozen ones is one of them.
LEMMA NextIsFrozen ==
    ASSUME NEW w \in Worker, HeldInv(w), ~ Complete(w)
    PROVE  \E k \in DOMAIN FrozenBatches(part[w]) : NextFrozen(w) = FrozenBatches(part[w])[k]
  <1> DEFINE batches == FrozenBatches(part[w])
             S == {k \in DOMAIN batches : \E r \in ToSet(batches[k]) : held[w][r] = {}}
  <1>1. part[w] \in 1..3
    BY DEF HeldInv
  <1>2. PICK i \in DOMAIN Rows(part[w]) : held[w][Rows(part[w])[i]] = {}
    BY DEF Complete
  <1>3. S # {}
    BY <1>1, <1>2, BatchCovers
  <1>4. S \subseteq Nat
    BY <1>1, RecoveryAssumption DEF FrozenBatches
  <1>5. NextFrozen(w) = batches[Min(S)]
    BY DEF NextFrozen
  <1> HIDE DEF S
  <1>6. Min(S) \in S
    BY <1>3, <1>4, MinIsLeast
  <1> QED
    BY <1>5, <1>6 DEF S

\* The vectors that the rows S get in a batch are those of the frozen batches.
Frozen(S, under, batch) == \A r \in S \cap Row : Canonical(under)[r] = {Embed(under, batch, r)}

LEMMA NextFreezes ==
    ASSUME NEW w \in Worker, HeldInv(w), ~ Complete(w), NEW under,
           NEW S \in SUBSET ToSet(NextFrozen(w))
    PROVE  Frozen(S, under, NextFrozen(w))
  <1>1. part[w] \in 1..3
    BY DEF HeldInv
  <1>2. PICK k \in DOMAIN FrozenBatches(part[w]) : NextFrozen(w) = FrozenBatches(part[w])[k]
    BY NextIsFrozen
  <1> QED
    BY <1>1, <1>2, CanonicalOf DEF Frozen

-----------------------------------------------------------------------------

\* A worker's step leaves the others what they hold.
OnlyOf(w) ==
    /\ DOMAIN stage' = Worker /\ DOMAIN job' = Worker
    /\ DOMAIN part' = Worker /\ DOMAIN held' = Worker
    /\ mixed \subseteq mixed'
    /\ \A v \in Worker \ {w} : /\ stage'[v] = stage[v] /\ job'[v] = job[v]
                               /\ part'[v] = part[v] /\ held'[v] = held[v]

LEMMA StepOf ==
    ASSUME EmbeddingInv, NEW w \in Worker, OnlyOf(w), CacheInv', HeldInv(w)'
    PROVE  EmbeddingInv'
  <1>1. ASSUME NEW v \in Worker \ {w} PROVE HeldInv(v)'
    <2>1. HeldInv(v)
      BY DEF EmbeddingInv
    <2>2. /\ stage'[v] = stage[v] /\ job'[v] = job[v] /\ part'[v] = part[v]
          /\ held'[v] = held[v] /\ mixed \subseteq mixed'
      BY DEF OnlyOf
    <2> QED
      BY <2>1, <2>2 DEF HeldInv, Assembled, FingerprintOf
  <1> QED
    BY <1>1 DEF EmbeddingInv, OnlyOf

LEMMA CacheStays == ASSUME CacheInv, cache' = cache, mixed \subseteq mixed' PROVE CacheInv'
  BY DEF CacheInv, Get

\* Vectors of frozen batches may be put anywhere, others to a mixed fingerprint.
LEMMA PutInv ==
    ASSUME CacheInv, NEW fp \in Fingerprint, NEW S, NEW batch, Put(fp, S, fp, batch),
           mixed \subseteq mixed', fp \in mixed' \/ Frozen(S, fp, batch)
    PROVE  CacheInv'
  <1> DEFINE row == [r \in Row |-> IF r \in S THEN {Embed(fp, batch, r)} ELSE cache[fp][r]]
  <1>1. cache' = [cache EXCEPT ![fp] = row]
    BY DEF Put
  <1>2. DOMAIN row = Row /\ \A r \in Row : row[r] = {Embed(fp, batch, r)} \/ row[r] = cache[fp][r]
    OBVIOUS
  <1>3. \A r \in Row : r \in S => row[r] = {Embed(fp, batch, r)}
    OBVIOUS
  <1>4. \A r \in Row : r \notin S => row[r] = cache[fp][r]
    OBVIOUS
  <1> HIDE DEF row
  <1>5. DOMAIN cache' = Fingerprint /\ cache'[fp] = row
        /\ \A g \in Fingerprint \ {fp} : cache'[g] = cache[g]
    BY <1>1 DEF CacheInv
  <1>6. \A r \in Row : \A v \in row[r] : v = [job |-> fp, row |-> r, batch |-> v.batch]
    <2> SUFFICES ASSUME NEW r \in Row, NEW v \in row[r]
                 PROVE  v = [job |-> fp, row |-> r, batch |-> v.batch]
      OBVIOUS
    <2>1. CASE v = Embed(fp, batch, r)
      BY <2>1 DEF Embed
    <2>2. CASE v \in cache[fp][r]
      BY <2>2 DEF CacheInv
    <2> QED
      BY <1>2, <2>1, <2>2
  <1>7. ASSUME fp \notin mixed', NEW r \in Row, NEW v \in row[r], Intact(v)
        PROVE  v \in Canonical(fp)[r]
    <2>1. CASE r \in S
      BY <1>3, <1>7, <2>1 DEF Frozen
    <2>2. CASE r \notin S
      BY <1>4, <1>7, <2>2 DEF CacheInv, Get
    <2> QED
      BY <2>1, <2>2
  <1>8. ASSUME NEW g \in Fingerprint
        PROVE  /\ DOMAIN cache'[g] = Row
               /\ \A r \in Row : \A v \in cache'[g][r] :
                     v = [job |-> g, row |-> r, batch |-> v.batch]
               /\ g \notin mixed' => \A r \in Row : \A v \in cache'[g][r] :
                     Intact(v) => v \in Canonical(g)[r]
    <2>1. CASE g = fp
      BY <1>2, <1>5, <1>6, <1>7, <2>1
    <2>2. CASE g # fp
      BY <1>5, <2>2 DEF CacheInv, Get
    <2> QED
      BY <2>1, <2>2
  <1> QED
    BY <1>5, <1>8 DEF CacheInv, Get

\* What a run computes, it may hold.
LEMMA HoldInv ==
    ASSUME EmbeddingInv, NEW w \in Worker, NEW j \in job[w], NEW S, NEW batch,
           Hold(w, S, j.under, batch), UNCHANGED <<stage, job, part>>, mixed \subseteq mixed',
           j.policy = "packed" \/ Frozen(S, j.under, batch)
    PROVE  OnlyOf(w) /\ (stage[w] # "idle" => HeldInv(w)')
  <1> DEFINE h == [r \in Row |-> IF r \in S THEN {Embed(j.under, batch, r)} ELSE held[w][r]]
  <1>1. held' = [held EXCEPT ![w] = h]
    BY DEF Hold
  <1>2. h = [r \in Row |-> h[r]] /\ \A r \in Row \ S : h[r] = held[w][r]
    OBVIOUS
  <1>3. \A r \in Row \cap S : h[r] = {Embed(j.under, batch, r)}
    OBVIOUS
  <1> HIDE DEF h
  <1>4. OnlyOf(w) /\ held'[w] = h
    BY <1>1 DEF EmbeddingInv, OnlyOf
  <1>5. HeldInv(w) /\ job[w] = {j} /\ j.under \in Job /\ part[w] \in 1..3
    BY DEF EmbeddingInv, HeldInv
  <1>6. \A r \in Row : \A v \in h[r] : v = [job |-> j.under, row |-> r, batch |-> v.batch]
    <2> SUFFICES ASSUME NEW r \in Row, NEW v \in h[r]
                 PROVE  v = [job |-> j.under, row |-> r, batch |-> v.batch]
      OBVIOUS
    <2>1. CASE r \in S
      BY <1>3, <2>1 DEF Embed
    <2>2. CASE r \notin S
      BY <1>2, <1>5, <2>2 DEF HeldInv
    <2> QED
      BY <2>1, <2>2
  <1>7. ASSUME j.policy # "packed", FingerprintOf(j.under) \notin mixed' \/ j.policy = "direct",
               NEW r \in Row
        PROVE  h[r] \subseteq Canonical(j.under)[r]
    <2>1. CASE r \in S
      BY <1>3, <1>7, <2>1 DEF Frozen
    <2>2. CASE r \notin S
      BY <1>2, <1>5, <1>7, <2>2 DEF HeldInv
    <2> QED
      BY <2>1, <2>2
  <1>8. ASSUME NEW p \in 1..3, p < part[w] \/ stage[w] = "embedded", NEW i \in DOMAIN Rows(p)
        PROVE  h[Rows(p)[i]] # {}
    <2>1. Rows(p)[i] \in Row
      BY RecoveryAssumption DEF Rows
    <2>2. Assembled(w)
      BY <1>5 DEF HeldInv
    <2>3. held[w][Rows(p)[i]] # {}
      BY <1>8, <2>2 DEF Assembled
    <2> QED
      BY <1>2, <1>3, <2>1, <2>3
  <1>9. Assembled(w)'
    BY <1>4, <1>8 DEF Assembled
  <1> QED
    BY <1>2, <1>4, <1>5, <1>6, <1>7, <1>9 DEF HeldInv

\* A run that ends holds nothing.
LEMMA ReleaseInv ==
    ASSUME EmbeddingInv, NEW w \in Worker, Release(w), mixed \subseteq mixed'
    PROVE  OnlyOf(w) /\ HeldInv(w)'
  <1> DEFINE n == [r \in Row |-> {}]
             s == {}
  <1>1. /\ stage' = [stage EXCEPT ![w] = "idle"] /\ job' = [job EXCEPT ![w] = s]
        /\ part' = [part EXCEPT ![w] = 1] /\ held' = [held EXCEPT ![w] = n]
    BY DEF Release, Nothing
  <1>2. n = [r \in Row |-> n[r]] /\ n = Nothing /\ \A j \in s : FALSE
    BY DEF Nothing
  <1> HIDE DEF n, s
  <1>3. /\ OnlyOf(w) /\ stage'[w] = "idle" /\ job'[w] = s /\ part'[w] = 1 /\ held'[w] = n
    BY <1>1 DEF EmbeddingInv, OnlyOf
  <1> QED
    BY <1>2, <1>3 DEF HeldInv

-----------------------------------------------------------------------------
(* The steps of an embedding.                                              *)

LEMMA StartInv ==
    ASSUME EmbeddingInv, NEW w \in Worker, NEW policy, NEW under \in Job,
           StartEmbedding(w, policy, under)
    PROVE  EmbeddingInv'
  <1> DEFINE j == [policy |-> policy, under |-> under]
             s == {j}
  <1>1. /\ stage' = [stage EXCEPT ![w] = "lookup"] /\ job' = [job EXCEPT ![w] = s]
        /\ part' = [part EXCEPT ![w] = 1] /\ held' = held /\ cache' = cache /\ mixed' = mixed
        /\ stage[w] = "idle"
    BY DEF StartEmbedding
  <1>2. s = {j} /\ j.under = under
    OBVIOUS
  <1> HIDE DEF j, s
  <1>3. /\ OnlyOf(w) /\ stage'[w] = "lookup" /\ job'[w] = s /\ part'[w] = 1
        /\ held'[w] = held[w]
    BY <1>1 DEF EmbeddingInv, OnlyOf
  <1>4. HeldInv(w)
    BY DEF EmbeddingInv
  <1>5. \A r \in Row : held[w][r] = {}
    BY <1>1, <1>4 DEF HeldInv, Nothing
  <1>6. Assembled(w)'
    BY <1>3 DEF Assembled
  <1>7. HeldInv(w)'
    BY <1>2, <1>3, <1>4, <1>5, <1>6 DEF HeldInv
  <1>8. CacheInv'
    BY <1>1, CacheStays DEF EmbeddingInv
  <1> QED
    BY <1>3, <1>7, <1>8, StepOf

LEMMA StartDirectInv ==
    ASSUME EmbeddingInv, NEW w \in Worker, StartDirect(w)
    PROVE  EmbeddingInv'
  <1>1. /\ stage' = [stage EXCEPT ![w] = "embed"] /\ stage[w] = "lookup"
        /\ UNCHANGED <<cache, job, part, held, mixed>>
    BY DEF StartDirect
  <1>2. OnlyOf(w) /\ held'[w] = held[w] /\ job'[w] = job[w] /\ part'[w] = part[w]
        /\ stage'[w] = "embed"
    BY <1>1 DEF EmbeddingInv, OnlyOf
  <1>3. HeldInv(w)
    BY DEF EmbeddingInv
  <1>4. HeldInv(w)'
    BY <1>1, <1>2, <1>3 DEF HeldInv, Assembled
  <1>5. CacheInv'
    BY <1>1, CacheStays DEF EmbeddingInv
  <1> QED
    BY <1>2, <1>4, <1>5, StepOf

LEMMA LookUpInv ==
    ASSUME EmbeddingInv, NEW w \in Worker, LookUp(w)
    PROVE  EmbeddingInv'
  <1>0. PICK j \in job[w], n \in DOMAIN Rows(part[w]) :
            /\ j.policy # "direct"
            /\ held' = [held EXCEPT ![w] = [r \in Row |->
                  IF r = Rows(part[w])[n] THEN Get(FingerprintOf(j.under), r) ELSE @[r]]]
    BY DEF LookUp
  <1> DEFINE row == Rows(part[w])[n]
             h == [r \in Row |->
                IF r = row THEN Get(FingerprintOf(j.under), r) ELSE held[w][r]]
  <1>1. /\ \/ UNCHANGED stage
           \/ stage' = [stage EXCEPT ![w] = "embed"]
        /\ held' = [held EXCEPT ![w] = h]
        /\ UNCHANGED <<cache, job, part, mixed>> /\ stage[w] = "lookup"
    BY <1>0 DEF LookUp
  <1>2. h = [r \in Row |-> h[r]]
        /\ \A r \in Row : h[r] = Get(j.under, r) \/ h[r] = held[w][r]
    BY DEF FingerprintOf
  <1>3. \A r \in Row : r # row => h[r] = held[w][r]
    OBVIOUS
  <1> HIDE DEF h
  <1>4. OnlyOf(w) /\ held'[w] = h /\ stage'[w] \in {"lookup", "embed"}
    BY <1>1 DEF EmbeddingInv, OnlyOf
  <1>5. /\ HeldInv(w) /\ job[w] = {j} /\ j.under \in Job /\ part[w] \in 1..3
        /\ j.under \in Fingerprint
    BY DEF EmbeddingInv, HeldInv, Fingerprint
  <1>6. \A r \in Row : \A v \in h[r] : v = [job |-> j.under, row |-> r, batch |-> v.batch]
    <2> SUFFICES ASSUME NEW r \in Row, NEW v \in h[r]
                 PROVE  v = [job |-> j.under, row |-> r, batch |-> v.batch]
      OBVIOUS
    <2>1. CASE v \in Get(j.under, r)
      BY <1>5, <2>1 DEF Get, EmbeddingInv, CacheInv
    <2>2. CASE v \in held[w][r]
      BY <1>5, <2>2 DEF HeldInv
    <2> QED
      BY <1>2, <2>1, <2>2
  <1>7. ASSUME j.policy # "packed", FingerprintOf(j.under) \notin mixed \/ j.policy = "direct",
               NEW r \in Row
        PROVE  h[r] \subseteq Canonical(j.under)[r]
    <2>1. CASE h[r] = held[w][r]
      BY <1>5, <1>7, <2>1 DEF HeldInv
    <2>2. CASE h[r] = Get(j.under, r)
      BY <1>0, <1>5, <1>7, <2>2 DEF EmbeddingInv, CacheInv, FingerprintOf
    <2> QED
      BY <1>2, <2>1, <2>2
  <1>8. ASSUME NEW p \in 1..3, p < part[w], NEW i \in DOMAIN Rows(p)
        PROVE  h[Rows(p)[i]] # {}
    <2>1. Assembled(w)
      BY <1>5 DEF HeldInv
    <2>2. held[w][Rows(p)[i]] # {}
      BY <1>8, <2>1 DEF Assembled
    <2>3. Rows(p)[i] \in Row
      BY RecoveryAssumption DEF Rows
    <2>4. p # part[w]
      BY <1>5, <1>8
    <2>5. Rows(p)[i] # row
      BY <1>5, <2>4, RecoveryAssumption DEF Rows
    <2> QED
      BY <1>3, <2>2, <2>3, <2>5
  <1>9. Assembled(w)'
    BY <1>1, <1>4, <1>8 DEF Assembled
  <1>10. HeldInv(w)'
    BY <1>1, <1>2, <1>4, <1>5, <1>6, <1>7, <1>9 DEF HeldInv
  <1>11. CacheInv'
    BY <1>1, CacheStays DEF EmbeddingInv
  <1> QED
    BY <1>4, <1>10, <1>11, StepOf

LEMMA DirectInv ==
    ASSUME EmbeddingInv, NEW w \in Worker, EmbedDirect(w)
    PROVE  EmbeddingInv'
  <1>1. PICK j \in job[w] : Hold(w, ToSet(NextFrozen(w)), j.under, NextFrozen(w))
    BY DEF EmbedDirect
  <1>2. /\ UNCHANGED <<cache, stage, job, part, mixed>> /\ stage[w] = "embed" /\ ~ Complete(w)
    BY DEF EmbedDirect
  <1>3. PICK S, batch : S = ToSet(NextFrozen(w)) /\ batch = NextFrozen(w)
    OBVIOUS
  <1>4. Hold(w, S, j.under, batch) /\ Frozen(S, j.under, batch)
    BY <1>1, <1>2, <1>3, NextFreezes DEF EmbeddingInv
  <1>5. OnlyOf(w) /\ HeldInv(w)'
    BY <1>2, <1>4, HoldInv
  <1>6. CacheInv'
    BY <1>2, CacheStays DEF EmbeddingInv
  <1> QED
    BY <1>5, <1>6, StepOf

\* Only these put what is of no frozen batch, and they leave a mark.
LEMMA PackedInv ==
    ASSUME EmbeddingInv, NEW w \in Worker, EmbedPacked(w)
    PROVE  EmbeddingInv'
  <1>1. PICK j \in job[w] :
            /\ j.policy = "packed"
            /\ Put(FingerprintOf(j.under), ToSet(BatchFrom(Missing(w), 1)), j.under,
                   BatchFrom(Missing(w), 1))
            /\ Hold(w, ToSet(BatchFrom(Missing(w), 1)), j.under, BatchFrom(Missing(w), 1))
            /\ mixed' = mixed \cup {FingerprintOf(j.under)}
    BY DEF EmbedPacked
  <1>2. PICK S, batch : S = ToSet(BatchFrom(Missing(w), 1)) /\ batch = BatchFrom(Missing(w), 1)
    OBVIOUS
  <1>3. UNCHANGED <<stage, job, part>> /\ stage[w] = "embed"
    BY DEF EmbedPacked
  <1>4. Put(j.under, S, j.under, batch) /\ Hold(w, S, j.under, batch) /\ j.under \in mixed'
    BY <1>1, <1>2 DEF FingerprintOf
  <1>5. OnlyOf(w) /\ HeldInv(w)'
    BY <1>1, <1>3, <1>4, HoldInv
  <1>6. j.under \in Fingerprint /\ mixed \subseteq mixed'
    BY <1>1 DEF EmbeddingInv, HeldInv, Fingerprint
  <1>7. CacheInv'
    BY <1>4, <1>6, PutInv DEF EmbeddingInv
  <1> QED
    BY <1>5, <1>7, StepOf

LEMMA CanonicalInv ==
    ASSUME EmbeddingInv, NEW w \in Worker, EmbedCanonical(w)
    PROVE  EmbeddingInv'
  <1>0. stage[w] = "embed" /\ ~ Complete(w) /\ mixed' = mixed
    BY DEF EmbedCanonical
  <1>1. PICK j \in job[w] : \E batch : batch = NextFrozen(w) /\ \E S, T \in SUBSET DOMAIN batch :
            /\ Put(FingerprintOf(j.under), {batch[i] : i \in S}, j.under, batch)
            /\ \/ /\ Hold(w, {batch[i] : i \in T}, j.under, batch)
                  /\ UNCHANGED <<stage, job, part>>
               \/ Release(w)
    <2>1. PICK j \in job[w] :
            LET batch == NextFrozen(w)
                fp == FingerprintOf(j.under)
                missing == {i \in DOMAIN batch : held[w][batch[i]] = {}}
                bad == Disagreeing(w, j.under, batch)
            IN  IF bad = {}
                THEN /\ Put(fp, {batch[i] : i \in missing}, j.under, batch)
                     /\ Hold(w, {batch[i] : i \in missing}, j.under, batch)
                     /\ UNCHANGED <<stage, job, part>>
                ELSE /\ Put(fp, {batch[i] : i \in {k \in missing : k < Min(bad)}},
                            j.under, batch)
                     /\ Release(w)
      BY DEF EmbedCanonical
    <2> DEFINE batch == NextFrozen(w)
               missing == {i \in DOMAIN batch : held[w][batch[i]] = {}}
               early == {k \in missing : k < Min(Disagreeing(w, j.under, batch))}
    <2>2. missing \in SUBSET DOMAIN batch /\ early \in SUBSET DOMAIN batch
      OBVIOUS
    <2>3. \/ /\ Put(FingerprintOf(j.under), {batch[i] : i \in missing}, j.under, batch)
             /\ Hold(w, {batch[i] : i \in missing}, j.under, batch)
             /\ UNCHANGED <<stage, job, part>>
          \/ /\ Put(FingerprintOf(j.under), {batch[i] : i \in early}, j.under, batch)
             /\ Release(w)
      BY <2>1
    <2> HIDE DEF batch, missing, early
    <2> QED
      BY <2>2, <2>3 DEF batch
  <1>2. PICK batch, S, T : /\ batch = NextFrozen(w)
                           /\ S \in SUBSET DOMAIN batch /\ T \in SUBSET DOMAIN batch
                           /\ Put(FingerprintOf(j.under), {batch[i] : i \in S}, j.under, batch)
                           /\ \/ /\ Hold(w, {batch[i] : i \in T}, j.under, batch)
                                 /\ UNCHANGED <<stage, job, part>>
                              \/ Release(w)
    BY <1>1
  <1>3. PICK X, Y : X = {batch[i] : i \in S} /\ Y = {batch[i] : i \in T}
    OBVIOUS
  <1>4. X \in SUBSET ToSet(batch) /\ Y \in SUBSET ToSet(batch)
    BY <1>2, <1>3 DEF ToSet
  <1>5. Frozen(X, j.under, batch) /\ Frozen(Y, j.under, batch)
    BY <1>0, <1>2, <1>4, NextFreezes DEF EmbeddingInv
  <1>6. j.under \in Fingerprint
    BY DEF EmbeddingInv, HeldInv, Fingerprint
  <1>7. Put(j.under, X, j.under, batch)
    BY <1>2, <1>3 DEF FingerprintOf
  <1>8. CacheInv'
    BY <1>0, <1>5, <1>6, <1>7, PutInv DEF EmbeddingInv
  <1>9. CASE Hold(w, Y, j.under, batch) /\ UNCHANGED <<stage, job, part>>
    <2>1. OnlyOf(w) /\ HeldInv(w)'
      BY <1>0, <1>5, <1>9, HoldInv
    <2> QED
      BY <1>8, <2>1, StepOf
  <1>10. CASE Release(w)
    BY <1>0, <1>8, <1>10, ReleaseInv, StepOf
  <1> QED
    BY <1>2, <1>3, <1>9, <1>10

\* A part of a batch is put as the batch would be.
LEMMA PutPartInv ==
    ASSUME EmbeddingInv, NEW w \in Worker, PutPart(w), Release(w)
    PROVE  EmbeddingInv'
  <1>1. PICK j \in job[w] : \E batch : \E S \in SUBSET DOMAIN batch :
            /\ \/ mixed' = mixed \cup {FingerprintOf(j.under)}
               \/ mixed' = mixed /\ batch = NextFrozen(w)
            /\ Put(FingerprintOf(j.under), {batch[i] : i \in S}, j.under, batch)
    <2>1. PICK j \in job[w] :
            LET packed == j.policy = "packed"
                batch == IF packed THEN BatchFrom(Missing(w), 1) ELSE NextFrozen(w)
                missing == {i \in DOMAIN batch : held[w][batch[i]] = {}}
            IN  /\ \E last \in missing :
                      Put(FingerprintOf(j.under),
                          {batch[i] : i \in {k \in missing : k <= last}}, j.under, batch)
                /\ mixed' = mixed \cup (IF packed THEN {FingerprintOf(j.under)} ELSE {})
      BY DEF PutPart
    <2> DEFINE b == IF j.policy = "packed" THEN BatchFrom(Missing(w), 1) ELSE NextFrozen(w)
               M == {i \in DOMAIN b : held[w][b[i]] = {}}
    <2>2. PICK last \in M :
              Put(FingerprintOf(j.under), {b[i] : i \in {k \in M : k <= last}}, j.under, b)
      BY <2>1
    <2> DEFINE S == {k \in M : k <= last}
    <2>3. S \in SUBSET DOMAIN b
      OBVIOUS
    <2>4. Put(FingerprintOf(j.under), {b[i] : i \in S}, j.under, b)
      BY <2>2
    <2>5. \/ mixed' = mixed \cup {FingerprintOf(j.under)}
          \/ mixed' = mixed /\ b = NextFrozen(w)
      BY <2>1
    <2> HIDE DEF b, M, S
    <2> QED
      BY <2>3, <2>4, <2>5
  <1>2. PICK batch : \E S \in SUBSET DOMAIN batch :
            /\ \/ mixed' = mixed \cup {FingerprintOf(j.under)}
               \/ mixed' = mixed /\ batch = NextFrozen(w)
            /\ Put(FingerprintOf(j.under), {batch[i] : i \in S}, j.under, batch)
    BY <1>1
  <1>3. PICK S \in SUBSET DOMAIN batch :
            /\ \/ mixed' = mixed \cup {FingerprintOf(j.under)}
               \/ mixed' = mixed /\ batch = NextFrozen(w)
            /\ Put(FingerprintOf(j.under), {batch[i] : i \in S}, j.under, batch)
    BY <1>2
  <1>4. PICK X : X = {batch[i] : i \in S}
    OBVIOUS
  <1>5. X \in SUBSET ToSet(batch)
    BY <1>3, <1>4 DEF ToSet
  <1>6. j.under \in Fingerprint /\ mixed \subseteq mixed' /\ HeldInv(w) /\ ~ Complete(w)
    BY <1>3 DEF EmbeddingInv, HeldInv, Fingerprint, PutPart
  <1>7. j.under \in mixed' \/ Frozen(X, j.under, batch)
    BY <1>3, <1>5, <1>6, NextFreezes DEF FingerprintOf
  <1>8. Put(j.under, X, j.under, batch)
    BY <1>3, <1>4 DEF FingerprintOf
  <1>9. CacheInv'
    BY <1>6, <1>7, <1>8, PutInv DEF EmbeddingInv
  <1> QED
    BY <1>6, <1>9, ReleaseInv, StepOf

LEMMA FinishInv ==
    ASSUME EmbeddingInv, NEW w \in Worker, FinishPartition(w)
    PROVE  EmbeddingInv'
  <1>1. /\ stage[w] = "embed" /\ Complete(w) /\ UNCHANGED <<cache, job, held, mixed>>
        /\ \/ /\ part[w] < 3 /\ part' = [part EXCEPT ![w] = part[w] + 1]
              /\ stage' = [stage EXCEPT ![w] = "lookup"]
           \/ /\ ~ (part[w] < 3) /\ part' = part
              /\ stage' = [stage EXCEPT ![w] = "embedded"]
    BY DEF FinishPartition
  <1>2. HeldInv(w) /\ part[w] \in 1..3
    BY DEF EmbeddingInv, HeldInv
  <1>3. /\ OnlyOf(w) /\ held'[w] = held[w] /\ job'[w] = job[w] /\ stage'[w] # "idle"
        /\ part'[w] \in 1..3
        /\ \A p \in 1..3 : p < part'[w] \/ stage'[w] = "embedded" => p < part[w] \/ p = part[w]
    <2>1. CASE part[w] < 3
      <3>1. /\ OnlyOf(w) /\ held'[w] = held[w] /\ job'[w] = job[w] /\ stage'[w] = "lookup"
            /\ part'[w] = part[w] + 1
        BY <1>1, <2>1 DEF EmbeddingInv, OnlyOf
      <3> QED
        BY <1>2, <2>1, <3>1
    <2>2. CASE ~ (part[w] < 3)
      <3>1. /\ OnlyOf(w) /\ held'[w] = held[w] /\ job'[w] = job[w] /\ stage'[w] = "embedded"
            /\ part'[w] = part[w]
        BY <1>1, <2>2 DEF EmbeddingInv, OnlyOf
      <3> QED
        BY <1>2, <2>2, <3>1
    <2> QED
      BY <2>1, <2>2
  <1>4. ASSUME NEW j \in job[w], NEW p \in 1..3, p < part'[w] \/ stage'[w] = "embedded",
               NEW i \in DOMAIN Rows(p)
        PROVE  held[w][Rows(p)[i]] # {}
    <2>1. CASE p = part[w]
      BY <1>1, <1>4, <2>1 DEF Complete
    <2>2. CASE p < part[w]
      <3>1. Assembled(w)
        BY <1>2, <1>4 DEF HeldInv
      <3> QED
        BY <1>4, <2>2, <3>1 DEF Assembled
    <2> QED
      BY <1>3, <1>4, <2>1, <2>2
  <1>5. \A j \in job[w] : Assembled(w)'
    BY <1>3, <1>4 DEF Assembled
  <1>6. HeldInv(w)'
    BY <1>1, <1>2, <1>3, <1>5 DEF HeldInv
  <1>7. CacheInv'
    BY <1>1, CacheStays DEF EmbeddingInv
  <1> QED
    BY <1>3, <1>6, <1>7, StepOf

\* A damaged vector is not intact.
LEMMA DamageInv ==
    ASSUME EmbeddingInv, NEW fp \in Fingerprint, NEW r \in Row, DamageCache(fp, r)
    PROVE  EmbeddingInv'
  <1>1. PICK v \in Get(fp, r) : cache' = [cache EXCEPT ![fp][r] = {Damaged(v)}]
    BY DEF DamageCache
  <1>2. UNCHANGED <<stage, job, part, held, mixed>>
    BY DEF DamageCache
  <1>3. v = [job |-> fp, row |-> r, batch |-> v.batch]
    BY <1>1 DEF Get, EmbeddingInv, CacheInv
  <1>4. Damaged(v) = [job |-> fp, row |-> r, batch |-> <<>>]
    BY <1>3 DEF Damaged
  <1> DEFINE d == Damaged(v)
             row == [cache[fp] EXCEPT ![r] = {d}]
  <1>5. d = [job |-> fp, row |-> r, batch |-> d.batch] /\ ~ Intact(d)
    BY <1>4 DEF Intact
  <1>6. cache' = [cache EXCEPT ![fp] = row]
    BY <1>1
  <1> HIDE DEF d
  <1>7. /\ DOMAIN row = Row /\ row[r] = {d} /\ \A s \in Row \ {r} : row[s] = cache[fp][s]
    BY DEF EmbeddingInv, CacheInv
  <1> HIDE DEF row
  <1>8. DOMAIN cache' = Fingerprint /\ cache'[fp] = row
        /\ \A g \in Fingerprint \ {fp} : cache'[g] = cache[g]
    BY <1>6 DEF EmbeddingInv, CacheInv
  <1>9. ASSUME NEW g \in Fingerprint
        PROVE  /\ DOMAIN cache'[g] = Row
               /\ \A s \in Row : \A u \in cache'[g][s] :
                     u = [job |-> g, row |-> s, batch |-> u.batch]
               /\ g \notin mixed => \A s \in Row : \A u \in cache'[g][s] :
                     Intact(u) => u \in Canonical(g)[s]
    <2>1. CASE g # fp
      BY <1>8, <2>1 DEF EmbeddingInv, CacheInv, Get
    <2>2. ASSUME NEW s \in Row, NEW u \in row[s]
          PROVE  /\ u = [job |-> fp, row |-> s, batch |-> u.batch]
                 /\ fp \notin mixed /\ Intact(u) => u \in Canonical(fp)[s]
      <3>1. CASE s = r
        BY <1>5, <1>7, <2>2, <3>1
      <3>2. CASE s # r
        BY <1>7, <2>2, <3>2 DEF EmbeddingInv, CacheInv, Get
      <3> QED
        BY <3>1, <3>2
    <2> QED
      BY <1>7, <1>8, <2>1, <2>2
  <1>10. CacheInv'
    BY <1>2, <1>8, <1>9 DEF CacheInv, Get
  <1> QED
    BY <1>2, <1>10 DEF EmbeddingInv, HeldInv, Assembled, FingerprintOf

\* Everything else leaves the embedding alone.
LEMMA EmbeddingStays == ASSUME EmbeddingInv, UNCHANGED <<cache, stage, job, part, held, mixed>>
                        PROVE  EmbeddingInv'
  BY CacheStays DEF EmbeddingInv, HeldInv, Assembled, FingerprintOf

LEMMA EmbeddingStepInv == ASSUME EmbeddingInv, [IterationNext]_iterationVars
                          PROVE  EmbeddingInv'
  <1>1. ASSUME NEW w \in Worker, NEW o \in Output, NEW e \in Entrypoint, NEW under \in Job,
               BeginIteration(w, o, e, under)
        PROVE  EmbeddingInv'
    BY <1>1, StartInv DEF BeginIteration
  <1>2. ASSUME NEW w \in Worker, Release(w), UNCHANGED <<cache, mixed>> PROVE EmbeddingInv'
    BY <1>2, ReleaseInv, CacheStays, StepOf DEF EmbeddingInv
  <1>3. ASSUME NEW w \in Worker, WorkerStep(w) PROVE EmbeddingInv'
    <2>1. CASE Embedding(w)
      BY <2>1, StartDirectInv, LookUpInv, DirectInv, PackedInv, CanonicalInv, FinishInv
         DEF Embedding, EmbeddingStep
    <2>2. CASE EvaluateQueries(w)
      <3>1. \/ UNCHANGED <<cache, stage, job, part, held, mixed>>
            \/ Release(w) /\ UNCHANGED <<cache, mixed>>
        BY <2>2 DEF EvaluateQueries, EndRun
      <3> QED
        BY <1>2, <3>1, EmbeddingStays
    <2>3. CASE PublishResult(w)
      BY <1>2, <2>3 DEF PublishResult, EndRun
    <2> QED
      BY <1>3, <2>1, <2>2, <2>3 DEF WorkerStep
  <1>4. ASSUME NEW w \in Worker, IterationFails(w) PROVE EmbeddingInv'
    BY <1>2, <1>4, PutPartInv DEF IterationFails, EmbeddingFails
  <1>5. ASSUME NEW fp \in Fingerprint, NEW r \in Row, DamageCache(fp, r) PROVE EmbeddingInv'
    BY <1>5, DamageInv
  <1>6. CASE UNCHANGED recoveryVars
    BY <1>6, EmbeddingStays DEF recoveryVars
  <1> QED
    BY <1>1, <1>3, <1>4, <1>5, <1>6 DEF IterationNext, iterationVars

LEMMA InitEmbedding == IterationInit => EmbeddingInv
  <1> SUFFICES ASSUME IterationInit PROVE EmbeddingInv
    OBVIOUS
  <1>1. CacheInv
    BY DEF IterationInit, RecoveryInit, CacheInv, Nothing, Get
  <1>2. ASSUME NEW w \in Worker PROVE HeldInv(w)
    <2>1. stage[w] = "idle" /\ job[w] = {} /\ part[w] = 1 /\ held[w] = Nothing
      BY DEF IterationInit, RecoveryInit
    <2> QED
      BY <2>1 DEF HeldInv, Nothing
  <1> QED
    BY <1>1, <1>2 DEF IterationInit, RecoveryInit, EmbeddingInv

\* What the cache keeps and the runs hold, at all times.
THEOREM EmbeddingInvariance == IterationSpec => []EmbeddingInv
  BY InitEmbedding, EmbeddingStepInv, PTL DEF IterationSpec

\* A row is in some partition.
LEMMA RowIsListed == ASSUME NEW r \in Row PROVE \E p \in 1..3 : \E i \in DOMAIN Rows(p) : Rows(p)[i] = r
  BY RecoveryAssumption DEF Row, ToSet, Rows

\* Whatever the cache went through, a finished matrix has vectors that were computed
\* for its rows, identity and device.  (OptionC0EmbeddingCache.get,
\* embed_partition_with_cache)
THEOREM OwnIdentity == IterationSpec => []RowsKeepTheirIdentity
  <1>1. EmbeddingInv => RowsKeepTheirIdentity
    <2> SUFFICES ASSUME EmbeddingInv, NEW w \in Worker, NEW j \in job[w],
                        stage[w] = "embedded", NEW r \in Row
                 PROVE  \E v \in held[w][r] : v.job = j.under /\ v.row = r
      BY DEF RowsKeepTheirIdentity
    <2>1. Assembled(w)
          /\ \A v \in held[w][r] : v = [job |-> j.under, row |-> r, batch |-> v.batch]
      BY DEF EmbeddingInv, HeldInv
    <2>2. held[w][r] # {}
      BY <2>1, RowIsListed DEF Assembled
    <2> QED
      BY <2>1, <2>2
  <1> QED
    BY <1>1, EmbeddingInvariance, PTL

\* A run that keeps the frozen batches ends with the matrix of an uninterrupted run,
\* whatever died or was damaged, if embed_partition_with_cache never put to the same
\* fingerprint.  (embed_partition_in_canonical_batches, fixed_batch_embed)
THEOREM FrozenBatchesKept == IterationSpec => []FrozenBatchesSurvive
  <1>1. EmbeddingInv => FrozenBatchesSurvive
    <2> SUFFICES ASSUME EmbeddingInv, NEW w \in Worker, NEW j \in job[w],
                        stage[w] = "embedded", j.policy # "packed",
                        FingerprintOf(j.under) \notin mixed \/ j.policy = "direct"
                 PROVE  held[w] = Canonical(j.under)
      BY DEF FrozenBatchesSurvive
    <2>1. /\ Assembled(w) /\ held[w] = [r \in Row |-> held[w][r]]
          /\ \A r \in Row : held[w][r] \subseteq Canonical(j.under)[r]
      BY DEF EmbeddingInv, HeldInv
    <2>2. ASSUME NEW r \in Row PROVE held[w][r] = Canonical(j.under)[r]
      <3>1. PICK p \in 1..3 : \E i \in DOMAIN Rows(p) : Rows(p)[i] = r
        BY RowIsListed
      <3>2. PICK i \in DOMAIN Rows(p) : Rows(p)[i] = r
        BY <3>1
      <3>3. PICK k \in DOMAIN FrozenBatches(p) : r \in ToSet(FrozenBatches(p)[k])
        BY <3>2, BatchCovers
      <3>4. Canonical(j.under)[r] = {Embed(j.under, FrozenBatches(p)[k], r)}
        BY <3>3, CanonicalOf
      <3>5. held[w][r] # {}
        BY <2>1, <3>2 DEF Assembled
      <3> QED
        BY <2>1, <3>4, <3>5
    <2>3. Canonical(j.under) = [r \in Row |-> Canonical(j.under)[r]]
      BY DEF Canonical
    <2> QED
      BY <2>1, <2>2, <2>3
  <1> QED
    BY <1>1, EmbeddingInvariance, PTL

=============================================================================
