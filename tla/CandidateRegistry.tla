-------------------------- MODULE CandidateRegistry --------------------------
(***************************************************************************)
(* The candidate registry and the discovery ledger of Option C0            *)
(* (experiments/option_c0_data_firewall.py): two hash-chained files.       *)
(*                                                                         *)
(* A client checks an operation against the entries it reads, reads the    *)
(* chain again, and replaces the whole file by that chain and one entry.   *)
(* Nothing locks the file.  An entry commits to all entries before it, so  *)
(* a file that is read without an error is the sequence of its payloads.   *)
(***************************************************************************)
EXTENDS Integers, Sequences, FiniteSets, SequencesExt

CONSTANTS
    Client,      \* processes that append
    Candidate,   \* candidate versions, id@version
    Discovery,   \* discovery ids
    Predecessor, \* the version a version names as its predecessor, none or one
    MaxEntries   \* bound on the entries of a file

ASSUME RegistryAssumption ==
    /\ Candidate \cap Discovery = {}
    /\ Predecessor \in [Candidate -> SUBSET Candidate]
    /\ \A k \in Candidate : Cardinality(Predecessor[k]) <= 1 /\ k \notin Predecessor[k]
    /\ MaxEntries \in Nat

CandidateStatuses == {"active", "superseded", "rejected", "selected_for_c0_selection"}

File == {"registry", "ledger"}
Entry ==
    [event : {"REGISTERED"}, about : Candidate, status : {"active"}] \cup
    [event : {"EVALUATED"}, about : Candidate, status : {"none"}] \cup
    [event : {"STATUS_CHANGED"}, about : Candidate, status : CandidateStatuses] \cup
    [event : {"DISCOVERED"}, about : Discovery, status : {"none"}]

VARIABLES
    chain,     \* the payloads of each file
    order,     \* per client: the append that passed its checks, none or one
    base,      \* per client: the chain _append_chain has read, none or one
    overlapped \* history: the files that were replaced by a client that had
               \* checked or read an older content

registryVars == <<chain, order, base, overlapped>>

registry == chain["registry"]

Of(entries, event, k) ==
    {i \in DOMAIN entries : entries[i].event = event /\ entries[i].about = k}

Registered(entries, k) == Of(entries, "REGISTERED", k) # {}
Evaluated(entries, k) == Of(entries, "EVALUATED", k) # {}

Order == [file : File, entry : Entry, checked : Seq(Entry)]

RegistryTypeOK ==
    /\ chain \in [File -> Seq(Entry)]
    /\ \A c \in Client :
          /\ order[c] \subseteq Order /\ Cardinality(order[c]) <= 1
          /\ base[c] \subseteq Seq(Entry) /\ Cardinality(base[c]) <= 1
          /\ base[c] # {} => order[c] # {}
    /\ overlapped \subseteq File

RegistryInit ==
    /\ chain = [f \in File |-> <<>>]
    /\ order = [c \in Client |-> {}]
    /\ base = [c \in Client |-> {}]
    /\ overlapped = {}

-----------------------------------------------------------------------------

\* An operation has passed its checks on the entries it read; an operation that
\* does not pass them raises and changes nothing.
Request(c, file, entry) ==
    /\ order[c] = {} /\ Len(chain[file]) < MaxEntries
    /\ order' = [order EXCEPT ![c] =
          {[file |-> file, entry |-> entry, checked |-> chain[file]]}]
    /\ UNCHANGED <<chain, base, overlapped>>

\* register_candidate: a new version, its predecessor registered.
RegisterCandidate(c, k) ==
    /\ ~ Registered(registry, k)
    /\ \A p \in Predecessor[k] : Registered(registry, p)
    /\ Request(c, "registry", [event |-> "REGISTERED", about |-> k, status |-> "active"])

\* record_candidate_evaluation: at most once.
RecordEvaluation(c, k) ==
    /\ Registered(registry, k) /\ ~ Evaluated(registry, k)
    /\ Request(c, "registry", [event |-> "EVALUATED", about |-> k, status |-> "none"])

\* Mutant: a version can be selected before it is evaluated.
ChangeAnyStatus(c, k, status) ==
    /\ Registered(registry, k)
    /\ Request(c, "registry", [event |-> "STATUS_CHANGED", about |-> k, status |-> status])

\* change_candidate_status
ChangeStatus(c, k, status) ==
    /\ Registered(registry, k)
    /\ status = "selected_for_c0_selection" => Evaluated(registry, k)
    /\ Request(c, "registry", [event |-> "STATUS_CHANGED", about |-> k, status |-> status])

\* append_discovery: a new discovery id.
AppendDiscovery(c, d) ==
    /\ Of(chain["ledger"], "DISCOVERED", d) = {}
    /\ Request(c, "ledger", [event |-> "DISCOVERED", about |-> d, status |-> "none"])

\* _append_chain reads the chain again.
ReadChain(c) ==
    /\ order[c] # {} /\ base[c] = {}
    /\ \E o \in order[c] : base' = [base EXCEPT ![c] = {chain[o.file]}]
    /\ UNCHANGED <<chain, order, overlapped>>

\* Mutant: the new entry takes the place of the last one.
WriteChainOver(c) ==
    /\ base[c] # {}
    /\ \E o \in order[c], entries \in base[c] :
          /\ chain' = [chain EXCEPT ![o.file] =
                IF Len(entries) < 2 THEN Append(entries, o.entry)
                ELSE Append(Front(entries), o.entry)]
          /\ overlapped' = overlapped \cup
                {f \in {o.file} : chain[f] # entries \/ chain[f] # o.checked}
    /\ order' = [order EXCEPT ![c] = {}] /\ base' = [base EXCEPT ![c] = {}]

\* _write_durable: the file is replaced.
WriteChain(c) ==
    /\ base[c] # {}
    /\ \E o \in order[c], entries \in base[c] :
          /\ chain' = [chain EXCEPT ![o.file] = Append(entries, o.entry)]
          /\ overlapped' = overlapped \cup
                {f \in {o.file} : chain[f] # entries \/ chain[f] # o.checked}
    /\ order' = [order EXCEPT ![c] = {}] /\ base' = [base EXCEPT ![c] = {}]

\* The client dies, or its write fails: the file stays as it was.
ClientStops(c) ==
    /\ order[c] # {}
    /\ order' = [order EXCEPT ![c] = {}] /\ base' = [base EXCEPT ![c] = {}]
    /\ UNCHANGED <<chain, overlapped>>

RegistryNext ==
    \E c \in Client :
        \/ \E k \in Candidate :
              \/ RegisterCandidate(c, k)
              \/ RecordEvaluation(c, k)
              \/ \E status \in CandidateStatuses : ChangeStatus(c, k, status)
        \/ \E d \in Discovery : AppendDiscovery(c, d)
        \/ ReadChain(c) \/ WriteChain(c) \/ ClientStops(c)

-----------------------------------------------------------------------------

\* Is an entry right after these: a version is registered once and first, after its
\* predecessor, evaluated at most once, and selected only after that.
Admitted(entry, before) ==
    /\ entry.event = "REGISTERED" =>
          /\ ~ Registered(before, entry.about)
          /\ \A p \in Predecessor[entry.about] : Registered(before, p)
    /\ entry.event = "EVALUATED" =>
          Registered(before, entry.about) /\ ~ Evaluated(before, entry.about)
    /\ entry.event = "STATUS_CHANGED" =>
          /\ Registered(before, entry.about)
          /\ entry.status = "selected_for_c0_selection" => Evaluated(before, entry.about)
    /\ entry.event # "DISCOVERED"

\* Unless two appends overlapped, the registry tells one story of each version:
\* every entry is right after those before it.  (register_candidate,
\* record_candidate_evaluation, change_candidate_status)
RegistryTellsOneStory ==
    "registry" \notin overlapped =>
        \A i \in DOMAIN registry : Admitted(registry[i], SubSeq(registry, 1, i - 1))

=============================================================================
