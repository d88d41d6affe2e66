----------------------------- MODULE MCDiscovery -----------------------------
(* A small instance of DiscoveryIteration for TLC. *)
EXTENDS DiscoveryIteration

CONSTANTS r1, r2, r3, r4, r5, k1, k2, d1, c1, c2, w1, w2

MCPartitions == <<<<r1, r2, r3>>, <<r4>>, <<r5>>>>
MCPredecessor == [k \in Candidate |-> IF k = k2 THEN {k1} ELSE {}]

Cpu == [complete |-> TRUE, predecessor |-> "source", variant |-> "canonical-cpu",
        canonicalDevice |-> "cpu", frozen |-> 0, invariant |-> {1, 2}]
Gpu == [complete |-> TRUE, predecessor |-> "source",
        variant |-> "gpu-fixed-batch10-amendment-v1",
        canonicalDevice |-> "cuda", frozen |-> 2, invariant |-> {2}]
MCIdentities == {Cpu, Gpu}

Symmetry == Permutations(Worker) \cup Permutations(Client)

Policies == UNION {{j.policy : j \in job[w]} : w \in Worker}
Started == \E w \in Worker : stage[w] \notin {"idle", "embedded"} /\ held[w] # Nothing
Untouched == \A fp \in Fingerprint : cache[fp] = Nothing

\* The registry and the embedding share no state, so two kinds of behaviours tell
\* all: clients append around runs that need no cache, or runs that share the cache
\* find the plan registered and nothing else.  What a client does while a run
\* embeds it can as well do before the first batch.  Once two appends to a file
\* overlapped nothing is claimed of it any more.
Appending ==
    /\ Untouched /\ Policies \subseteq {"direct"} /\ faults = 0 /\ overlapped = {}
    /\ \A w \in Worker : \A j \in job[w] : j.under.device = "cpu"
    /\ Started => \A c \in Client : order[c] = {}
    /\ \A i \in DOMAIN registry :
          registry[i].event = "STATUS_CHANGED" =>
              registry[i].status \in {"rejected", "selected_for_c0_selection"}
Recovering ==
    /\ registry = <<[event |-> "REGISTERED", about |-> k1, status |-> "active"],
                   [event |-> "REGISTERED", about |-> k2, status |-> "active"]>>
    /\ chain["ledger"] = <<>> /\ \A c \in Client : order[c] = {}
    /\ "direct" \notin Policies
    /\ faults > 0 => \E fp \in Fingerprint : \A g \in Fingerprint \ {fp} : cache[g] = Nothing
MCFocus == Appending \/ Recovering
=============================================================================
