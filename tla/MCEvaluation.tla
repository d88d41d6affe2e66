----------------------------- MODULE MCEvaluation -----------------------------
(* A small instance of MethodEvaluation for TLC. *)
EXTENDS MethodEvaluation, TLC

CONSTANTS w1, w2, o1, o2, l1, l2, l3

\* l1 and l2 have one scaling and order the pairs differently.
MCScale == [l \in Labels |-> IF l = l3 THEN "wide" ELSE "narrow"]
MCOracle == [l \in Labels |-> IF l = l2 THEN "other" ELSE "first"]

MCSelected == {[order |-> o1, labels |-> l1], [order |-> o1, labels |-> l2],
               [order |-> o2, labels |-> l1], [order |-> o1, labels |-> l3]}

MCMaxRuns == [p \in Program |-> IF p \in {"fit", "evaluate"} THEN 2 ELSE 1]

MCSymmetry == Permutations(Worker)

Alone(x) == \A w \in Worker : job[w] \subseteq {x}

\* Probes are fitted and pairs generated with nothing else under way, the first
\* selection is one of the four, and a death stands in for one of the edits.
MCFocus ==
    /\ \A w \in Worker : \A x \in job[w] : x.program \in {"fit", "generate"} => Alone(x)
    /\ edits = 0 => report = [order |-> o1, labels |-> l1]
    /\ edits + deaths <= MaxEdits
=============================================================================
