----------------------------- MODULE MCExtraction ----------------------------
(* A small instance of EmbeddingExtraction for TLC. *)
EXTENDS EmbeddingExtraction, TLC

CONSTANTS r1, r2, r3, w1, w2, o1, o2, b1, b2, g1, g2

MCSplits == <<<<r1, r2>>, <<r3>>>>
Large == [device |-> "cuda", batchSize |-> 2]
Small == [device |-> "cpu", batchSize |-> 1]
Cpu == [device |-> "cpu", batchSize |-> 2]
MCSetup == {Large, Small, Cpu}
MCMachine ==
    (w1 :> {<<Large, g1>>, <<Small, g1>>, <<Cpu, g1>>}) @@ (w2 :> {<<Large, g2>>, <<Cpu, g2>>})

MCSymmetry == Permutations(Dir) \cup Permutations(Db)

Used(setup) ==
    \/ \E w \in Worker : \E x \in run[w] : x.setup = setup
    \/ \E d \in Dir, c \in Chunk : c[1] = setup /\ matrix[d][c] # {}
UsedDirs ==
    {x.dir : x \in UNION {run[w] : w \in Worker}}
        \cup {d \in Dir : \E c \in Chunk : matrix[d][c] # {}}

OneDir == Cardinality(UsedDirs) <= 1
OneDb == \E d \in Db : \A e \in Db \ {d} :
    \A u \in Setup, r \in Row : stored[e][u][r] = {}
Only(setups) == \A u \in Setup \ setups : ~ Used(u)
Caching == \A w \in Worker : \A x \in run[w] : x.mode # "off"
OneAtATime == run[w1] = {} \/ run[w2] = {}
FirstIsW1 == \A x \in run[w2] : x.id # 1
BothReported == \A d \in Dir : report[d] # {}

\* Three runs of w1 in one directory and one database with two faults between them;
\* two runs of w1 of two setups with a fault; three runs without a fault, verified
\* when both directories have a report; or two runs at a time in one directory.
MCFocus == FirstIsW1 /\
    \/ run[w2] = {} /\ Only({Large}) /\ OneDir /\ OneDb /\ review = {}
    \/ run[w2] = {} /\ Only({Large, Small}) /\ runs <= 2 /\ faults <= 1 /\ review = {}
    \/ OneAtATime /\ Only({Large}) /\ faults = 0 /\ (runs = 3 \/ review # {} => BothReported)
    \/ OneAtATime /\ Only({Large, Small}) /\ runs <= 2 /\ faults = 0 /\ (review # {} => BothReported)
    \/ Only({Cpu}) /\ OneDir /\ OneDb /\ Caching /\ runs <= 2 /\ faults = 0 /\ review = {}
=============================================================================
