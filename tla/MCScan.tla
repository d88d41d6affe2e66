------------------------------- MODULE MCScan -------------------------------
(***************************************************************************)
(* The integrity audit for TLC: four rows with SimHashes of four bits in   *)
(* two bands.                                                              *)
(***************************************************************************)
EXTENDS IntegrityScan

RowAs(key, role, repository, simhash, code) ==
    [key |-> key, role |-> role, repository |-> repository, simhash |-> simhash, code |-> code]

\* Rows 1 and 3 are exact copies, 2 and 3 differ in a bit of the second band, 1
\* and 4 are far apart in the first band and equal in the second.
Copies == <<RowAs(1, "c0_fit", "p", {0, 2}, "f"), RowAs(2, "c0_fit", "q", {0}, "g"),
            RowAs(3, "c0_iteration", "r", {0, 2}, "f"),
            RowAs(4, "c0_iteration", "s", {1, 2}, "h")>>

\* All rows share the first band; a pair of one repository in both roles is not
\* a candidate.
Crowded == <<RowAs(2, "c0_fit", "p", {}, "f"), RowAs(4, "c0_fit", "q", {2}, "g"),
             RowAs(1, "c0_iteration", "p", {}, "h"),
             RowAs(3, "c0_iteration", "r", {2, 3}, "k")>>

MCDataset == {Copies, Crowded}

Bounds(hamming, bucket, cands, pairs) ==
    [hamming |-> hamming, bucket |-> bucket, candidates |-> cands, pairs |-> pairs]

MCLimits == {Bounds(1, 4, 9, 4), Bounds(1, 3, 9, 4), Bounds(1, 4, 9, 1), Bounds(0, 4, 9, 4),
             Bounds(1, 4, 2, 4), Bounds(1, 4, 1, 1)}
=============================================================================
