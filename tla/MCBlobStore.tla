------------------------------ MODULE MCBlobStore ------------------------------
(* Instances of BlobStore for TLC. *)
EXTENDS BlobStore, TLC

CONSTANTS c1, c2, c3, c4, d1, d2

FourCalls == {c1, c2, c3, c4}
TwoDigests == {d1, d2}

\* Calls and digests are interchangeable: no property is temporal.
Symmetry == Permutations(Calls) \cup Permutations(Digests)
===============================================================================
