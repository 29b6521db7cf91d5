----------------------------- MODULE MCOcrBatches -----------------------------
(* Instances of OcrBatches for TLC. *)
EXTENDS OcrBatches, TLC

CONSTANTS c1, c2, c3

OneCall == {c1}
TwoCalls == {c1, c2}
ThreeCalls == {c1, c2, c3}
===============================================================================
