----------------------------- MODULE MCSuiteFiles -----------------------------
(* Instances of SuiteFiles for TLC. *)
EXTENDS SuiteFiles, TLC

CONSTANTS c1, c2, c3, a1, a2

\* The default row, another one, one with keys of a newer version and one it rejects.
MCWritten == {[data |-> 1, device |-> Missing, unknown |-> FALSE],
              [data |-> 2, device |-> Missing, unknown |-> FALSE],
              [data |-> 2, device |-> CHOOSE d \in Devices : TRUE, unknown |-> TRUE],
              [data |-> Odd, device |-> Missing, unknown |-> FALSE]}

TwoCalls == {c1, c2}
ThreeCalls == {c1, c2, c3}
TwoApps == {a1, a2}
OneApp == {a1}
===============================================================================
