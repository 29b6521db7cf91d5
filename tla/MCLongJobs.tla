------------------------------ MODULE MCLongJobs ------------------------------
(***************************************************************************)
(* Instances of LongJobs for TLC.                                          *)
(***************************************************************************)
EXTENDS LongJobs, TLC

\* Every kind of line, on a pipe that holds one of them.
Chatty == [script |-> <<"event", "malformed", "log">>, rc |-> "zero"]

\* Its second line is an event whose kind is a list.
Broken == [script |-> <<"event", "unhashable", "log">>, rc |-> "zero"]

\* Fails, complains on stderr, and closes its stdout before its last line.
Failing == [script |-> <<"blank", "err", "log", "close", "event">>, rc |-> "nonzero"]

\* Writes more to stderr than that pipe holds, and would succeed.
Noisy == [script |-> <<"err", "err", "log">>, rc |-> "zero"]

AnyCmd == {Chatty, Broken, Failing}
NoisyCmd == {Noisy}

Symmetry == Permutations(Jobs) \cup Permutations(Runners) \cup Permutations(Cancels)
===============================================================================
