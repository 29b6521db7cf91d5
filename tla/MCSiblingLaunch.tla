--------------------------- MODULE MCSiblingLaunch ---------------------------
(* SiblingLaunch on two apps whose preferred ports are neighbours, so that *)
(* one that moves can take the other's port.                               *)
EXTENDS SiblingLaunch, TLC

CONSTANTS a1, a2

MCPreferred == (a1 :> FirstPort @@ a2 :> FirstPort + 1)

\* Requests and processes differ by nothing but their names.
Symm == Permutations(Requests) \cup Permutations(Procs)
===============================================================================
