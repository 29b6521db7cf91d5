---------------------------- MODULE MCDesktopShell ----------------------------
(* Instances of DesktopShell for TLC. *)
EXTENDS DesktopShell, TLC

CONSTANTS p1, p2, p3, x1, x2, x3

TwoShells == {p1, p2}
ThreeShells == {p1, p2, p3}
TwoPids == {x1, x2}
ThreePids == {x1, x2, x3}
===============================================================================
