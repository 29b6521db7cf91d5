--------------------------- MODULE MCPageLifecycle ----------------------------
(* Instances of PageLifecycle for TLC. *)
EXTENDS PageLifecycle, TLC

CONSTANTS c1, c2, i1, i2

TwoCopies == {c1, c2}
OneId == {i1}
TwoIds == {i1, i2}

\* One request of the app that prepares pages, one of the app that labels them.
PrepAndLabeler ==
    c1 :> {"OcrCompleted", "GtMapped", "PageAdded", "PageRemoved"} @@
    c2 :> {"LabelerEdited", "RotationUpdated", "ExtensionSet", "PageReordered",
           "ProjectExported"}

\* The labelling app passes values JSON does not give back.
LabelerPassesAll == c1 :> {"plain"} @@ c2 :> {"plain", "typed"}
===============================================================================
