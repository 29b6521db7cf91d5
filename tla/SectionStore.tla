----------------------------- MODULE SectionStore -----------------------------
(***************************************************************************)
(* What the suite's shared documents promise: each is a map from sections  *)
(* to values, and one call replaces one section and leaves the others as   *)
(* they were (PrefsAdapter: "preserve other sections"; publish_shared_path:*)
(* "Last writer wins").  Registering an app also drops apps that are gone. *)
(* A document that is not replaced atomically may lose everything, but     *)
(* only to a failure.                                                      *)
(***************************************************************************)
EXTENDS Naturals

CONSTANTS Docs, Sections, Values, Missing, Fragile, Pruned

VARIABLES
    content,    \* what a reader of a document would find
    gone,       \* sections whose app is no longer on the disk
    failures    \* failures so far

storeVars == <<content, gone, failures>>

StoreInit ==
    /\ content = [d \in Docs |-> [s \in Sections |-> Missing]]
    /\ gone = {}
    /\ failures = 0

\* The call for section s writes value v and, in a pruned document, drops
\* what is gone.
Replace(d, s, v) ==
    /\ content'[d][s] = v
    /\ content' = [content EXCEPT ![d] =
                     [t \in Sections |-> IF t = s THEN v
                                         ELSE IF d \in Pruned /\ v # Missing /\ t \in gone
                                              THEN Missing ELSE @[t]]]
    /\ UNCHANGED <<gone, failures>>

LoseAll(d) ==
    /\ d \in Fragile
    /\ content' = [content EXCEPT ![d] = [s \in Sections |-> Missing]]
    /\ failures' = failures + 1
    /\ UNCHANGED gone

FailureWithoutLoss == failures' = failures + 1 /\ UNCHANGED <<content, gone>>

AppsComeAndGo == gone' # gone /\ UNCHANGED <<content, failures>>

StoreNext ==
    \/ \E d \in Docs, s \in Sections, v \in Values \cup {Missing} : Replace(d, s, v)
    \/ \E d \in Docs : LoseAll(d)
    \/ FailureWithoutLoss
    \/ AppsComeAndGo

StoreSpec == StoreInit /\ [][StoreNext]_storeVars
===============================================================================
