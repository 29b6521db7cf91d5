----------------------------- MODULE UpdateFlow -------------------------------
(***************************************************************************)
(* POST /api/suite/update (suite/update_routes.py): apply_upgrade of       *)
(* suite/update.py refuses an editable install, notes the installed        *)
(* version in the rollback record and runs `uv tool upgrade`.              *)
(*                                                                         *)
(* The handler is synchronous, so two requests run in two threads; nothing *)
(* locks the record, and no step is undone when a later one fails.  uv is  *)
(* external: it holds a lock on the tool, takes the old version away       *)
(* before it puts the new one in, and goes on when the app that ran it has *)
(* died.                                                                   *)
(***************************************************************************)
EXTENDS Integers

CONSTANTS
    Posts,       \* requests
    MaxRelease,  \* bound on the releases
    MaxFaults,   \* bound on failures and deaths
    None,        \* nobody; nothing installed (to be seen); no record
    Unknown,     \* what installed_version says when it finds nothing
    Broken       \* a record that is empty, or a mixture of two

ASSUME UpdateAssumption ==
    /\ MaxRelease \in Nat \ {0} /\ MaxFaults \in Nat
    /\ {None, Broken} \cap Posts = {} /\ {None, Unknown, Broken} \cap Nat = {}
    /\ None \notin {Unknown, Broken}

VARIABLES
    latest,     \* the newest release on the index
    installed,
    editable,   \* a local-dev install: no, by the marker file, or by direct_url.json
    damaged,    \* that direct_url.json cannot be read or parsed
    rollback,   \* the rollback record
    uv,         \* the request whose uv holds the lock
    post,
    writer,     \* history variable: who opened the rollback record last, Broken for two at once
    change,     \* history variable: the last replacement of a version
    faults

vars == <<latest, installed, editable, damaged, rollback, uv, post, writer, change, faults>>

Releases == 1..MaxRelease

InApp == {"guarded", "noted", "opened", "written"}     \* in a thread of the app
InUv == {"waiting", "replacing"}                       \* in a process of uv
Answers == {"restart_required", "409", "502", "500", "dead"}

Post == [pc : {"idle"} \cup InApp \cup InUv \cup Answers,
         prev : Releases \cup {None, Unknown},
         outdated : BOOLEAN,      \* history variable: replaced by another since it was read
         late : BOOLEAN]          \* history variable: a local-dev install came after it had looked

TypeOK ==
    /\ latest \in Releases /\ installed \in Releases \cup {None}
    /\ editable \in {"no", "marker", "metadata"}
    /\ damaged \in BOOLEAN /\ (damaged => editable = "metadata")
    /\ rollback \in Releases \cup {None, Unknown, Broken}
    /\ uv \in Posts \cup {None}
    /\ post \in [Posts -> Post]
    /\ \A p \in Posts : (uv = p) <=> (post[p].pc = "replacing")
    /\ writer \in Posts \cup {None, Broken} /\ (writer = None) <=> (rollback = None)
    /\ change \in [from : Releases \cup {None}, by : Posts \cup {None}, outdated : BOOLEAN]
    /\ faults \in 0..MaxFaults

-------------------------------------------------------------------------------
(* Helpers.  Op_Something is a plausible bug in Op, used by no             *)
(* specification.                                                          *)

Goto(p, pc) == post' = [post EXCEPT ![p].pc = pc]

\* The same, with a change of what is installed: what others have read is out of date.
Replaces(p, pc) ==
    post' = [q \in Posts |->
              IF q = p THEN [post[q] EXCEPT !.pc = pc]
              ELSE [post[q] EXCEPT !.outdated = @ \/ post[q].prev # None]]

Fault == faults < MaxFaults /\ faults' = faults + 1

Recorded_Nothing(version) == version

\* What installed_version makes of it.
Recorded(version) == IF version = None THEN Unknown ELSE version

LooksEditable_Metadata ==                          \* no look for the marker file
    editable = "metadata" /\ installed # None /\ ~damaged

\* is_editable_install: metadata that is not there, or that cannot be read, counts as not
\* editable.
LooksEditable ==
    editable = "marker" \/ (editable = "metadata" /\ installed # None /\ ~damaged)

-------------------------------------------------------------------------------

\* apply_upgrade starts, and is refused with an EditableInstallError.
Begin(p) ==
    /\ post[p].pc = "idle"
    /\ Goto(p, IF LooksEditable THEN "409" ELSE "guarded")
    /\ UNCHANGED <<latest, installed, editable, damaged, rollback, uv, writer, change, faults>>

\* installed_version
Note(p) ==
    /\ post[p].pc = "guarded"
    /\ post' = [post EXCEPT ![p].pc = "noted", ![p].prev = Recorded(installed)]
    /\ UNCHANGED <<latest, installed, editable, damaged, rollback, uv, writer, change, faults>>

\* write_text opens the record, which empties it.
Open(p) ==
    /\ post[p].pc = "noted"
    /\ Goto(p, "opened")
    /\ rollback' = Broken
    /\ writer' = IF \E q \in Posts : post[q].pc = "opened" THEN Broken ELSE p
    /\ UNCHANGED <<latest, installed, editable, damaged, uv, change, faults>>

\* Two that have the record open write into each other.
Write(p) ==
    /\ post[p].pc = "opened"
    /\ Goto(p, "written")
    /\ rollback' \in {post[p].prev} \cup (IF writer = Broken THEN {Broken} ELSE {})
    /\ UNCHANGED <<latest, installed, editable, damaged, uv, writer, change, faults>>

\* The version or the record cannot be read or written, or there is no uv to run.
Raises(p) ==
    /\ post[p].pc \in InApp /\ Fault
    /\ Goto(p, "500")
    /\ UNCHANGED <<latest, installed, editable, damaged, rollback, uv, writer, change>>

\* The app dies.  A uv that runs already goes on.
Dies(p) ==
    /\ post[p].pc \in InApp /\ Fault
    /\ Goto(p, "dead")
    /\ UNCHANGED <<latest, installed, editable, damaged, rollback, uv, writer, change>>

Run_First(p) ==     \* the upgrade before its record
    /\ post[p].pc = "noted"
    /\ Goto(p, "waiting")
    /\ UNCHANGED <<latest, installed, editable, damaged, rollback, uv, writer, change, faults>>

\* run(["uv", "tool", "upgrade", ...])
Run(p) ==
    /\ post[p].pc = "written"
    /\ Goto(p, "waiting")
    /\ UNCHANGED <<latest, installed, editable, damaged, rollback, uv, writer, change, faults>>

\* uv has its lock and finds a newer release: the old version goes.
Remove(p) ==
    /\ post[p].pc = "waiting" /\ uv = None /\ installed # latest
    /\ uv' = p
    /\ installed' = None
    /\ editable' = IF editable = "metadata" THEN "no" ELSE editable
    /\ damaged' = FALSE
    /\ change' = [from |-> installed, by |-> p, outdated |-> post[p].outdated]
    /\ Replaces(p, "replacing")
    /\ UNCHANGED <<latest, rollback, writer, faults>>

\* The new version comes.
Install(p) ==
    /\ post[p].pc = "replacing"
    /\ uv' = None
    /\ installed' = latest
    /\ Replaces(p, "restart_required")
    /\ UNCHANGED <<latest, editable, damaged, rollback, writer, change, faults>>

\* uv finds nothing to do.
UpToDate(p) ==
    /\ post[p].pc = "waiting" /\ uv = None /\ installed = latest
    /\ Goto(p, "restart_required")
    /\ UNCHANGED <<latest, installed, editable, damaged, rollback, uv, writer, change, faults>>

\* uv exits with an error, before it has changed anything or between its two steps.
UvFails(p) ==
    /\ post[p].pc \in InUv /\ (post[p].pc = "waiting" => uv = None) /\ Fault
    /\ Goto(p, "502")
    /\ uv' = None
    /\ UNCHANGED <<latest, installed, editable, damaged, rollback, writer, change>>

\* Others publish a release, turn the installation into one for local development, or
\* spoil the direct_url.json of one.
Publish ==
    /\ latest < MaxRelease
    /\ latest' = latest + 1
    /\ UNCHANGED <<installed, editable, damaged, rollback, uv, post, writer, change, faults>>

Develop(how) ==
    /\ uv = None /\ installed # None /\ editable = "no"
    /\ editable' = how
    /\ post' = [p \in Posts |-> [post[p] EXCEPT !.late = @ \/ post[p].pc # "idle"]]
    /\ UNCHANGED <<latest, installed, damaged, rollback, uv, writer, change, faults>>

Damage ==
    /\ editable = "metadata" /\ ~damaged /\ Fault
    /\ damaged' = TRUE
    /\ UNCHANGED <<latest, installed, editable, rollback, uv, post, writer, change>>

Init ==
    /\ latest \in Releases /\ installed = 1
    /\ editable \in {"no", "marker", "metadata"} /\ damaged = FALSE
    /\ rollback = None /\ uv = None
    /\ post = [p \in Posts |->
                 [pc |-> "idle", prev |-> None, outdated |-> FALSE, late |-> FALSE]]
    /\ writer = None
    /\ change = [from |-> None, by |-> None, outdated |-> FALSE]
    /\ faults = 0

Next ==
    \/ \E p \in Posts :
          \/ Begin(p) \/ Note(p) \/ Open(p) \/ Write(p) \/ Raises(p) \/ Dies(p)
          \/ Run(p) \/ Remove(p) \/ Install(p) \/ UpToDate(p) \/ UvFails(p)
    \/ Publish
    \/ \E how \in {"marker", "metadata"} : Develop(how)
    \/ Damage

Spec == Init /\ [][Next]_vars

-------------------------------------------------------------------------------
(* Properties.                                                             *)

\* "Record the previous version for rollback before upgrading": once a version was
\* replaced, also when that failed half-way, the record names it, unless another request
\* has opened the record since or at the same time, or has replaced the version after it
\* was read.
RecordNamesReplaced ==
    change.by # None /\ writer \in {None, change.by} /\ ~change.outdated
    => rollback = Recorded(change.from)

\* uv takes a local-dev install away only when it became one after the request had looked,
\* or is known by a direct_url.json that cannot be read: the answer of the guard outlives
\* whatever other requests, releases and failures come before uv has its lock.
LocalDevIsLeftAlone ==
    [][editable # "no" /\ installed # None /\ installed' = None
         => damaged \/ \E p \in Posts : uv' = p /\ post[p].late]_vars
===============================================================================
