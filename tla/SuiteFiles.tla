------------------------------ MODULE SuiteFiles ------------------------------
(***************************************************************************)
(* The three documents the apps of the suite share: ui-prefs.json          *)
(* (suite/prefs.py, device_prefs.py, device_routes.py), installed.toml     *)
(* (suite/registry.py) and shared-paths.json (suite/shared_paths.py).      *)
(*                                                                         *)
(* A call is one method call or request handler in some process.  It works *)
(* in sessions, each under the document's FileLock: load, change, write    *)
(* back.  put_device and clear_device_preference have two sessions, a read *)
(* and a write of the section they read, with nothing locked in between,   *)
(* and read the common section through a model that drops unknown keys.    *)
(* The preferences and the registry are rewritten in place, so a writer    *)
(* that breaks off leaves a truncated file, which every loader takes for   *)
(* an empty document; the shared paths are staged and renamed.             *)
(***************************************************************************)
EXTENDS Naturals, Sequences

CONSTANTS
    Calls,      \* calls, each in some process
    Apps,       \* app ids (and shared-path keys)
    Common,     \* the common section of the preferences
    Data,       \* what a section holds, as its readers know it, besides the device
    Odd,        \* what a reader's model rejects: a payload that is no object, a value
                \* only a newer version of the package has
    Devices,    \* compute devices
    Written,    \* the sections that callers write
    MaxFaults,  \* bound on writers that break off or hang
    None, Missing, Absent, Corrupt

Docs == {"prefs", "registry", "shared_paths"}
Sections == Apps \cup {Common}
Values == [data : Data \cup {Odd}, device : Devices \cup {Missing},
           unknown : BOOLEAN]    \* it has keys that CommonUIPrefs does not have
Contents == [Sections -> Values \cup {Missing}]

ASSUME FilesAssumption ==
    /\ Common \notin Apps /\ None \notin Calls
    /\ Data # {} /\ Odd \notin Data /\ Missing \notin Devices \cup Values
    /\ Written \subseteq Values
    /\ Absent # Corrupt /\ {Absent, Corrupt} \cap Contents = {}
    /\ MaxFaults \in Nat

VARIABLES
    file,       \* each document on disk
    lock,       \* who holds its FileLock
    call,       \* the calls
    gone,       \* apps whose binary is no longer on disk
    faults

vars == <<file, lock, call, gone, faults>>

Ops == {"read", "write", "remove", "put_device"}

Call == [pc : {"idle", "waiting", "locked", "writing", "hung", "done", "failed", "dead"},
         op : Ops \cup {None}, doc : Docs \cup {None}, section : Sections \cup {None},
         value : Values \cup {Missing}, device : Devices \cup {Missing},
         session : 0..2, loaded : Contents,
         stale : BOOLEAN]     \* history variable: another changed what the first session read

Empty == [s \in Sections |-> Missing]

TypeOK ==
    /\ file \in [Docs -> Contents \cup {Absent, Corrupt}]
    /\ lock \in [Docs -> Calls \cup {None}]
    /\ call \in [Calls -> Call]
    /\ gone \in SUBSET Apps
    /\ faults \in 0..MaxFaults

-------------------------------------------------------------------------------
(* Helpers.  Op_Something is a plausible bug in Op, used by no             *)
(* specification.                                                          *)

Fault == /\ faults < MaxFaults
         /\ faults' = faults + 1

Load_Unguarded(d) == file[d]     \* no test that there is a document

\* _read_raw: no file and an unreadable file are an empty document.
Load(d) == IF file[d] \in {Absent, Corrupt} THEN Empty ELSE file[d]

Staged_Never(d) == FALSE     \* shared paths written in place as well

\* Written to a temporary file and renamed (_atomic_write).
Staged(d) == d = "shared_paths"

Bounded_Never(d) == FALSE    \* FileLock without a timeout

\* The FileLock has a timeout; the registry's has none.
Bounded(d) == d # "registry"

LockFree_Ignored(d) == TRUE  \* no lock

LockFree(d) == lock[d] = None

\* Rows of the registry and shared paths: data alone.
Plain == {v \in Values : v.data # Odd /\ v.device = Missing /\ ~v.unknown}

\* UIPrefs.model_validate raises for the whole document if one section is odd; the
\* other two documents skip what they cannot read.
Readable(d, content) ==
    d = "prefs" => \A s \in Sections : content[s] # Missing => content[s].data # Odd

Defaults == [data |-> CHOOSE x \in Data : TRUE, device |-> Missing, unknown |-> FALSE]

Modelled_Everywhere(s, v) == IF v = Missing THEN Defaults ELSE [v EXCEPT !.unknown = FALSE]

\* A section as a reader has it.  The common one is an instance of CommonUIPrefs, without
\* the keys that has no field for (extra="ignore"); those of apps are the objects stored.
Modelled(s, v) ==
    IF v = Missing THEN Defaults
    ELSE IF s = Common THEN [v EXCEPT !.unknown = FALSE] ELSE v

\* write_common, write_app and publish_shared_path replace their section; put_device
\* writes the section it read, with the device replaced.
NewSection(c) ==
    CASE call[c].op = "remove"     -> Missing
      [] call[c].op = "write"      -> call[c].value
      [] call[c].op = "put_device" -> [call[c].value EXCEPT !.device = call[c].device]

\* What a writer makes of the document it loaded, register without the apps that are
\* gone when it looks.
Changed(c) ==
    [s \in Sections |->
       IF s = call[c].section THEN NewSection(c)
       ELSE IF call[c].doc = "registry" /\ call[c].op = "write" /\ s \in gone THEN Missing
       ELSE call[c].loaded[s]]

LastSession(c) == IF call[c].op = "put_device" THEN 2 ELSE 0

Idle == [pc |-> "idle", op |-> None, doc |-> None, section |-> None, value |-> Missing,
         device |-> Missing, session |-> 0, loaded |-> Empty, stale |-> FALSE]

\* The call returns or raises; its local variables are gone.
Ended(c, pc) == [Idle EXCEPT !.pc = pc, !.doc = call[c].doc]

End(c, pc) == call' = [call EXCEPT ![c] = Ended(c, pc)]

NextSession(c) ==
    IF call[c].session = LastSession(c) THEN Ended(c, "done")
    ELSE [call[c] EXCEPT !.pc = "waiting", !.session = @ + 1,
                         !.loaded = Empty,
                         !.value = Modelled(call[c].section, call[c].loaded[call[c].section])]

\* Calls that hold what they read of the section c writes, and have not written it back.
HoldCopy(c) == {e \in Calls \ {c} : /\ call[e].op = "put_device" /\ call[e].session = 1
                                    /\ call[e].section = call[c].section
                                    /\ call[c].doc = "prefs"}

Writes(c) == \/ call[c].op \in {"write", "remove"}
             \/ call[c].op = "put_device" /\ call[c].session = 1

-------------------------------------------------------------------------------

Begin(c, op, d, s, v, dev) ==
    /\ call[c].pc = "idle"
    /\ op = "remove" => d = "registry"
    /\ op = "put_device" => d = "prefs"
    /\ s = Common => d = "prefs"
    /\ d # "prefs" => v \in Plain \cup {Missing}
    /\ call' = [call EXCEPT ![c] =
                  [@ EXCEPT !.pc = "waiting", !.op = op, !.doc = d, !.section = s,
                            !.value = v, !.device = dev]]
    /\ UNCHANGED <<file, lock, gone, faults>>

\* The lock is taken and the document loaded.
Enter(c) ==
    /\ call[c].pc = "waiting" /\ LockFree(call[c].doc)
    /\ lock' = [lock EXCEPT ![call[c].doc] = c]
    /\ call' = [call EXCEPT ![c] = [@ EXCEPT !.pc = "locked", !.loaded = Load(call[c].doc)]]
    /\ UNCHANGED <<file, gone, faults>>

\* The timeout of the lock: PrefsLockTimeout, SharedPathsLockTimeout.
GiveUp(c) ==
    /\ call[c].pc = "waiting" /\ Bounded(call[c].doc) /\ ~LockFree(call[c].doc)
    /\ End(c, "failed")
    /\ UNCHANGED <<file, lock, gone, faults>>

\* The end of a session that only reads.  put_device keeps the section it read and
\* goes on to write it; after that it reads again for its answer.
Leave(c) ==
    /\ call[c].pc = "locked" /\ ~Writes(c) /\ Readable(call[c].doc, call[c].loaded)
    /\ lock' = [lock EXCEPT ![call[c].doc] = None]
    /\ call' = [call EXCEPT ![c] = NextSession(c)]
    /\ UNCHANGED <<file, gone, faults>>

\* The lock is released, and the model rejects what was read.
ReadFails(c) ==
    /\ call[c].pc = "locked" /\ ~Writes(c) /\ ~Readable(call[c].doc, call[c].loaded)
    /\ lock' = [lock EXCEPT ![call[c].doc] = None]
    /\ End(c, "failed")
    /\ UNCHANGED <<file, gone, faults>>

\* What was loaded is changed, and the file opened for writing: truncated, or a staged
\* one created.
BeginWrite(c) ==
    /\ call[c].pc = "locked" /\ Writes(c)
    /\ file' = IF Staged(call[c].doc) THEN file
               ELSE [file EXCEPT ![call[c].doc] = Corrupt]
    /\ call' = [e \in Calls |->
                  IF e = c THEN [call[c] EXCEPT !.pc = "writing", !.loaded = Changed(c)]
                  ELSE [call[e] EXCEPT !.stale = @ \/ e \in HoldCopy(c)]]
    /\ UNCHANGED <<lock, gone, faults>>

\* The new content is complete, or renamed into place, and the lock released.
FinishWrite(c) ==
    /\ call[c].pc = "writing"
    /\ file' = [file EXCEPT ![call[c].doc] = call[c].loaded]
    /\ lock' = [lock EXCEPT ![call[c].doc] = None]
    /\ call' = [call EXCEPT ![c] = NextSession(c)]
    /\ UNCHANGED <<gone, faults>>

\* The process dies or the write raises: the lock is released, the file stays as
\* it is.
BreaksOff(c) ==
    /\ call[c].pc \in {"locked", "writing"} /\ Fault
    /\ lock' = [lock EXCEPT ![call[c].doc] = None]
    /\ End(c, "dead")
    /\ UNCHANGED <<file, gone>>

\* A wedged holder: alive, and never to release the lock.
Hangs(c) ==
    /\ call[c].pc = "locked" /\ Fault
    /\ End(c, "hung")
    /\ UNCHANGED <<file, lock, gone>>

\* The binary of app a appears on or vanishes from the disk.
Uninstall(a) ==
    /\ a \notin gone
    /\ gone' = gone \cup {a}
    /\ UNCHANGED <<file, lock, call, faults>>

Install(a) ==
    /\ a \in gone
    /\ gone' = gone \ {a}
    /\ UNCHANGED <<file, lock, call, faults>>

Init ==
    /\ file = [d \in Docs |-> Absent]
    /\ lock = [d \in Docs |-> None]
    /\ call = [c \in Calls |-> Idle]
    /\ gone = {}
    /\ faults = 0

Step(c) == Enter(c) \/ GiveUp(c) \/ Leave(c) \/ ReadFails(c) \/ BeginWrite(c) \/ FinishWrite(c)

Next ==
    \/ \E c \in Calls : \/ Step(c) \/ BreaksOff(c) \/ Hangs(c)
    \/ \E c \in Calls, d \in Docs, s \in Sections :
          \/ Begin(c, "read", d, s, Missing, Missing)
          \/ Begin(c, "remove", d, s, Missing, Missing)
          \/ \E v \in Written : Begin(c, "write", d, s, v, Missing)
          \/ \E dev \in Devices \cup {Missing} : Begin(c, "put_device", d, s, Missing, dev)
    \/ \E a \in Apps : Uninstall(a) \/ Install(a)

Spec == Init /\ [][Next]_vars

\* Fairness: a process that runs goes on; a lock that is free again and again is
\* taken sooner or later by one that polls for it.
Fairness == \A c \in Calls : /\ WF_vars(GiveUp(c) \/ Leave(c) \/ ReadFails(c) \/ BeginWrite(c) \/ FinishWrite(c))
                             /\ SF_vars(Enter(c))

FairSpec == Spec /\ Fairness

-------------------------------------------------------------------------------
(* Properties.                                                             *)

\* The writer that holds the lock of document d and has begun to write.
Writer(d) == {c \in Calls : call[c].pc = "writing" /\ call[c].doc = d}

\* Whoever finds a document unreadable comes after a writer that broke off: the
\* lock keeps readers and writers away from a document that is being written.
CorruptOnlyByFailure ==
    \A c \in Calls : \A d \in Docs :
        /\ call[c].pc = "locked" /\ call[c].doc = d /\ file[d] = Corrupt
        => ~Staged(d) /\ \E e \in Calls : call[e].pc = "dead" /\ call[e].doc = d

\* What each document holds.  One that is rewritten in place has its new content from the
\* moment it is opened on: what it held before is lost in any case.
Content == [d \in Docs |-> IF Staged(d) \/ Writer(d) = {} THEN Load(d)
                           ELSE call[CHOOSE c \in Writer(d) : TRUE].loaded]

\* The documents implement the abstract section store: a finished call has
\* replaced its section and nothing else, concurrent calls for other sections
\* survive, and only a failure in the preferences or the registry loses anything.
Store == INSTANCE SectionStore WITH
    Fragile  <- {d \in Docs : d # "shared_paths"},
    Pruned   <- {"registry"},
    content  <- Content,
    failures <- faults

ImplementsStore == Store!StoreSpec

\* Every call ends, also behind a wedged holder, unless it waits for the
\* registry, whose lock has no timeout.
CallsEnd ==
    \A c \in Calls :
        call[c].pc = "waiting" ~> \/ call[c].pc \in {"done", "failed", "dead", "hung"}
                                  \/ /\ call[c].doc = "registry"
                                     /\ \E e \in Calls : call[e].pc = "hung" /\ lock["registry"] = e

\* PUT /api/suite/device "sets or clears an application or suite preference".  It writes
\* back the section it read before: that undoes what was written between its sessions,
\* and of the common section what CommonUIPrefs has no field for is gone.  All the rest
\* of the section the writer finds is in what it writes, unknown keys of apps included.
DevicePutKeepsTheRest ==
    [][\A c \in Calls :
         LET s   == call[c].section
             old == call[c].loaded[s]
             new == call'[c].loaded[s] IN
         /\ call[c].op = "put_device" /\ call[c].pc = "locked" /\ call'[c].pc = "writing"
         /\ old # Missing /\ ~call[c].stale
         => /\ new.data = old.data
            /\ new.unknown # old.unknown => s = Common]_vars
===============================================================================
