------------------------------- MODULE BlobStore -------------------------------
(***************************************************************************)
(* The content-addressed store of page images and page JSON                *)
(* (pdomain_ops/blob_store.py) and the page records that refer to blobs.   *)
(*                                                                         *)
(* Calls run in several threads or processes on one blobs directory.  A    *)
(* write is test, open (which truncates), write, rename; two writers of    *)
(* one digest share the name <digest>.tmp.  An open file is followed       *)
(* through the rename: `at' says under which name, if any, the file a      *)
(* writer holds is found now.  prune_orphans works on the set of live      *)
(* references its caller computed before.                                  *)
(***************************************************************************)
EXTENDS Naturals

CONSTANTS
    Calls,      \* calls of write (with the record that follows) and prune_orphans
    Digests,    \* SHA-256 of the contents
    MaxKills,   \* bound on calls that die or fail halfway
    None

ASSUME BlobAssumption == None \notin Digests /\ MaxKills \in Nat

VARIABLES
    blob,       \* what is found under <digest>
    tmp,        \* what is found under <digest>.tmp
    call,       \* the calls
    refs,       \* digests that stored page records refer to
    overlapped, \* history: digests with two writers past the test at once
    late,       \* history: digests pruned while becoming live, after the live
                \* references were computed
    kills

vars == <<blob, tmp, call, refs, overlapped, late, kills>>

Content == {"absent", "partial", "whole"}
Writing == {"open", "fill", "rename"}
Ended == {"done", "raised", "killed"}

Call == [pc : {"idle", "test", "written", "list", "prune", "unlink"} \cup Writing \cup Ended,
         digest : Digests \cup {None},
         at : {"none", "tmp", "blob", "unlinked"},
         live : SUBSET Digests, todo : SUBSET Digests]

TypeOK ==
    /\ blob \in [Digests -> Content]
    /\ tmp \in [Digests -> Content]
    /\ call \in [Calls -> Call]
    /\ refs \in SUBSET Digests
    /\ overlapped \in SUBSET Digests
    /\ late \in SUBSET Digests
    /\ kills \in 0..MaxKills

-------------------------------------------------------------------------------
(* Helpers.  Op_Something is a plausible bug in Op, used by no             *)
(* specification.                                                          *)

Exists_Either(d) == blob[d] # "absent" \/ tmp[d] # "absent"     \* sees the .tmp

Exists(d) == blob[d] # "absent"

Target_Blob == "blob"     \* written in place

Target == "tmp"

Opens_Exclusive(d) == tmp[d] = "absent"     \* open(..., "xb")

\* write_bytes opens with "wb": a .tmp that somebody left is truncated.
Opens(d) == TRUE

Condemned_All(c, d) == blob[d] # "absent"     \* live_refs not looked at

Condemned(c, d) == blob[d] # "absent" /\ d \notin call[c].live

Listed_WithTmp == {d \in Digests : blob[d] # "absent"} \cup {None}

\* iterdir, without the names that end in .tmp.
Listed == {d \in Digests : blob[d] # "absent"}

Goto(c, pc) == call' = [call EXCEPT ![c].pc = pc]

\* Open files of digest d after <digest>.tmp has become <digest>, or <digest> is
\* unlinked.
Renamed(e, d) == IF call[e].digest # d THEN call[e].at
                 ELSE CASE call[e].at = "tmp"  -> "blob"
                        [] call[e].at = "blob" -> "unlinked"
                        [] OTHER -> call[e].at

Unlinked(e, d) == IF call[e].digest = d /\ call[e].at = "blob" THEN "unlinked"
                  ELSE call[e].at

-------------------------------------------------------------------------------
(* write, and the record its caller stores afterwards.                     *)

Write(c, d) ==
    /\ call[c].pc = "idle"
    /\ call' = [call EXCEPT ![c].pc = "test", ![c].digest = d]
    /\ UNCHANGED <<blob, tmp, refs, overlapped, late, kills>>

Known(c) ==
    /\ call[c].pc = "test" /\ Exists(call[c].digest)
    /\ Goto(c, "written")
    /\ UNCHANGED <<blob, tmp, refs, overlapped, late, kills>>

New(c) ==
    /\ call[c].pc = "test" /\ ~Exists(call[c].digest)
    /\ Goto(c, "open")
    /\ overlapped' = overlapped \cup
          {d \in {call[c].digest} : \E e \in Calls : call[e].digest = d /\ call[e].pc \in Writing}
    /\ UNCHANGED <<blob, tmp, refs, late, kills>>

\* A file that is there is truncated, also for whoever holds it open.
Open(c) ==
    LET d == call[c].digest IN
    /\ call[c].pc = "open"
    /\ \/ /\ Opens(d)
          /\ call' = [call EXCEPT ![c].pc = "fill", ![c].at = Target]
          /\ tmp' = [tmp EXCEPT ![d] = IF Target = "tmp" THEN "partial" ELSE tmp[d]]
          /\ blob' = [blob EXCEPT ![d] = IF Target = "blob" THEN "partial" ELSE blob[d]]
       \/ /\ ~Opens(d)
          /\ Goto(c, "raised")
          /\ UNCHANGED <<tmp, blob>>
    /\ UNCHANGED <<refs, overlapped, late, kills>>

\* All bytes are in the file, wherever it is by now.
Fill(c) ==
    LET d == call[c].digest IN
    /\ call[c].pc = "fill"
    /\ Goto(c, "rename")
    /\ tmp' = [tmp EXCEPT ![d] = IF call[c].at = "tmp" THEN "whole" ELSE tmp[d]]
    /\ blob' = [blob EXCEPT ![d] = IF call[c].at = "blob" THEN "whole" ELSE blob[d]]
    /\ UNCHANGED <<refs, overlapped, late, kills>>

\* tmp.replace(path) takes whatever has the name.  Without one it raises
\* FileNotFoundError.
Rename(c) ==
    LET d == call[c].digest IN
    /\ call[c].pc = "rename"
    /\ \/ /\ tmp[d] # "absent"
          /\ blob' = [blob EXCEPT ![d] = tmp[d]]
          /\ tmp' = [tmp EXCEPT ![d] = "absent"]
          /\ call' = [e \in Calls |->
                        IF e = c THEN [call[c] EXCEPT !.pc = "written", !.at = "none"]
                        ELSE [call[e] EXCEPT !.at = Renamed(e, d)]]
       \/ /\ tmp[d] = "absent"
          /\ call' = [call EXCEPT ![c].pc = "raised", ![c].at = "none"]
          /\ UNCHANGED <<blob, tmp>>
    /\ UNCHANGED <<refs, overlapped, late, kills>>

\* The caller stores a page record with the hash it got.
Record(c) ==
    /\ call[c].pc = "written"
    /\ refs' = refs \cup {call[c].digest}
    /\ Goto(c, "done")
    /\ UNCHANGED <<blob, tmp, overlapped, late, kills>>

\* A provenance node is replaced by one of the same id with other blob_refs: no record
\* refers to the blob any more.
Supersede(d) ==
    /\ d \in refs
    /\ refs' = refs \ {d}
    /\ UNCHANGED <<blob, tmp, call, overlapped, late, kills>>

\* The process dies or the disk is full: the file stays as it is.
Dies(c) ==
    /\ call[c].pc \in Writing \cup {"written", "prune", "unlink"}
    /\ kills < MaxKills
    /\ kills' = kills + 1
    /\ call' = [call EXCEPT ![c].pc = "killed", ![c].at = "none"]
    /\ UNCHANGED <<blob, tmp, refs, overlapped, late>>

-------------------------------------------------------------------------------
(* prune_orphans.                                                          *)

\* The caller has computed live_refs from the stored records.
Prune(c) ==
    /\ call[c].pc = "idle"
    /\ call' = [call EXCEPT ![c].pc = "list", ![c].live = refs]
    /\ UNCHANGED <<blob, tmp, refs, overlapped, late, kills>>

List(c) ==
    /\ call[c].pc = "list"
    /\ call' = [call EXCEPT ![c].pc = "prune", ![c].todo = Listed]
    /\ UNCHANGED <<blob, tmp, refs, overlapped, late, kills>>

\* The test of one name: kept (or no file any more), or to be unlinked.
Examine(c, d) ==
    /\ call[c].pc = "prune" /\ d \in call[c].todo
    /\ call' = [call EXCEPT ![c] =
                  [@ EXCEPT !.todo = call[c].todo \ {d},
                            !.pc = IF Condemned(c, d) THEN "unlink" ELSE "prune",
                            !.digest = IF Condemned(c, d) THEN d ELSE None]]
    /\ UNCHANGED <<blob, tmp, refs, overlapped, late, kills>>

\* d is live, or about to be: recorded, or written by a call that will record it.
Wanted(d) == d \in refs \/ \E e \in Calls : call[e].pc = "written" /\ call[e].digest = d

\* unlink raises FileNotFoundError when another prune was faster.
Unlink(c) ==
    LET d == call[c].digest IN
    /\ call[c].pc = "unlink"
    /\ \/ /\ blob[d] # "absent"
          /\ blob' = [blob EXCEPT ![d] = "absent"]
          /\ call' = [e \in Calls |->
                        IF e = c THEN [call[c] EXCEPT !.pc = "prune", !.digest = None]
                        ELSE [call[e] EXCEPT !.at = Unlinked(e, d)]]
          /\ late' = late \cup {x \in {d} : Wanted(d) /\ d \notin call[c].live}
       \/ /\ blob[d] = "absent"
          /\ call' = [call EXCEPT ![c].pc = "raised", ![c].digest = None]
          /\ UNCHANGED <<blob, late>>
    /\ UNCHANGED <<tmp, refs, overlapped, kills>>

Pruned(c) ==
    /\ call[c].pc = "prune" /\ call[c].todo = {}
    /\ Goto(c, "done")
    /\ UNCHANGED <<blob, tmp, refs, overlapped, late, kills>>

-------------------------------------------------------------------------------

Idle == [pc |-> "idle", digest |-> None, at |-> "none", live |-> {}, todo |-> {}]

Init ==
    /\ blob = [d \in Digests |-> "absent"]
    /\ tmp = [d \in Digests |-> "absent"]
    /\ call = [c \in Calls |-> Idle]
    /\ refs = {}
    /\ overlapped = {}
    /\ late = {}
    /\ kills = 0

Next ==
    \/ \E d \in Digests : Supersede(d)
    \/ \E c \in Calls :
        \/ \E d \in Digests : Write(c, d)
        \/ Known(c) \/ New(c) \/ Open(c) \/ Fill(c) \/ Rename(c) \/ Record(c) \/ Dies(c)
        \/ Prune(c) \/ List(c) \/ Unlink(c) \/ Pruned(c)
        \/ \E d \in Digests : Examine(c, d)

Spec == Init /\ [][Next]_vars

-------------------------------------------------------------------------------
(* Properties.                                                             *)

\* A blob that a stored record refers to is there, with its whole content, whatever
\* died halfway before and whatever was pruned, unless two writers of it overlapped
\* or it became live while a prune was on its way.
RecordedIsReadable ==
    \A d \in refs : d \notin overlapped \cup late => blob[d] = "whole"

\* Only overlapping writers publish part of a content: a writer that dies leaves at
\* most a .tmp, and the next writer of the digest starts it anew.
PartialComesFromOverlap ==
    \A d \in Digests : blob[d] = "partial" => d \in overlapped

\* A write raises only when another writer of the same digest overlapped with it,
\* never because of what a dead one left behind.
WritesFailOnlyByOverlap ==
    \A c \in Calls : call[c].pc = "raised" /\ call[c].digest # None
                     => call[c].digest \in overlapped

===============================================================================
