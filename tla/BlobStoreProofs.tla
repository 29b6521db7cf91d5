--------------------------- MODULE BlobStoreProofs ----------------------------
(***************************************************************************)
(* Proofs about BlobStore: what a record refers to can be read, and what   *)
(* goes wrong comes from two writers of one digest or a prune on its way,  *)
(* for any number of calls, digests and kills.                             *)
(***************************************************************************)
EXTENDS BlobStore, TLAPS

(***************************************************************************)
(* The inductive invariant.                                                *)
(***************************************************************************)

\* Calls that work on one digest, and calls that have a file open.
WithDigest == {"test", "written", "unlink"} \cup Writing
Holding == {"fill", "rename"}

DigestInv ==
    \A c \in Calls :
        /\ call[c].pc \in WithDigest => call[c].digest \in Digests
        /\ call[c].pc \notin Holding => call[c].at = "none"

\* Two writers of one digest are known to have overlapped.
SingleInv ==
    \A c, e \in Calls :
        /\ c # e /\ call[c].digest = call[e].digest
        /\ call[c].pc \in Writing /\ call[e].pc \in Writing
        => call[c].digest \in overlapped

\* A writer that is alone with its digest holds the .tmp, empty or complete.
WriterInv ==
    \A c \in Calls :
        call[c].pc \in Holding /\ call[c].digest \notin overlapped =>
            /\ call[c].at = "tmp"
            /\ tmp[call[c].digest] = IF call[c].pc = "fill" THEN "partial" ELSE "whole"

\* What a caller is about to record is there.
WrittenInv ==
    \A c \in Calls :
        call[c].pc = "written" /\ call[c].digest \notin overlapped \cup late
        => blob[call[c].digest] = "whole"

\* What a prune unlinks was not live when it began.
UnlinkInv == \A c \in Calls : call[c].pc = "unlink" => call[c].digest \notin call[c].live

IInv ==
    /\ TypeOK
    /\ DigestInv
    /\ SingleInv
    /\ WriterInv
    /\ WrittenInv
    /\ UnlinkInv
    /\ RecordedIsReadable
    /\ PartialComesFromOverlap
    /\ WritesFailOnlyByOverlap

-------------------------------------------------------------------------------

\* What a step of c does to the calls, when it changes more of c than its pc; the others
\* keep what they work on, and where their open files are is f (Write, Dies, Prune, List,
\* Examine; Rename and Unlink move files).
Becomes(c, pc, d, at, f(_)) ==
    /\ call' \in [Calls -> Call]
    /\ call'[c].pc = pc /\ call'[c].digest = d /\ call'[c].at = at
    /\ \A e \in Calls \ {c} :
          /\ call'[e].pc = call[e].pc /\ call'[e].digest = call[e].digest
          /\ call'[e].live = call[e].live
          /\ call'[e].at = f(e)

At(e) == call[e].at

LEMMA WriteEffect ==
    ASSUME TypeOK, NEW c \in Calls, NEW d \in Digests, Write(c, d)
    PROVE  Becomes(c, "test", d, call[c].at, At)
  <1>1. [call[c] EXCEPT !.pc = "test", !.digest = d] \in Call
    BY DEF TypeOK, Call
  <1> QED  BY <1>1 DEF Write, Becomes, At, TypeOK, Call

LEMMA DiesEffect ==
    ASSUME TypeOK, NEW c \in Calls, Dies(c)
    PROVE  Becomes(c, "killed", call[c].digest, "none", At)
  <1>1. [call[c] EXCEPT !.pc = "killed", !.at = "none"] \in Call
    BY DEF TypeOK, Call, Ended
  <1> QED  BY <1>1 DEF Dies, Becomes, At, TypeOK, Call

LEMMA PruneEffect ==
    ASSUME TypeOK, NEW c \in Calls, Prune(c)
    PROVE  Becomes(c, "list", call[c].digest, call[c].at, At)
  <1>1. [call[c] EXCEPT !.pc = "list", !.live = refs] \in Call
    BY DEF TypeOK, Call
  <1> QED  BY <1>1 DEF Prune, Becomes, At, TypeOK, Call

LEMMA ListEffect ==
    ASSUME TypeOK, NEW c \in Calls, List(c)
    PROVE  Becomes(c, "prune", call[c].digest, call[c].at, At)
  <1>1. Listed \in SUBSET Digests
    BY DEF Listed
  <1>2. [call[c] EXCEPT !.pc = "prune", !.todo = Listed] \in Call
    BY <1>1 DEF TypeOK, Call
  <1> HIDE DEF Listed
  <1> QED  BY <1>2 DEF List, Becomes, At, TypeOK, Call

\* A name that is condemned was not live when the prune began.
LEMMA ExamineEffect ==
    ASSUME TypeOK, NEW c \in Calls, NEW d \in Digests, Examine(c, d)
    PROVE  \/ /\ Becomes(c, "unlink", d, call[c].at, At)
              /\ d \notin call'[c].live
           \/ Becomes(c, "prune", None, call[c].at, At)
  <1> DEFINE r == [call[c] EXCEPT !.todo = call[c].todo \ {d},
                                  !.pc = IF Condemned(c, d) THEN "unlink" ELSE "prune",
                                  !.digest = IF Condemned(c, d) THEN d ELSE None]
  <1>1. /\ r \in Call
        /\ r.at = call[c].at /\ r.live = call[c].live
        /\ \/ r.pc = "unlink" /\ r.digest = d /\ d \notin call[c].live
           \/ r.pc = "prune" /\ r.digest = None
    BY DEF TypeOK, Call, Condemned
  <1>2. call' = [call EXCEPT ![c] = r]
    BY DEF Examine
  <1> HIDE DEF r
  <1> QED  BY <1>1, <1>2 DEF Becomes, At, TypeOK

\* The file of a .tmp that takes its final name stays open where it is written.
LEMMA RenameEffect ==
    ASSUME TypeOK, NEW c \in Calls, Rename(c), tmp[call[c].digest] # "absent"
    PROVE  Becomes(c, "written", call[c].digest, "none", LAMBDA e : Renamed(e, call[c].digest))
  <1> DEFINE d == call[c].digest
  <1> DEFINE r(e) == IF e = c THEN [call[c] EXCEPT !.pc = "written", !.at = "none"]
                     ELSE [call[e] EXCEPT !.at = Renamed(e, d)]
  <1>1. ASSUME NEW e \in Calls
        PROVE  /\ r(e) \in Call /\ r(e).digest = call[e].digest /\ r(e).live = call[e].live
               /\ r(e).pc = (IF e = c THEN "written" ELSE call[e].pc)
               /\ r(e).at = (IF e = c THEN "none" ELSE Renamed(e, d))
    BY DEF TypeOK, Call, Renamed
  <1>2. call' = [e \in Calls |-> r(e)]
    BY DEF Rename
  <1> HIDE DEF r
  <1> QED  BY <1>1, <1>2 DEF Becomes

LEMMA UnlinkEffect ==
    ASSUME TypeOK, NEW c \in Calls, Unlink(c), blob[call[c].digest] # "absent"
    PROVE  Becomes(c, "prune", None, call[c].at, LAMBDA e : Unlinked(e, call[c].digest))
  <1> DEFINE d == call[c].digest
  <1> DEFINE r(e) == IF e = c THEN [call[c] EXCEPT !.pc = "prune", !.digest = None]
                     ELSE [call[e] EXCEPT !.at = Unlinked(e, d)]
  <1>1. ASSUME NEW e \in Calls
        PROVE  /\ r(e) \in Call /\ r(e).live = call[e].live
               /\ r(e).digest = (IF e = c THEN None ELSE call[e].digest)
               /\ r(e).pc = (IF e = c THEN "prune" ELSE call[e].pc)
               /\ r(e).at = (IF e = c THEN call[c].at ELSE Unlinked(e, d))
    BY DEF TypeOK, Call, Unlinked
  <1>2. call' = [e \in Calls |-> r(e)]
    BY DEF Unlink
  <1> HIDE DEF r
  <1> QED  BY <1>1, <1>2 DEF Becomes

\* A step that raises: nobody else notices.
LEMMA RenameRaisesEffect ==
    ASSUME TypeOK, NEW c \in Calls, Rename(c), tmp[call[c].digest] = "absent"
    PROVE  Becomes(c, "raised", call[c].digest, "none", At)
  <1>1. [call[c] EXCEPT !.pc = "raised", !.at = "none"] \in Call
    BY DEF TypeOK, Call, Ended
  <1>2. call' = [call EXCEPT ![c].pc = "raised", ![c].at = "none"]
    BY DEF Rename
  <1> QED  BY <1>1, <1>2 DEF Becomes, At, TypeOK, Call

LEMMA UnlinkRaisesEffect ==
    ASSUME TypeOK, NEW c \in Calls, Unlink(c), blob[call[c].digest] = "absent"
    PROVE  Becomes(c, "raised", None, call[c].at, At)
  <1>1. [call[c] EXCEPT !.pc = "raised", !.digest = None] \in Call
    BY DEF TypeOK, Call, Ended
  <1>2. call' = [call EXCEPT ![c].pc = "raised", ![c].digest = None]
    BY DEF Unlink
  <1> QED  BY <1>1, <1>2 DEF Becomes, At, TypeOK, Call

\* A step after which c neither writes nor has written, and files stay as they are.
LEMMA QuietStep ==
    ASSUME IInv, NEW c \in Calls, NEW pc, NEW d, Becomes(c, pc, d, "none", At),
           pc \notin Writing \cup {"written"},
           pc \in {"test", "unlink"} => d \in Digests,
           pc = "unlink" => d \notin call'[c].live,
           pc = "raised" /\ d # None => d \in overlapped,
           UNCHANGED <<blob, tmp, refs, overlapped, late>>, kills' \in 0..MaxKills
    PROVE  IInv'
  <1> USE DEF IInv, Becomes, At, Writing, WithDigest, Holding
  <1>1. TypeOK'
    BY DEF TypeOK
  <1>2. DigestInv' /\ SingleInv' /\ UnlinkInv'
    BY DEF DigestInv, SingleInv, UnlinkInv
  <1>3. WriterInv' /\ WrittenInv'
    BY DEF WriterInv, WrittenInv
  <1>4. RecordedIsReadable' /\ PartialComesFromOverlap' /\ WritesFailOnlyByOverlap'
    BY DEF RecordedIsReadable, PartialComesFromOverlap, WritesFailOnlyByOverlap
  <1> QED  BY <1>1, <1>2, <1>3, <1>4

LEMMA IInvInit == Init => IInv
  BY BlobAssumption DEF Init, Idle, IInv, TypeOK, DigestInv, SingleInv, WriterInv, WrittenInv, UnlinkInv,
     RecordedIsReadable, PartialComesFromOverlap, WritesFailOnlyByOverlap, Call, Content, Writing,
     Ended, WithDigest, Holding

LEMMA IInvNext == IInv /\ [Next]_vars => IInv'
  <1> SUFFICES ASSUME IInv, [Next]_vars
               PROVE  IInv'
    OBVIOUS
  <1> USE BlobAssumption DEF IInv
  <1> USE DEF TypeOK, DigestInv, SingleInv, WriterInv, WrittenInv, UnlinkInv,
     RecordedIsReadable, PartialComesFromOverlap, WritesFailOnlyByOverlap, Call, Content, Writing,
     Ended, WithDigest, Holding
  <1>1. ASSUME NEW d \in Digests, Supersede(d)
        PROVE  IInv'
    BY <1>1 DEF Supersede
  <1>2. ASSUME NEW c \in Calls, NEW d \in Digests, Write(c, d)
        PROVE  IInv'
    <2>1. call[c].pc = "idle" /\ UNCHANGED <<blob, tmp, refs, overlapped, late, kills>>
      BY <1>2 DEF Write
    <2> QED  BY <1>2, <2>1, WriteEffect, QuietStep
  <1>3. ASSUME NEW c \in Calls, Known(c)
        PROVE  IInv'
    BY <1>3 DEF Known, Exists, Goto
  <1>4. ASSUME NEW c \in Calls, New(c)
        PROVE  IInv'
    BY <1>4 DEF New, Exists, Goto
  <1>5. ASSUME NEW c \in Calls, Open(c)
        PROVE  IInv'
    BY <1>5 DEF Open, Opens, Target
  <1>6. ASSUME NEW c \in Calls, Fill(c)
        PROVE  IInv'
    BY <1>6 DEF Fill, Goto
  <1>7. ASSUME NEW c \in Calls, Rename(c)
        PROVE  IInv'
    <2> DEFINE d == call[c].digest
    <2>1. call[c].pc = "rename" /\ UNCHANGED <<refs, overlapped, late, kills>>
      BY <1>7 DEF Rename
    <2>2. CASE tmp[d] = "absent"
      <3>1. UNCHANGED <<blob, tmp>>
        BY <1>7, <2>2 DEF Rename
      <3> QED  BY <1>7, <2>1, <2>2, <3>1, RenameRaisesEffect, QuietStep
    <2>3. CASE tmp[d] # "absent"
      <3>1. /\ blob' = [blob EXCEPT ![d] = tmp[d]]
            /\ tmp' = [tmp EXCEPT ![d] = "absent"]
        BY <1>7, <2>3 DEF Rename
      <3>2. Becomes(c, "written", d, "none", LAMBDA e : Renamed(e, d))
        BY <1>7, <2>3, RenameEffect
      <3>3. TypeOK'
        BY <2>1, <2>3, <3>1, <3>2 DEF Becomes, Renamed
      <3> HIDE DEF Call, Content
      <3>4. DigestInv' /\ SingleInv' /\ UnlinkInv'
        BY <2>1, <2>3, <3>1, <3>2 DEF Becomes, Renamed
      <3>5. WriterInv' /\ WrittenInv'
        BY <2>1, <2>3, <3>1, <3>2 DEF Becomes, Renamed
      <3>6. RecordedIsReadable' /\ PartialComesFromOverlap' /\ WritesFailOnlyByOverlap'
        BY <2>1, <2>3, <3>1, <3>2 DEF Becomes, Renamed
      <3> QED  BY <3>3, <3>4, <3>5, <3>6
    <2> QED  BY <2>2, <2>3
  <1>8. ASSUME NEW c \in Calls, Record(c)
        PROVE  IInv'
    BY <1>8 DEF Record, Goto
  <1>9. ASSUME NEW c \in Calls, Dies(c)
        PROVE  IInv'
    <2>1. /\ call[c].pc \notin Ended /\ kills' \in 0..MaxKills
          /\ UNCHANGED <<blob, tmp, refs, overlapped, late>>
      BY <1>9 DEF Dies
    <2> QED  BY <1>9, <2>1, DiesEffect, QuietStep
  <1>10. ASSUME NEW c \in Calls, Prune(c)
         PROVE  IInv'
    <2>1. call[c].pc = "idle" /\ UNCHANGED <<blob, tmp, refs, overlapped, late, kills>>
      BY <1>10 DEF Prune
    <2> QED  BY <1>10, <2>1, PruneEffect, QuietStep
  <1>11. ASSUME NEW c \in Calls, List(c)
         PROVE  IInv'
    <2>1. call[c].pc = "list" /\ UNCHANGED <<blob, tmp, refs, overlapped, late, kills>>
      BY <1>11 DEF List
    <2> QED  BY <1>11, <2>1, ListEffect, QuietStep
  <1>12. ASSUME NEW c \in Calls, NEW d \in Digests, Examine(c, d)
         PROVE  IInv'
    <2>1. call[c].pc = "prune" /\ UNCHANGED <<blob, tmp, refs, overlapped, late, kills>>
      BY <1>12 DEF Examine
    <2> QED  BY <1>12, <2>1, ExamineEffect, QuietStep
  <1>13. ASSUME NEW c \in Calls, Unlink(c)
         PROVE  IInv'
    <2> DEFINE d == call[c].digest
    <2>1. call[c].pc = "unlink" /\ UNCHANGED <<tmp, refs, overlapped, kills>>
      BY <1>13 DEF Unlink
    <2>2. CASE blob[d] = "absent"
      <3>1. UNCHANGED <<blob, late>>
        BY <1>13, <2>2 DEF Unlink
      <3> QED  BY <1>13, <2>1, <2>2, <3>1, UnlinkRaisesEffect, QuietStep
    <2>3. CASE blob[d] # "absent"
      <3>1. /\ blob' = [blob EXCEPT ![d] = "absent"]
            /\ late' = late \cup {x \in {d} : Wanted(d) /\ d \notin call[c].live}
        BY <1>13, <2>3 DEF Unlink
      <3>2. Becomes(c, "prune", None, call[c].at, LAMBDA e : Unlinked(e, d))
        BY <1>13, <2>3, UnlinkEffect
      <3>3. TypeOK'
        BY <2>1, <2>3, <3>1, <3>2 DEF Becomes, Unlinked, Wanted
      <3> HIDE DEF Call, Content
      <3>4. DigestInv' /\ SingleInv' /\ UnlinkInv'
        BY <2>1, <2>3, <3>1, <3>2 DEF Becomes, Unlinked, Wanted
      <3>5. WriterInv' /\ WrittenInv'
        BY <2>1, <2>3, <3>1, <3>2 DEF Becomes, Unlinked, Wanted
      <3>6. RecordedIsReadable' /\ PartialComesFromOverlap' /\ WritesFailOnlyByOverlap'
        BY <2>1, <2>3, <3>1, <3>2 DEF Becomes, Unlinked, Wanted
      <3> QED  BY <3>3, <3>4, <3>5, <3>6
    <2> QED  BY <2>2, <2>3
  <1>14. ASSUME NEW c \in Calls, Pruned(c)
         PROVE  IInv'
    BY <1>14 DEF Pruned, Goto
  <1>15. CASE UNCHANGED vars
    BY <1>15 DEF vars
  <1> QED
    BY <1>1, <1>2, <1>3, <1>4, <1>5, <1>6, <1>7, <1>8, <1>9, <1>10, <1>11, <1>12, <1>13,
       <1>14, <1>15 DEF Next

LEMMA IInvAlways == Spec => []IInv
  BY IInvInit, IInvNext, PTL DEF Spec

-------------------------------------------------------------------------------
(* The theorems.                                                           *)

\* The directory, the calls of write and prune_orphans and the records keep their types.
THEOREM TypeCorrect == Spec => []TypeOK
  BY IInvAlways, PTL DEF IInv

\* Any number of writers and prunes, any of which may die halfway: what a stored record
\* refers to is there, whole, unless two writers of it overlapped or it became live while
\* a prune was on its way (write, prune_orphans).
THEOREM RecordedCanBeRead == Spec => []RecordedIsReadable
  BY IInvAlways, PTL DEF IInv

\* Part of a content gets its final name only when two writers of it overlapped: the
\* rename of a writer that is alone publishes all it wrote (BlobStore.write).
THEOREM PartialNeedsOverlap == Spec => []PartialComesFromOverlap
  BY IInvAlways, PTL DEF IInv

\* A write fails only because of another that is at work on the same digest, never
\* because of the .tmp that a dead one left (BlobStore.write).
THEOREM WriteFailureNeedsOverlap == Spec => []WritesFailOnlyByOverlap
  BY IInvAlways, PTL DEF IInv
===============================================================================
