--------------------------- MODULE UpdateFlowProofs ---------------------------
(***************************************************************************)
(* Proofs about UpdateFlow: the types, what the rollback record names and  *)
(* what happens to a local-dev install, for any number of requests,        *)
(* releases and failures.                                                  *)
(***************************************************************************)
EXTENDS UpdateFlow, TLAPS

(***************************************************************************)
(* The inductive invariant.                                                *)
(***************************************************************************)

\* A request between the reading of the version and uv's removal of it.
Pending == {"noted", "opened", "written", "waiting"}

\* It has read a version, which is the installed one unless it is out of date.
NotedInv ==
    \A p \in Posts : post[p].pc \in Pending =>
        /\ post[p].prev # None
        /\ ~post[p].outdated => post[p].prev = Recorded(installed)

\* Whoever has the record open knows of it, and whoever wrote it last finds in it what
\* it wrote.
WriterInv ==
    \A p \in Posts :
        /\ post[p].pc = "opened" => writer \in {p, Broken}
        /\ post[p].pc \in {"written", "waiting"} =>
              /\ writer # None
              /\ writer = p => rollback = post[p].prev

\* The request that replaced a version last is past its own record.
ChangeInv == change.by # None => post[change.by].pc \in {"replacing", "restart_required", "502"}

\* uv leaves no direct_url.json behind, so that the guard does not miss a local-dev install
\* because its metadata is gone for a moment.
MetadataInv == installed = None => editable # "metadata"

\* A local-dev install beside a request that was let through came later, or its
\* direct_url.json cannot be read by now.
Looked == {"guarded", "noted", "opened", "written", "waiting"}
GuardInv ==
    editable # "no" => damaged \/ \A p \in Posts : post[p].pc \in Looked => post[p].late

IInv ==
    /\ TypeOK
    /\ NotedInv
    /\ WriterInv
    /\ ChangeInv
    /\ RecordNamesReplaced
    /\ MetadataInv
    /\ GuardInv

-------------------------------------------------------------------------------

LEMMA NoneIsNoRelease == None \notin Releases
  BY UpdateAssumption DEF Releases

\* A version is always noted as something, "unknown" at the least.
LEMMA RecordedType ==
    ASSUME NEW v \in Releases \cup {None}
    PROVE  Recorded(v) \in Releases \cup {Unknown} /\ Recorded(v) # None
  BY UpdateAssumption DEF Recorded, Releases

\* A step of p's uv that changes what is installed: the others keep all but that what
\* they have read is out of date (Remove, Install).
Replaced(p, pc) ==
    /\ post' \in [Posts -> Post]
    /\ post'[p].pc = pc
    /\ post'[p].prev = post[p].prev /\ post'[p].late = post[p].late
    /\ \A q \in Posts \ {p} :
          /\ post'[q].pc = post[q].pc /\ post'[q].prev = post[q].prev
          /\ post'[q].late = post[q].late
          /\ post[q].prev # None => post'[q].outdated

LEMMA ReplacesEffect ==
    ASSUME TypeOK, NEW p \in Posts, NEW pc \in {"replacing", "restart_required"},
           Replaces(p, pc)
    PROVE  Replaced(p, pc)
  <1> DEFINE rec(q) == IF q = p THEN [post[q] EXCEPT !.pc = pc]
                       ELSE [post[q] EXCEPT !.outdated = @ \/ post[q].prev # None]
  <1>1. ASSUME NEW q \in Posts
        PROVE  /\ rec(q) \in Post
               /\ rec(q).pc = (IF q = p THEN pc ELSE post[q].pc)
               /\ rec(q).prev = post[q].prev /\ rec(q).late = post[q].late
               /\ q # p /\ post[q].prev # None => rec(q).outdated
    <2>1. post[q] \in Post
      BY DEF TypeOK
    <2>2. [post[q] EXCEPT !.pc = pc] \in Post
      BY <2>1 DEF Post, InUv, Answers
    <2>3. (post[q].outdated \/ post[q].prev # None) \in BOOLEAN
      OBVIOUS
    <2>4. \A b \in BOOLEAN : [post[q] EXCEPT !.outdated = b] \in Post
      BY <2>1 DEF Post
    <2> QED  BY <2>1, <2>2, <2>3, <2>4 DEF Post
  <1>2. post' = [q \in Posts |-> rec(q)]
    BY DEF Replaces
  <1> HIDE DEF rec
  <1> QED  BY <1>1, <1>2 DEF Replaced

\* A request that notes the version keeps the rest of what it knows.
LEMMA NoteEffect ==
    ASSUME TypeOK, NEW p \in Posts, Note(p), Recorded(installed) \in Releases \cup {Unknown}
    PROVE  /\ post' \in [Posts -> Post]
           /\ post'[p].pc = "noted" /\ post'[p].prev = Recorded(installed)
           /\ post'[p].late = post[p].late
           /\ \A q \in Posts \ {p} : post'[q] = post[q]
  <1>1. [post[p] EXCEPT !.pc = "noted", !.prev = Recorded(installed)] \in Post
    BY DEF TypeOK, Post, InApp
  <1> QED  BY <1>1 DEF Note, TypeOK, Post

\* A new local-dev install makes the requests under way late and leaves the rest of what
\* they know.
LEMMA DevelopEffect ==
    ASSUME TypeOK, NEW how \in {"marker", "metadata"}, Develop(how)
    PROVE  /\ post' \in [Posts -> Post]
           /\ \A q \in Posts :
                 /\ post'[q].pc = post[q].pc /\ post'[q].prev = post[q].prev
                 /\ post'[q].outdated = post[q].outdated
                 /\ post[q].pc # "idle" => post'[q].late
  <1> DEFINE rec(q) == [post[q] EXCEPT !.late = @ \/ post[q].pc # "idle"]
  <1>1. ASSUME NEW q \in Posts
        PROVE  /\ rec(q) \in Post
               /\ rec(q).pc = post[q].pc /\ rec(q).prev = post[q].prev
               /\ rec(q).outdated = post[q].outdated
               /\ post[q].pc # "idle" => rec(q).late
    <2>1. post[q] \in Post
      BY DEF TypeOK
    <2>2. (post[q].late \/ post[q].pc # "idle") \in BOOLEAN
      OBVIOUS
    <2>3. \A b \in BOOLEAN : [post[q] EXCEPT !.late = b] \in Post
      BY <2>1 DEF Post
    <2> QED  BY <2>1, <2>2, <2>3 DEF Post
  <1>2. post' = [q \in Posts |-> rec(q)]
    BY DEF Develop
  <1> HIDE DEF rec
  <1> QED  BY <1>1, <1>2

LEMMA IInvInit == Init => IInv
  <1> SUFFICES ASSUME Init
               PROVE  IInv
    OBVIOUS
  <1> USE UpdateAssumption DEF Init
  <1>1. TypeOK
    <2>1. post \in [Posts -> Post] /\ \A p \in Posts : post[p].pc = "idle"
      BY DEF Post, Releases
    <2>2. /\ latest \in Releases /\ installed \in Releases \cup {None}
          /\ editable \in {"no", "marker", "metadata"}
          /\ rollback \in Releases \cup {None, Unknown, Broken}
          /\ writer \in Posts \cup {None, Broken}
          /\ faults \in 0..MaxFaults
      BY DEF Releases
    <2>5. ~damaged /\ damaged \in BOOLEAN /\ ((writer = None) <=> (rollback = None))
      OBVIOUS
    <2>3. uv = None /\ \A p \in Posts : p # None
      OBVIOUS
    <2>4. change \in [from : Releases \cup {None}, by : Posts \cup {None}, outdated : BOOLEAN]
      OBVIOUS
    <2> QED  BY <2>1, <2>2, <2>3, <2>4, <2>5 DEF TypeOK
  <1>2. NotedInv /\ WriterInv /\ ChangeInv /\ RecordNamesReplaced
    BY DEF NotedInv, WriterInv, ChangeInv, RecordNamesReplaced, Pending
  <1>3. MetadataInv /\ GuardInv
    BY DEF MetadataInv, GuardInv, Looked, Releases
  <1> QED  BY <1>1, <1>2, <1>3 DEF IInv

LEMMA IInvNext == IInv /\ [Next]_vars => IInv'
  <1> SUFFICES ASSUME IInv, [Next]_vars
               PROVE  IInv'
    OBVIOUS
  <1> USE UpdateAssumption, RecordedType DEF IInv
  <1> USE DEF TypeOK, NotedInv, WriterInv, ChangeInv, RecordNamesReplaced,
     MetadataInv, GuardInv, Looked, Post, InApp, InUv, Answers, Pending
  <1>1. ASSUME NEW p \in Posts, Begin(p)
        PROVE  IInv'
    <2>1. /\ post[p].pc = "idle"
          /\ UNCHANGED <<latest, installed, editable, damaged, rollback, uv, writer, change, faults>>
      BY <1>1 DEF Begin
    <2>2. PICK pc \in {"409", "guarded"} :
            /\ pc = "guarded" => ~LooksEditable
            /\ post' = [post EXCEPT ![p].pc = pc]
      BY <1>1, Zenon DEF Begin, Goto
    <2>3. TypeOK' /\ NotedInv' /\ WriterInv' /\ ChangeInv' /\ RecordNamesReplaced' /\ MetadataInv'
      BY <2>1, <2>2
    <2>4. GuardInv'
      BY <2>1, <2>2 DEF LooksEditable, Looked
    <2> QED  BY <2>3, <2>4
  <1>2. ASSUME NEW p \in Posts, Note(p)
        PROVE  IInv'
    <2>1. post[p].pc = "guarded" /\ UNCHANGED <<latest, installed, editable, damaged, rollback, uv, writer, change, faults>>
      BY <1>2 DEF Note
    <2>2. Recorded(installed) \in Releases \cup {Unknown} /\ Recorded(installed) # None
      OBVIOUS
    <2>3. /\ post' \in [Posts -> Post]
          /\ post'[p].pc = "noted" /\ post'[p].prev = Recorded(installed)
          /\ post'[p].late = post[p].late
          /\ \A q \in Posts \ {p} : post'[q] = post[q]
      BY <1>2, <2>2, NoteEffect
    <2>4. TypeOK'
      BY <2>1, <2>3
    <2>5. NotedInv' /\ WriterInv'
      BY <2>1, <2>2, <2>3
    <2>6. ChangeInv' /\ RecordNamesReplaced' /\ MetadataInv'
      BY <2>1, <2>3
    <2>7. GuardInv'
      BY <2>1, <2>3
    <2> QED  BY <2>4, <2>5, <2>6, <2>7
  <1>3. ASSUME NEW p \in Posts, Open(p)
        PROVE  IInv'
    BY <1>3 DEF Open, Goto
  <1>4. ASSUME NEW p \in Posts, Write(p)
        PROVE  IInv'
    BY <1>4 DEF Write, Goto
  <1>5. ASSUME NEW p \in Posts, Raises(p)
        PROVE  IInv'
    BY <1>5 DEF Raises, Goto, Fault
  <1>6. ASSUME NEW p \in Posts, Dies(p)
        PROVE  IInv'
    BY <1>6 DEF Dies, Goto, Fault
  <1>7. ASSUME NEW p \in Posts, Run(p)
        PROVE  IInv'
    BY <1>7 DEF Run, Goto
  <1>8. ASSUME NEW p \in Posts, Remove(p)
        PROVE  IInv'
    <2>1. /\ post[p].pc = "waiting" /\ uv = None /\ uv' = p /\ installed' = None
          /\ editable' = (IF editable = "metadata" THEN "no" ELSE editable)
          /\ damaged' = FALSE
          /\ change' = [from |-> installed, by |-> p, outdated |-> post[p].outdated]
          /\ UNCHANGED <<latest, rollback, writer, faults>>
      BY <1>8 DEF Remove
    <2>2. Replaced(p, "replacing")
      BY <1>8, ReplacesEffect DEF Remove
    <2>3. TypeOK'
      BY <2>1, <2>2 DEF Replaced
    <2>4. NotedInv' /\ WriterInv' /\ ChangeInv' /\ MetadataInv' /\ GuardInv'
      BY <2>1, <2>2 DEF Replaced
    <2>5. RecordNamesReplaced'
      BY <2>1
    <2> QED  BY <2>3, <2>4, <2>5
  <1>9. ASSUME NEW p \in Posts, Install(p)
        PROVE  IInv'
    <2>1. /\ post[p].pc = "replacing" /\ uv' = None /\ installed' = latest
          /\ UNCHANGED <<latest, editable, damaged, rollback, writer, change, faults>>
          /\ \A q \in Posts : q # p => post[q].pc # "replacing"
      BY <1>9 DEF Install
    <2>2. Replaced(p, "restart_required")
      BY <1>9, ReplacesEffect DEF Install
    <2>3. latest \in Releases /\ latest # None
      BY NoneIsNoRelease
    <2>4. TypeOK'
      <3>1. \A q \in Posts : post'[q].pc # "replacing" /\ q # None
        BY <2>1, <2>2 DEF Replaced
      <3>2. post' \in [Posts -> Post]
        BY <2>2 DEF Replaced
      <3> QED  BY <2>1, <2>3, <3>1, <3>2
    <2>5. NotedInv' /\ WriterInv' /\ ChangeInv' /\ MetadataInv' /\ GuardInv'
      BY <2>1, <2>2, <2>3 DEF Replaced
    <2>6. RecordNamesReplaced'
      BY <2>1
    <2> QED  BY <2>4, <2>5, <2>6
  <1>10. ASSUME NEW p \in Posts, UpToDate(p)
         PROVE  IInv'
    BY <1>10 DEF UpToDate, Goto
  <1>11. ASSUME NEW p \in Posts, UvFails(p)
         PROVE  IInv'
    BY <1>11 DEF UvFails, Goto, Fault
  <1>12. CASE Publish
    BY <1>12 DEF Publish, Releases
  <1>13. ASSUME NEW how \in {"marker", "metadata"}, Develop(how)
         PROVE  IInv'
    <2>1. /\ uv = None /\ installed # None /\ editable = "no" /\ editable' = how
          /\ UNCHANGED <<latest, installed, damaged, rollback, uv, writer, change, faults>>
      BY <1>13 DEF Develop
    <2>2. post' \in [Posts -> Post]
      BY <1>13, DevelopEffect
    <2>3. \A q \in Posts :
            /\ post'[q].pc = post[q].pc /\ post'[q].prev = post[q].prev
            /\ post'[q].outdated = post[q].outdated
            /\ post[q].pc # "idle" => post'[q].late
      BY <1>13, DevelopEffect
    <2>4. TypeOK' /\ MetadataInv' /\ GuardInv'
      BY <2>1, <2>2, <2>3
    <2>5. NotedInv' /\ WriterInv' /\ ChangeInv' /\ RecordNamesReplaced'
      BY <2>1, <2>3
    <2> QED  BY <2>4, <2>5
  <1>14. CASE Damage
    BY <1>14 DEF Damage, Fault
  <1>15. CASE UNCHANGED vars
    BY <1>15 DEF vars
  <1> QED
    BY <1>1, <1>2, <1>3, <1>4, <1>5, <1>6, <1>7, <1>8, <1>9, <1>10, <1>11, <1>12, <1>13,
       <1>14, <1>15 DEF Next

LEMMA IInvAlways == Spec => []IInv
  BY IInvInit, IInvNext, PTL DEF Spec

-------------------------------------------------------------------------------
(* The theorems.                                                           *)

\* The variables of apply_upgrade and of what it works on keep their types; in particular
\* exactly the request whose uv holds the lock is replacing a version.
THEOREM TypeCorrect == Spec => []TypeOK
  BY IInvAlways, PTL DEF IInv

\* However many requests run in however many threads: the rollback record names the
\* version that was replaced, unless another request opened the record since or at the
\* same time, or replaced the version after it was read (suite/update.py:251).
THEOREM RecordIsRight == Spec => []RecordNamesReplaced
  BY IInvAlways, PTL DEF IInv

\* uv takes a local-dev install away only when it became one after the request had looked,
\* or when its direct_url.json cannot be read (is_editable_install, apply_upgrade).
THEOREM LocalDevIsSafe == Spec => LocalDevIsLeftAlone
  <1> DEFINE A == editable # "no" /\ installed # None /\ installed' = None
                    => damaged \/ \E p \in Posts : uv' = p /\ post[p].late
  <1>1. IInv /\ [Next]_vars => [A]_vars
    <2> SUFFICES ASSUME IInv, Next, editable # "no", installed # None, installed' = None
                 PROVE  damaged \/ \E p \in Posts : uv' = p /\ post[p].late
      OBVIOUS
    <2>1. PICK p \in Posts : Remove(p)
      BY NoneIsNoRelease DEF Next, Begin, Note, Open, Write, Raises, Dies, Run, Install, UpToDate, UvFails,
         Publish, Develop, Damage, IInv, TypeOK
    <2> QED  BY <2>1 DEF IInv, GuardInv, Looked, Remove
  <1>2. Spec => [][A]_vars
    BY IInvAlways, <1>1, PTL DEF Spec
  <1> QED  BY <1>2 DEF LocalDevIsLeftAlone
===============================================================================
