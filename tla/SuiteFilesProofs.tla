--------------------------- MODULE SuiteFilesProofs ---------------------------
(***************************************************************************)
(* Proofs about SuiteFiles: the documents implement the abstract section   *)
(* store, an unreadable one comes from a writer that broke off, and        *)
(* put_device keeps the rest of its section, for any number of calls, apps *)
(* and faults.                                                             *)
(***************************************************************************)
EXTENDS SuiteFiles, TLAPS

(***************************************************************************)
(* The inductive invariant.                                                *)
(***************************************************************************)

Active == {"waiting", "locked", "writing"}
Inside == {"locked", "writing", "hung"}

\* A call that has begun knows what it is to do.
Begun(r) ==
    /\ r.pc = "idle" => r.session = 0
    /\ r.pc = "hung" => r.doc \in Docs
    /\ r.pc \in Active =>
          /\ r.op \in Ops /\ r.doc \in Docs /\ r.section \in Sections
          /\ r.op = "write" => r.value \in Values
          /\ r.op = "put_device" => r.doc = "prefs"
          /\ r.op # "put_device" => r.session = 0
          /\ r.op = "put_device" /\ r.session = 1 => r.value \in Values
    /\ r.pc = "writing" => r.op \in {"write", "remove"} \/ (r.op = "put_device" /\ r.session = 1)

BegunInv == \A c \in Calls : Begun(call[c])

\* The call has replaced its section in what it loaded, and nothing else.
OwnSection(r, content) ==
    \E v \in Values \cup {Missing} : r.loaded = [content EXCEPT ![r.section] = v]

\* Whoever is inside a document holds its lock, and has loaded what is there; a writer has
\* changed that, and truncated the file or staged another one.
LockInv ==
    \A c \in Calls : \A d \in Docs : call[c].doc = d =>
        /\ call[c].pc \in Inside => lock[d] = c
        /\ call[c].pc = "locked" => call[c].loaded = Load(d)
        /\ call[c].pc = "writing" =>
              IF Staged(d) THEN OwnSection(call[c], Load(d)) ELSE file[d] = Corrupt

\* An unreadable document is being written, or a writer of it broke off.
CorruptInv ==
    \A d \in Docs : file[d] = Corrupt =>
        /\ ~Staged(d)
        /\ \E e \in Calls : call[e].doc = d /\ call[e].pc \in {"writing", "dead"}

\* put_device holds what its section still is, read through the model, unless another call
\* has written it since or the document was lost.
Holds(r) == \/ Content["prefs"][r.section] = Missing
            \/ r.value = Modelled(r.section, Content["prefs"][r.section])

HeldInv ==
    \A c \in Calls :
        /\ call[c].pc \in {"waiting", "locked"}
        /\ call[c].op = "put_device" /\ call[c].session = 1 /\ ~call[c].stale
        => Holds(call[c])

IInv == TypeOK /\ BegunInv /\ LockInv /\ CorruptInv /\ HeldInv

-------------------------------------------------------------------------------
(* What the documents hold.                                                *)

LEMMA IdleType == Idle \in Call /\ Empty \in Contents
  <1>1. Empty \in Contents
    BY DEF Empty, Contents
  <1> HIDE DEF Empty, Contents
  <1> QED  BY <1>1 DEF Idle, Call, Values

LEMMA ModelledType ==
    ASSUME NEW s \in Sections, NEW v \in Values \cup {Missing}
    PROVE  /\ Modelled(s, v) \in Values
           /\ v # Missing => Modelled(s, v).data = v.data
           /\ v # Missing /\ s # Common => Modelled(s, v) = v
  <1>1. (CHOOSE x \in Data : TRUE) \in Data
    BY FilesAssumption
  <1>2. Defaults \in Values
    BY <1>1 DEF Defaults, Values
  <1> HIDE DEF Defaults
  <1>3. v # Missing => [v EXCEPT !.unknown = FALSE] \in Values
                       /\ [v EXCEPT !.unknown = FALSE].data = v.data
    BY DEF Values
  <1> QED  BY <1>2, <1>3 DEF Modelled

LEMMA LoadType ==
    ASSUME TypeOK, NEW d \in Docs
    PROVE  /\ Load(d) \in Contents
           /\ file[d] = Corrupt => Load(d) = Empty
  BY IdleType DEF TypeOK, Load

\* Whoever is inside a document is alone there, and has loaded what it holds.
LEMMA InsideContent ==
    ASSUME IInv, NEW c \in Calls, call[c].pc \in {"locked", "writing"}
    PROVE  /\ call[c].doc \in Docs
           /\ Writer(call[c].doc) = IF call[c].pc = "writing" THEN {c} ELSE {}
           /\ ~(Staged(call[c].doc) /\ call[c].pc = "writing") => Content[call[c].doc] = call[c].loaded
  <1>1. call[c].doc \in Docs
    BY DEF IInv, BegunInv, Begun, Active
  <1>2. \A e \in Writer(call[c].doc) : e = c
    BY <1>1 DEF IInv, LockInv, Writer, Inside
  <1>3. CASE call[c].pc = "writing"
    <2>1. Writer(call[c].doc) = {c}
      BY <1>2, <1>3 DEF Writer
    <2>2. (CHOOSE e \in Writer(call[c].doc) : TRUE) = c
      BY <2>1
    <2> QED  BY <1>1, <1>3, <2>1, <2>2 DEF Content
  <1>4. CASE call[c].pc = "locked"
    <2>1. Writer(call[c].doc) = {}
      BY <1>2, <1>4 DEF Writer
    <2> QED  BY <1>1, <1>4, <2>1 DEF Content, IInv, LockInv
  <1> QED  BY <1>3, <1>4

LEMMA ContentType == IInv => Content \in [Docs -> Contents]
  <1> SUFFICES ASSUME IInv, NEW d \in Docs
               PROVE  Content[d] \in Contents
    BY DEF Content
  <1>1. CASE Staged(d) \/ Writer(d) = {}
    BY <1>1, LoadType DEF Content, IInv
  <1>2. CASE ~Staged(d) /\ Writer(d) # {}
    <2>1. (CHOOSE e \in Writer(d) : TRUE) \in Calls
      BY <1>2 DEF Writer
    <2>2. \A e \in Calls : call[e].loaded \in Contents
      BY DEF IInv, TypeOK, Call
    <2> QED  BY <1>2, <2>1, <2>2 DEF Content
  <1> QED  BY <1>1, <1>2

\* A step that moves neither the file of d nor a writer of it.
LEMMA SameContent ==
    ASSUME IInv, NEW d \in Docs, file'[d] = file[d],
           \A e \in Calls : /\ e \in Writer(d)' <=> e \in Writer(d)
                            /\ e \in Writer(d) => call'[e].loaded = call[e].loaded
    PROVE  Content'[d] = Content[d]
  <1>1. Writer(d)' = Writer(d)
    BY DEF Writer
  <1>2. Load(d)' = Load(d)
    BY DEF Load
  <1>3. CASE Staged(d) \/ Writer(d) = {}
    BY <1>1, <1>2, <1>3 DEF Content, Staged
  <1>4. CASE ~Staged(d) /\ Writer(d) # {}
    <2>1. (CHOOSE e \in Writer(d) : TRUE) \in Writer(d)
      BY <1>4
    <2>2. Content[d] = call[CHOOSE e \in Writer(d) : TRUE].loaded
      BY <1>4 DEF Content
    <2>3. Content'[d] = call'[CHOOSE e \in Writer(d)' : TRUE].loaded
      BY <1>1, <1>4 DEF Content, Staged
    <2> QED  BY <1>1, <2>1, <2>2, <2>3 DEF Writer
  <1> QED  BY <1>3, <1>4

LEMMA Pointwise ==
    ASSUME \A d \in Docs : Content'[d] = Content[d]
    PROVE  Content' = Content
  BY DEF Content

LEMMA PointwiseChange ==
    ASSUME NEW d \in Docs, NEW x,
           \A e \in Docs : Content'[e] = IF e = d THEN x ELSE Content[e]
    PROVE  Content' = [Content EXCEPT ![d] = x]
  <1>1. Content' = [e \in Docs |-> IF e = d THEN x ELSE Content[e]]
    BY DEF Content
  <1>2. DOMAIN Content = Docs
    BY DEF Content
  <1> QED  BY <1>1, <1>2

-------------------------------------------------------------------------------
(* A step of one call that writes no document: Begin, Enter, GiveUp,       *)
(* Leave, BreaksOff and Hangs.                                             *)

Moves(c, r) ==
    /\ r \in Call /\ Begun(r)
    /\ call' = [call EXCEPT ![c] = r]
    /\ file' = file /\ gone' = gone /\ faults' \in 0..MaxFaults
    /\ lock' \in [Docs -> Calls \cup {None}]
    /\ call[c].pc \in Active \cup {"idle"}
    /\ r.pc # "writing"
    /\ r.pc = "locked" => r.loaded = Load(r.doc)
    /\ call[c].pc = "writing" => r.pc = "dead" /\ r.doc = call[c].doc

\* The locks of the others stay as they are.
MovesLock(c, r) ==
    /\ r.pc \in Inside => lock'[r.doc] = c
    /\ \A e \in Calls \ {c} : call[e].pc \in Inside => lock'[call[e].doc] = lock[call[e].doc]

LEMMA MovesContent ==
    ASSUME IInv, NEW c \in Calls, NEW r, Moves(c, r)
    PROVE  /\ \A d \in Docs : d # call[c].doc \/ call[c].pc # "writing" => Content'[d] = Content[d]
           /\ call[c].pc = "writing" =>
                 /\ call[c].doc \in Docs
                 /\ Content'[call[c].doc] = IF Staged(call[c].doc) THEN Content[call[c].doc] ELSE Empty
  <1>1. \A e \in Calls : call'[e] = IF e = c THEN r ELSE call[e]
    BY DEF Moves, IInv, TypeOK
  <1>2. ASSUME NEW d \in Docs, d # call[c].doc \/ call[c].pc # "writing"
        PROVE  Content'[d] = Content[d]
    <2>1. \A e \in Calls : /\ e \in Writer(d)' <=> e \in Writer(d)
                           /\ e \in Writer(d) => call'[e].loaded = call[e].loaded
      BY <1>1, <1>2 DEF Moves, Writer
    <2> QED  BY <2>1, SameContent DEF Moves
  <1>3. ASSUME call[c].pc = "writing", NEW d, d = call[c].doc
        PROVE  d \in Docs /\ Content'[d] = IF Staged(d) THEN Content[d] ELSE Empty
    <2>1. d \in Docs /\ (Staged(d) => Content[d] = Load(d))
      BY <1>3, InsideContent DEF Content
    <2>2. Writer(d)' = {}
      <3>1. Writer(d) = {c}
        BY <1>3, InsideContent
      <3> QED  BY <1>1, <1>3, <3>1 DEF Moves, Writer
    <2>3. Content'[d] = Load(d)
      BY <2>1, <2>2 DEF Content, Moves, Load
    <2>4. ~Staged(d) => file[d] = Corrupt
      BY <1>3, <2>1 DEF IInv, LockInv
    <2> QED  BY <2>1, <2>3, <2>4, LoadType DEF IInv
  <1> QED  BY <1>2, <1>3

LEMMA MovesInv ==
    ASSUME IInv, NEW c \in Calls, NEW r, Moves(c, r), MovesLock(c, r),
           /\ r.pc \in {"waiting", "locked"} /\ r.op = "put_device" /\ r.session = 1 /\ ~r.stale
           => Holds(r)
    PROVE  IInv'
  <1>1. \A e \in Calls : call'[e] = IF e = c THEN r ELSE call[e]
    BY DEF Moves, IInv, TypeOK
  <1>2. TypeOK'
    BY DEF Moves, IInv, TypeOK
  <1>3. BegunInv'
    BY <1>1 DEF Moves, IInv, BegunInv, Begun
  <1>4. LockInv'
    <2> SUFFICES ASSUME NEW e \in Calls, NEW d \in Docs, call'[e].doc = d
                 PROVE  /\ call'[e].pc \in Inside => lock'[d] = e
                        /\ call'[e].pc = "locked" => call'[e].loaded = Load(d)
                        /\ call'[e].pc = "writing" =>
                              IF Staged(d) THEN OwnSection(call'[e], Load(d)) ELSE file[d] = Corrupt
      <3>1. \A d \in Docs : Load(d)' = Load(d) /\ file'[d] = file[d] /\ Staged(d)' = Staged(d)
        BY DEF Load, Moves, Staged
      <3>2. \A e \in Calls, d \in Docs :
               OwnSection(call[e], Load(d))' <=> OwnSection(call'[e], Load(d))
        BY <3>1 DEF OwnSection
      <3> QED  BY <3>1, <3>2 DEF LockInv
    <2>2. CASE e = c
      BY <1>1, <2>2 DEF Moves, MovesLock
    <2>3. CASE e # c
      BY <1>1, <2>3 DEF MovesLock, IInv, LockInv
    <2> QED  BY <2>2, <2>3
  <1>5. CorruptInv'
    <2> SUFFICES ASSUME NEW d \in Docs, file'[d] = Corrupt
                 PROVE  /\ ~Staged(d)
                        /\ \E e \in Calls : call'[e].doc = d /\ call'[e].pc \in {"writing", "dead"}
      BY DEF CorruptInv, Staged
    <2>1. PICK e \in Calls : ~Staged(d) /\ call[e].doc = d /\ call[e].pc \in {"writing", "dead"}
      BY DEF Moves, IInv, CorruptInv
    <2>2. call'[e].doc = d /\ call'[e].pc \in {"writing", "dead"}
      BY <1>1, <2>1 DEF Moves, Active
    <2> QED  BY <2>1, <2>2
  <1>6. HeldInv'
    <2> SUFFICES ASSUME NEW e \in Calls,
                        call'[e].pc \in {"waiting", "locked"}, call'[e].op = "put_device",
                        call'[e].session = 1, ~call'[e].stale
                 PROVE  \/ Content'["prefs"][call'[e].section] = Missing
                        \/ call'[e].value = Modelled(call'[e].section,
                                                     Content'["prefs"][call'[e].section])
      BY DEF HeldInv, Holds, Modelled
    <2>1. call'[e].section \in Sections
      BY <1>3 DEF BegunInv, Begun, Active
    <2>3. Holds(call'[e])
      BY <1>1 DEF IInv, HeldInv
    <2>2. Content'["prefs"] \in {Content["prefs"], Empty}
      BY MovesContent DEF Docs
    <2> QED  BY <2>1, <2>2, <2>3 DEF Empty, Holds
  <1> QED  BY <1>2, <1>3, <1>4, <1>5, <1>6 DEF IInv

\* A call that ends leaves nothing to hold.
LEMMA EndedType ==
    ASSUME IInv, NEW c \in Calls, NEW pc \in {"hung", "done", "failed", "dead"},
           pc = "hung" => call[c].doc \in Docs
    PROVE  /\ Ended(c, pc) \in Call /\ Begun(Ended(c, pc))
           /\ Ended(c, pc).pc = pc /\ Ended(c, pc).doc = call[c].doc
  <1>1. call[c].doc \in Docs \cup {None}
    BY DEF IInv, TypeOK, Call
  <1>2. Idle \in Call /\ DOMAIN Idle = {"pc", "op", "doc", "section", "value", "device", "session",
                                        "loaded", "stale"}
    BY IdleType DEF Idle
  <1>3. /\ Ended(c, pc) \in Call
        /\ Ended(c, pc).pc = pc /\ Ended(c, pc).doc = call[c].doc
    BY <1>1, <1>2 DEF Ended, Call
  <1> QED  BY <1>3 DEF Begun, Active

LEMMA BeginMoves ==
    ASSUME IInv, NEW c \in Calls, NEW op \in Ops, NEW d \in Docs, NEW s \in Sections,
           NEW v \in Values \cup {Missing}, NEW dev \in Devices \cup {Missing},
           op = "write" => v \in Values, Begin(c, op, d, s, v, dev)
    PROVE  \E r : /\ Moves(c, r) /\ MovesLock(c, r)
                  /\ r.session = 0 /\ r.pc = "waiting" /\ call[c].pc = "idle"
  <1> DEFINE r == [call[c] EXCEPT !.pc = "waiting", !.op = op, !.doc = d, !.section = s,
                                  !.value = v, !.device = dev]
  <1>1. call[c] \in Call /\ call[c].pc = "idle" /\ call[c].session = 0
    BY DEF IInv, TypeOK, BegunInv, Begun, Begin, Idle
  <1>2. r \in Call
    BY <1>1 DEF Call
  <1>3. r.pc = "waiting" /\ r.op = op /\ r.doc = d /\ r.section = s /\ r.value = v /\ r.session = 0
    BY <1>1 DEF Call
  <1>4. call' = [call EXCEPT ![c] = r]
    BY DEF Begin
  <1> HIDE DEF r
  <1>5. Begun(r)
    BY <1>3 DEF Begun, Begin, Active
  <1>6. Moves(c, r)
    BY <1>1, <1>2, <1>3, <1>4, <1>5 DEF Moves, Begin, Active, IInv, TypeOK
  <1> QED  BY <1>1, <1>3, <1>6 DEF MovesLock, Begin, Inside

LEMMA EnterMoves ==
    ASSUME IInv, NEW c \in Calls, Enter(c)
    PROVE  \E r : /\ Moves(c, r) /\ MovesLock(c, r)
                  /\ call[c].pc = "waiting" /\ r.pc = "locked"
                  /\ r.op = call[c].op /\ r.section = call[c].section /\ r.value = call[c].value
                  /\ r.session = call[c].session /\ r.stale = call[c].stale
  <1> DEFINE d == call[c].doc
  <1> DEFINE x == Load(d)
  <1> DEFINE r == [call[c] EXCEPT !.pc = "locked", !.loaded = x]
  <1>1. call[c] \in Call /\ Begun(call[c]) /\ call[c].pc = "waiting" /\ d \in Docs /\ lock[d] = None
    BY DEF IInv, TypeOK, BegunInv, Begun, Active, Enter, LockFree
  <1>2. x \in Contents
    BY <1>1, LoadType DEF IInv
  <1>3. call' = [call EXCEPT ![c] = r]
    BY DEF Enter
  <1>4. lock' = [lock EXCEPT ![d] = c]
    BY DEF Enter
  <1>5. \A e \in Calls : call[e].pc \in Inside => call[e].doc # d
    BY <1>1, FilesAssumption DEF IInv, LockInv
  <1>6. call[c].doc = d /\ x = Load(d)
    OBVIOUS
  <1> HIDE DEF d, x
  <1>7. r \in Call
    BY <1>1, <1>2 DEF Call
  <1>8. /\ r.pc = "locked" /\ r.op = call[c].op /\ r.section = call[c].section /\ r.doc = d
        /\ r.value = call[c].value /\ r.session = call[c].session /\ r.stale = call[c].stale
        /\ r.loaded = x
    BY <1>1, <1>6 DEF Call
  <1> HIDE DEF r
  <1>9. Begun(r)
    BY <1>1, <1>6, <1>8 DEF Begun, Active
  <1>10. Moves(c, r)
    BY <1>1, <1>3, <1>4, <1>6, <1>7, <1>8, <1>9 DEF Moves, Enter, Active, IInv, TypeOK
  <1>11. MovesLock(c, r)
    BY <1>1, <1>4, <1>5, <1>8 DEF MovesLock, Inside, IInv, TypeOK
  <1> QED  BY <1>1, <1>8, <1>10, <1>11

LEMMA LeaveMoves ==
    ASSUME IInv, NEW c \in Calls, Leave(c)
    PROVE  \E r : /\ Moves(c, r) /\ MovesLock(c, r)
                  /\ call[c].pc = "locked" /\ r.pc \in {"waiting", "done"}
                  /\ r.pc = "waiting" =>
                        /\ r.section = call[c].section
                        /\ r.value = Modelled(call[c].section, call[c].loaded[call[c].section])
                        /\ call[c].op = "put_device"
  <1> DEFINE r == NextSession(c)
  <1>1. /\ call[c] \in Call /\ Begun(call[c]) /\ call[c].pc = "locked"
        /\ call[c].doc \in Docs /\ lock[call[c].doc] = c
    BY DEF IInv, TypeOK, BegunInv, LockInv, Begun, Active, Inside, Leave
  <1>2. call' = [call EXCEPT ![c] = r] /\ lock' = [lock EXCEPT ![call[c].doc] = None]
    BY DEF Leave
  <1>3. \A e \in Calls \ {c} : call[e].pc \in Inside => call[e].doc # call[c].doc
    BY <1>1 DEF IInv, LockInv
  <1>4. CASE call[c].session = LastSession(c)
    <2>1. r = Ended(c, "done")
      BY <1>4 DEF NextSession
    <2>2. Moves(c, r)
      BY <1>1, <1>2, <2>1, EndedType DEF Moves, Leave, Active, IInv, TypeOK
    <2>3. MovesLock(c, r)
      BY <1>1, <1>2, <1>3, <2>1, EndedType DEF MovesLock, Inside, IInv, TypeOK
    <2> QED  BY <1>1, <2>1, <2>2, <2>3, EndedType
  <1>5. CASE call[c].session # LastSession(c)
    <2> DEFINE v == Modelled(call[c].section, call[c].loaded[call[c].section])
    <2>1. r = [call[c] EXCEPT !.pc = "waiting", !.session = @ + 1, !.loaded = Empty, !.value = v]
      BY <1>5 DEF NextSession
    <2>2. v \in Values
      BY <1>1, ModelledType DEF Call, Contents, Begun, Active
    <2>3. call[c].op = "put_device" /\ call[c].session + 1 \in 0..2
      BY <1>1, <1>5 DEF Call, Begun, Active, LastSession
    <2>4. v = Modelled(call[c].section, call[c].loaded[call[c].section])
      OBVIOUS
    <2> HIDE DEF v, r
    <2>5. r \in Call
      BY <1>1, <2>1, <2>2, <2>3, IdleType DEF Call
    <2>6. /\ r.pc = "waiting" /\ r.op = call[c].op /\ r.doc = call[c].doc
          /\ r.section = call[c].section /\ r.value = v
      BY <1>1, <2>1 DEF Call
    <2>7. Begun(r)
      BY <1>1, <2>2, <2>3, <2>6 DEF Begun, Active
    <2>8. Moves(c, r)
      BY <1>1, <1>2, <2>5, <2>6, <2>7 DEF Moves, Leave, Active, IInv, TypeOK
    <2>9. MovesLock(c, r)
      BY <1>1, <1>2, <1>3, <2>6 DEF MovesLock, Inside, IInv, TypeOK
    <2> QED  BY <1>1, <2>3, <2>4, <2>6, <2>8, <2>9
  <1> QED  BY <1>4, <1>5

\* GiveUp, ReadFails, BreaksOff and Hangs.
LEMMA EndMoves ==
    ASSUME IInv, NEW c \in Calls, GiveUp(c) \/ ReadFails(c) \/ BreaksOff(c) \/ Hangs(c)
    PROVE  \E r : /\ Moves(c, r) /\ MovesLock(c, r) /\ r.pc \in {"hung", "failed", "dead"}
                  /\ GiveUp(c) \/ ReadFails(c) \/ Hangs(c) => call[c].pc # "writing"
                  /\ call[c].pc \in Active
  <1>1. PICK pc \in {"hung", "failed", "dead"} :
          /\ call' = [call EXCEPT ![c] = Ended(c, pc)]
          /\ pc = "hung" => Hangs(c)
          /\ pc = "failed" => GiveUp(c) \/ ReadFails(c)
          /\ pc = "dead" => BreaksOff(c)
          /\ call[c].pc = "writing" => pc = "dead"
    BY DEF GiveUp, ReadFails, BreaksOff, Hangs, End
  <1>2. /\ call[c] \in Call /\ Begun(call[c]) /\ call[c].pc \in Active /\ call[c].doc \in Docs
        /\ call[c].pc \in Inside => lock[call[c].doc] = c
    BY DEF IInv, TypeOK, BegunInv, LockInv, Begun, Active, GiveUp, ReadFails,
       BreaksOff, Hangs
  <1>3. /\ Ended(c, pc) \in Call /\ Begun(Ended(c, pc))
        /\ Ended(c, pc).pc = pc /\ Ended(c, pc).doc = call[c].doc
    BY <1>2, EndedType
  <1>4. \A e \in Calls \ {c} : call[e].pc \in Inside /\ call[c].pc \in Inside => call[e].doc # call[c].doc
    BY <1>2 DEF IInv, LockInv
  <1>5. faults' \in 0..MaxFaults /\ file' = file /\ gone' = gone
    BY FilesAssumption DEF GiveUp, ReadFails, BreaksOff, Hangs, Fault, IInv, TypeOK
  <1>6. /\ \/ lock' = lock
           \/ /\ lock' = [lock EXCEPT ![call[c].doc] = None]
              /\ call[c].pc \in Inside /\ pc # "hung"
        /\ pc = "hung" => call[c].pc \in Inside
    BY <1>1 DEF GiveUp, ReadFails, BreaksOff, Hangs, Inside
  <1>7. lock' \in [Docs -> Calls \cup {None}]
    BY <1>2, <1>6 DEF IInv, TypeOK
  <1>8. Moves(c, Ended(c, pc))
    BY <1>1, <1>2, <1>3, <1>5, <1>7 DEF Moves
  <1>9. MovesLock(c, Ended(c, pc))
    <2>1. Ended(c, pc).pc \in Inside => pc = "hung"
      BY <1>3 DEF Inside
    <2>2. \A e \in Calls : call[e].pc \in Inside => call[e].doc \in Docs
      BY DEF IInv, BegunInv, Begun, Inside, Active
    <2> QED  BY <1>2, <1>3, <1>4, <1>6, <2>1, <2>2 DEF MovesLock, IInv, TypeOK
  <1> QED  BY <1>2, <1>3, <1>8, <1>9 DEF GiveUp, ReadFails, Hangs

-------------------------------------------------------------------------------
(* The steps of a writer: BeginWrite and FinishWrite.                      *)

\* A section that is written gets a value, or is removed.
LEMMA NewSectionType ==
    ASSUME IInv, NEW c \in Calls, call[c].pc = "locked", Writes(c)
    PROVE  /\ NewSection(c) \in Values \cup {Missing}
           /\ Changed(c) \in Contents
           /\ call[c].op = "write" => NewSection(c) \in Values
  <1>1. /\ call[c].op \in {"write", "remove", "put_device"}
        /\ call[c].op # "remove" => call[c].value \in Values
        /\ call[c].device \in Devices \cup {Missing} /\ call[c].loaded \in Contents
    BY DEF IInv, TypeOK, Call, BegunInv, Begun, Active, Writes
  <1>2. call[c].op # "remove" => [call[c].value EXCEPT !.device = call[c].device] \in Values
    BY <1>1 DEF Values
  <1>3. NewSection(c) \in Values \cup {Missing} /\ (call[c].op = "write" => NewSection(c) \in Values)
    BY <1>1, <1>2 DEF NewSection
  <1> HIDE DEF NewSection
  <1>4. Changed(c) \in Contents
    BY <1>1, <1>3 DEF Changed, Contents
  <1> QED  BY <1>3, <1>4

LEMMA BeginWriteEffect ==
    ASSUME IInv, NEW c \in Calls, BeginWrite(c)
    PROVE  /\ call' \in [Calls -> Call]
           /\ call[c].pc = "locked" /\ call[c].doc \in Docs
           /\ call'[c].pc = "writing" /\ call'[c].loaded = Changed(c)
           /\ call'[c].op = call[c].op /\ call'[c].value = call[c].value
           /\ call'[c].doc = call[c].doc /\ call'[c].section = call[c].section
           /\ \A e \in Calls \ {c} :
                 /\ call'[e].pc = call[e].pc /\ call'[e].op = call[e].op
                 /\ call'[e].doc = call[e].doc /\ call'[e].section = call[e].section
                 /\ call'[e].value = call[e].value /\ call'[e].session = call[e].session
                 /\ call'[e].loaded = call[e].loaded
                 /\ ~call'[e].stale => ~call[e].stale /\ e \notin HoldCopy(c)
           /\ \A e \in Calls : Begun(call'[e])
  <1> DEFINE x == Changed(c)
  <1> DEFINE r(e) == IF e = c THEN [call[c] EXCEPT !.pc = "writing", !.loaded = x]
                     ELSE [call[e] EXCEPT !.stale = @ \/ e \in HoldCopy(c)]
  <1>1. call' = [e \in Calls |-> r(e)]
    BY DEF BeginWrite
  <1>2. call[c] \in Call /\ Begun(call[c]) /\ call[c].pc = "locked" /\ Writes(c)
    BY DEF IInv, TypeOK, BegunInv, BeginWrite
  <1>3. x \in Contents
    BY <1>2, NewSectionType
  <1>4. x = Changed(c)
    OBVIOUS
  <1> HIDE DEF x
  <1>5. /\ r(c) \in Call /\ r(c).pc = "writing" /\ r(c).loaded = x
        /\ r(c).op = call[c].op /\ r(c).value = call[c].value
        /\ r(c).doc = call[c].doc /\ r(c).section = call[c].section
        /\ r(c).session = call[c].session
    BY <1>2, <1>3 DEF Call
  <1>6. Begun(r(c))
    <2> HIDE DEF r
    <2> QED  BY <1>2, <1>5 DEF Begun, Active, Writes
  <1>7. ASSUME NEW e \in Calls \ {c}
        PROVE  /\ r(e) \in Call
               /\ r(e).pc = call[e].pc /\ r(e).op = call[e].op
               /\ r(e).doc = call[e].doc /\ r(e).section = call[e].section
               /\ r(e).value = call[e].value /\ r(e).session = call[e].session
               /\ r(e).loaded = call[e].loaded
               /\ ~r(e).stale => ~call[e].stale /\ e \notin HoldCopy(c)
               /\ Begun(r(e))
    <2>1. call[e] \in Call /\ Begun(call[e])
      BY DEF IInv, TypeOK, BegunInv
    <2>2. PICK b \in BOOLEAN : b <=> (call[e].stale \/ e \in HoldCopy(c))
      OBVIOUS
    <2>3. (call[e].stale \/ e \in HoldCopy(c)) = b
      BY <2>2
    <2> DEFINE q == [call[e] EXCEPT !.stale = b]
    <2>4. r(e) = q
      BY <2>3
    <2>5. /\ q \in Call /\ q.pc = call[e].pc /\ q.op = call[e].op
          /\ q.doc = call[e].doc /\ q.section = call[e].section
          /\ q.value = call[e].value /\ q.session = call[e].session
          /\ q.loaded = call[e].loaded /\ q.stale = b
      BY <2>1 DEF Call
    <2> HIDE DEF q
    <2>6. Begun(q)
      BY <2>1, <2>5 DEF Begun
    <2> QED  BY <2>2, <2>4, <2>5, <2>6
  <1>8. call[c].doc \in Docs
    BY <1>2 DEF Begun, Active
  <1> HIDE DEF r
  <1> QED  BY <1>1, <1>2, <1>4, <1>5, <1>6, <1>7, <1>8

\* A document that is rewritten in place has its new content from here on.
LEMMA BeginWriteContent ==
    ASSUME IInv, NEW c \in Calls, BeginWrite(c)
    PROVE  \A d \in Docs : Content'[d] = IF d = call[c].doc /\ ~Staged(d) THEN Changed(c)
                                        ELSE Content[d]
  <1>1. /\ call[c].pc = "locked" /\ call[c].doc \in Docs
        /\ Content[call[c].doc] = call[c].loaded /\ Writer(call[c].doc) = {}
    BY InsideContent, BeginWriteEffect
  <1>2. /\ call'[c].pc = "writing" /\ call'[c].doc = call[c].doc /\ call'[c].loaded = Changed(c)
        /\ \A e \in Calls \ {c} : /\ call'[e].pc = call[e].pc /\ call'[e].doc = call[e].doc
                                   /\ call'[e].loaded = call[e].loaded
    BY BeginWriteEffect
  <1> SUFFICES ASSUME NEW d \in Docs
               PROVE  Content'[d] = IF d = call[c].doc /\ ~Staged(d) THEN Changed(c) ELSE Content[d]
    OBVIOUS
  <1>3. CASE d = call[c].doc /\ ~Staged(d)
    <2>1. Writer(d)' = {c}
      BY <1>1, <1>2, <1>3 DEF Writer
    <2>2. (CHOOSE e \in {c} : TRUE) = c
      OBVIOUS
    <2>3. Content'[d] = call'[CHOOSE e \in Writer(d)' : TRUE].loaded
      BY <1>3, <2>1 DEF Content, Staged
    <2> QED  BY <1>2, <1>3, <2>1, <2>2, <2>3
  <1>4. CASE Staged(d)
    <2>1. file'[d] = file[d]
      BY <1>1, <1>4 DEF BeginWrite, IInv, TypeOK
    <2> QED  BY <1>4, <2>1 DEF Content, Load, Staged
  <1>5. CASE d # call[c].doc
    <2>1. \A e \in Calls : /\ e \in Writer(d)' <=> e \in Writer(d)
                           /\ e \in Writer(d) => call'[e].loaded = call[e].loaded
      BY <1>1, <1>2, <1>5 DEF Writer
    <2>2. file'[d] = file[d]
      BY <1>1, <1>5 DEF BeginWrite, IInv, TypeOK
    <2> QED  BY <1>5, <2>1, <2>2, SameContent
  <1> QED  BY <1>3, <1>4, <1>5

LEMMA BeginWriteInv ==
    ASSUME IInv, NEW c \in Calls, BeginWrite(c)
    PROVE  IInv'
  <1>1. /\ call[c] \in Call /\ Begun(call[c]) /\ call[c].pc = "locked" /\ call[c].doc \in Docs
        /\ Writes(c) /\ call[c].section \in Sections
        /\ UNCHANGED <<lock, gone, faults>>
    BY DEF IInv, TypeOK, BegunInv, Begun, Active, BeginWrite
  <1>2. \A d \in Docs : /\ d # call[c].doc => file'[d] = file[d]
                        /\ Staged(d) => file'[d] = file[d]
                        /\ d = call[c].doc /\ ~Staged(d) => file'[d] = Corrupt
    BY <1>1 DEF BeginWrite, IInv, TypeOK
  <1>3. TypeOK'
    <2>1. file' \in [Docs -> Contents \cup {Absent, Corrupt}]
      BY <1>1 DEF BeginWrite, IInv, TypeOK
    <2> QED  BY <1>1, <2>1, BeginWriteEffect DEF IInv, TypeOK
  <1>4. BegunInv'
    <2>1. \A e \in Calls : Begun(call'[e])
      BY BeginWriteEffect
    <2> QED  BY <2>1 DEF BegunInv, Begun
  <1>5. LockInv'
    <2> SUFFICES ASSUME NEW e \in Calls, NEW d \in Docs, call'[e].doc = d
                 PROVE  /\ call'[e].pc \in Inside => lock'[d] = e
                        /\ call'[e].pc = "locked" => call'[e].loaded = Load(d)'
                        /\ call'[e].pc = "writing" =>
                              IF Staged(d) THEN OwnSection(call'[e], Load(d)') ELSE file'[d] = Corrupt
      BY DEF LockInv, Staged, OwnSection
    <2>1. file'[d] = file[d] => Load(d)' = Load(d)
      BY DEF Load
    <2>2. CASE e = c
      <3>1. /\ call'[c].pc = "writing" /\ call'[c].section = call[c].section
            /\ call'[c].loaded = Changed(c) /\ d = call[c].doc
        BY <2>2, BeginWriteEffect
      <3>2. lock[d] = c /\ call[c].loaded = Load(d)
        BY <1>1, <3>1 DEF IInv, LockInv, Inside
      <3>3. ASSUME Staged(d)
            PROVE  OwnSection(call'[c], Load(d))
        <4> DEFINE v == NewSection(c)
        <4>1. v \in Values \cup {Missing}
          BY <1>1, NewSectionType
        <4>2. Load(d) \in Contents
          BY LoadType DEF IInv
        <4>3. \A t \in Sections : Changed(c)[t] = IF t = call[c].section THEN v ELSE Load(d)[t]
          BY <3>1, <3>2, <3>3 DEF Changed, Staged
        <4>4. Changed(c) = [t \in Sections |-> Changed(c)[t]]
          BY DEF Changed
        <4> HIDE DEF v
        <4>5. Changed(c) = [Load(d) EXCEPT ![call[c].section] = v]
          BY <4>2, <4>3, <4>4 DEF Contents
        <4> QED  BY <3>1, <4>1, <4>5 DEF OwnSection
      <3> QED  BY <1>1, <1>2, <2>1, <2>2, <3>1, <3>2, <3>3
    <2>3. CASE e # c
      <3>1. /\ call'[e].pc = call[e].pc /\ call'[e].doc = call[e].doc
            /\ call'[e].loaded = call[e].loaded /\ call'[e].section = call[e].section
        BY <2>3, BeginWriteEffect
      <3>2. call[e].pc \in Inside => lock[d] = e /\ d # call[c].doc
        BY <1>1, <2>3, <3>1 DEF IInv, LockInv, Inside
      <3> QED  BY <1>1, <1>2, <2>1, <3>1, <3>2 DEF IInv, LockInv, Inside, OwnSection
    <2> QED  BY <2>2, <2>3
  <1>6. CorruptInv'
    <2> SUFFICES ASSUME NEW d \in Docs, file'[d] = Corrupt
                 PROVE  /\ ~Staged(d)
                        /\ \E e \in Calls : call'[e].doc = d /\ call'[e].pc \in {"writing", "dead"}
      BY DEF CorruptInv, Staged
    <2>1. CASE d = call[c].doc /\ ~Staged(d)
      BY <2>1, BeginWriteEffect
    <2>2. CASE d # call[c].doc \/ Staged(d)
      <3>1. PICK e \in Calls : ~Staged(d) /\ call[e].doc = d /\ call[e].pc \in {"writing", "dead"}
        BY <1>2, <2>2 DEF IInv, CorruptInv
      <3>2. e # c
        BY <1>1, <3>1
      <3> QED  BY <3>1, <3>2, BeginWriteEffect
    <2> QED  BY <2>1, <2>2
  <1>7. HeldInv'
    <2> SUFFICES ASSUME NEW e \in Calls, call'[e].pc \in {"waiting", "locked"},
                        call'[e].op = "put_device", call'[e].session = 1, ~call'[e].stale
                 PROVE  \/ Content'["prefs"][call'[e].section] = Missing
                        \/ call'[e].value = Modelled(call'[e].section,
                                                     Content'["prefs"][call'[e].section])
      BY DEF HeldInv, Holds, Modelled
    <2>1. e # c
      BY BeginWriteEffect
    <2>2. /\ call[e].pc \in {"waiting", "locked"} /\ call[e].op = "put_device"
          /\ call[e].session = 1 /\ ~call[e].stale /\ e \notin HoldCopy(c)
          /\ call'[e].section = call[e].section /\ call'[e].value = call[e].value
          /\ call[e].section \in Sections
      BY <2>1, BeginWriteEffect DEF IInv, BegunInv, Begun, Active
    <2>3. Holds(call[e])
      BY <2>2 DEF IInv, HeldInv
    <2>4. CASE call[c].doc # "prefs"
      <3>1. Content'["prefs"] = Content["prefs"]
        BY <2>4, BeginWriteContent DEF Docs
      <3> QED  BY <2>2, <2>3, <3>1 DEF Holds
    <2>5. CASE call[c].doc = "prefs"
      <3>1. call[e].section # call[c].section
        BY <2>1, <2>2, <2>5 DEF HoldCopy
      <3>2. Content'["prefs"] = Changed(c)
        BY <2>5, BeginWriteContent DEF Docs, Staged
      <3>3. Changed(c)[call[e].section] = call[c].loaded[call[e].section]
        BY <2>2, <2>5, <3>1 DEF Changed
      <3>4. Content["prefs"] = call[c].loaded
        BY <1>1, <2>5, InsideContent
      <3> QED  BY <2>2, <2>3, <3>2, <3>3, <3>4 DEF Holds
    <2> QED  BY <2>4, <2>5
  <1> QED  BY <1>3, <1>4, <1>5, <1>6, <1>7 DEF IInv

\* The call goes on to its next session, or returns.
LEMMA FinishWriteEffect ==
    ASSUME IInv, NEW c \in Calls, FinishWrite(c)
    PROVE  \E r \in Call :
              /\ Begun(r) /\ r.pc \in {"waiting", "done"} /\ r.session # 1 /\ r.doc = call[c].doc
              /\ call' = [call EXCEPT ![c] = r]
              /\ \A e \in Calls : call'[e] = IF e = c THEN r ELSE call[e]
  <1> DEFINE r == NextSession(c)
  <1>1. call[c] \in Call /\ Begun(call[c]) /\ call[c].pc = "writing"
    BY DEF IInv, TypeOK, BegunInv, FinishWrite
  <1>2. call' = [call EXCEPT ![c] = r]
    BY DEF FinishWrite
  <1>3. \A e \in Calls : call'[e] = IF e = c THEN r ELSE call[e]
    BY <1>2 DEF IInv, TypeOK
  <1>4. CASE call[c].session = LastSession(c)
    <2>1. r = Ended(c, "done")
      BY <1>4 DEF NextSession
    <2> HIDE DEF r
    <2>2. r \in Call /\ Begun(r) /\ r.pc = "done" /\ r.doc = call[c].doc
      BY <2>1, EndedType
    <2>3. r.session # 1
      BY <2>1 DEF Ended, Idle
    <2> QED  BY <1>2, <1>3, <2>2, <2>3
  <1>5. CASE call[c].session # LastSession(c)
    <2> DEFINE v == Modelled(call[c].section, call[c].loaded[call[c].section])
    <2>1. r = [call[c] EXCEPT !.pc = "waiting", !.session = @ + 1, !.loaded = Empty, !.value = v]
      BY <1>5 DEF NextSession
    <2>2. v \in Values
      BY <1>1, ModelledType DEF Call, Contents, Begun, Active
    <2>3. call[c].op = "put_device" /\ call[c].session = 1
      BY <1>1, <1>5 DEF Call, Begun, Active, LastSession
    <2> HIDE DEF v, r
    <2> 1 + 1 \in 0..2 /\ 1 + 1 = 2 /\ 2 # 1
      OBVIOUS
    <2>4. r \in Call /\ r.session = 2 /\ r.session # 1
      BY <1>1, <2>1, <2>2, <2>3, IdleType DEF Call
    <2>5. /\ r.pc = "waiting" /\ r.op = call[c].op /\ r.doc = call[c].doc
          /\ r.section = call[c].section /\ r.value = v
      BY <1>1, <2>1 DEF Call
    <2>6. Begun(r)
      BY <1>1, <2>2, <2>3, <2>4, <2>5 DEF Begun, Active
    <2> QED  BY <1>2, <1>3, <2>4, <2>5, <2>6
  <1> QED  BY <1>4, <1>5

\* The staged document gets what its writer made of it; the others have it already.
LEMMA FinishWriteContent ==
    ASSUME IInv, NEW c \in Calls, FinishWrite(c)
    PROVE  \A d \in Docs : Content'[d] = IF d = call[c].doc THEN call[c].loaded ELSE Content[d]
  <1>1. /\ call[c].pc = "writing" /\ call[c].doc \in Docs /\ call[c].loaded \in Contents
        /\ Writer(call[c].doc) = {c}
    BY InsideContent DEF FinishWrite, IInv, TypeOK, Call
  <1>2. PICK r \in Call : /\ r.pc \in {"waiting", "done"}
                          /\ \A e \in Calls : call'[e] = IF e = c THEN r ELSE call[e]
    BY FinishWriteEffect
  <1> SUFFICES ASSUME NEW d \in Docs
               PROVE  Content'[d] = IF d = call[c].doc THEN call[c].loaded ELSE Content[d]
    OBVIOUS
  <1>3. CASE d = call[c].doc
    <2>1. Writer(d)' = {}
      BY <1>1, <1>2, <1>3 DEF Writer
    <2>2. file'[d] = call[c].loaded
      BY <1>1, <1>3 DEF FinishWrite, IInv, TypeOK
    <2>3. file'[d] \notin {Absent, Corrupt}
      BY <1>1, <2>2, FilesAssumption
    <2> QED  BY <1>3, <2>1, <2>2, <2>3 DEF Content, Load
  <1>4. CASE d # call[c].doc
    <2>1. \A e \in Calls : /\ e \in Writer(d)' <=> e \in Writer(d)
                           /\ e \in Writer(d) => call'[e].loaded = call[e].loaded
      BY <1>1, <1>2, <1>4 DEF Writer
    <2>2. file'[d] = file[d]
      BY <1>1, <1>4 DEF FinishWrite, IInv, TypeOK
    <2> QED  BY <1>4, <2>1, <2>2, SameContent
  <1> QED  BY <1>3, <1>4

LEMMA FinishWriteInv ==
    ASSUME IInv, NEW c \in Calls, FinishWrite(c)
    PROVE  IInv'
  <1>1. /\ call[c].pc = "writing" /\ call[c].doc \in Docs /\ call[c].loaded \in Contents
        /\ lock[call[c].doc] = c
    BY DEF FinishWrite, IInv, TypeOK, Call, BegunInv, Begun, Active, LockInv, Inside
  <1>2. PICK r \in Call :
           /\ Begun(r) /\ r.pc \in {"waiting", "done"} /\ r.session # 1 /\ r.doc = call[c].doc
           /\ call' = [call EXCEPT ![c] = r]
           /\ \A e \in Calls : call'[e] = IF e = c THEN r ELSE call[e]
    BY FinishWriteEffect
  <1>3. /\ file' = [file EXCEPT ![call[c].doc] = call[c].loaded]
        /\ lock' = [lock EXCEPT ![call[c].doc] = None]
        /\ gone' = gone /\ faults' = faults
    BY DEF FinishWrite
  <1>4. TypeOK'
    BY <1>1, <1>2, <1>3 DEF IInv, TypeOK
  <1>5. BegunInv'
    BY <1>2 DEF IInv, BegunInv, Begun
  <1>6. \A e \in Calls \ {c} : call[e].pc \in Inside => call[e].doc # call[c].doc
    BY <1>1 DEF IInv, LockInv
  <1>7. \A d \in Docs : d # call[c].doc => /\ file'[d] = file[d] /\ lock'[d] = lock[d]
                                           /\ Load(d)' = Load(d)
    BY <1>3 DEF IInv, TypeOK, Load
  <1>8. LockInv'
    <2> SUFFICES ASSUME NEW e \in Calls, NEW d \in Docs, call'[e].doc = d, call'[e].pc \in Inside
                 PROVE  /\ lock'[d] = e
                        /\ call'[e].pc = "locked" => call'[e].loaded = Load(d)'
                        /\ call'[e].pc = "writing" =>
                              IF Staged(d) THEN OwnSection(call'[e], Load(d)') ELSE file'[d] = Corrupt
      BY DEF LockInv, Staged, Inside, OwnSection
    <2>1. e # c
      BY <1>2 DEF Inside
    <2>2. call'[e] = call[e]
      BY <1>2, <2>1
    <2> QED  BY <1>6, <1>7, <2>1, <2>2 DEF IInv, LockInv, Inside
  <1>9. CorruptInv'
    <2> SUFFICES ASSUME NEW d \in Docs, file'[d] = Corrupt
                 PROVE  /\ ~Staged(d)
                        /\ \E e \in Calls : call'[e].doc = d /\ call'[e].pc \in {"writing", "dead"}
      BY DEF CorruptInv, Staged
    <2>1. d # call[c].doc
      BY <1>1, <1>3, FilesAssumption DEF IInv, TypeOK
    <2>2. PICK e \in Calls : ~Staged(d) /\ call[e].doc = d /\ call[e].pc \in {"writing", "dead"}
      BY <1>7, <2>1 DEF IInv, CorruptInv
    <2> QED  BY <1>2, <2>1, <2>2
  <1>10. HeldInv'
    <2> SUFFICES ASSUME NEW e \in Calls, call'[e].pc \in {"waiting", "locked"},
                        call'[e].op = "put_device", call'[e].session = 1, ~call'[e].stale
                 PROVE  \/ Content'["prefs"][call'[e].section] = Missing
                        \/ call'[e].value = Modelled(call'[e].section,
                                                     Content'["prefs"][call'[e].section])
      BY DEF HeldInv, Holds, Modelled
    <2>1. call'[e] = call[e] /\ Holds(call[e])
      BY <1>2 DEF IInv, HeldInv
    <2>2. Content'["prefs"] = Content["prefs"]
      <3>1. call[c].doc = "prefs" => Content["prefs"] = call[c].loaded
        BY <1>1, InsideContent DEF Staged
      <3> QED  BY <3>1, FinishWriteContent DEF Docs
    <2> QED  BY <2>1, <2>2 DEF Holds
  <1> QED  BY <1>4, <1>5, <1>8, <1>9, <1>10 DEF IInv

-------------------------------------------------------------------------------

LEMMA IInvInit == Init => IInv
  <1> SUFFICES ASSUME Init
               PROVE  IInv
    OBVIOUS
  <1>1. TypeOK
    BY IdleType, FilesAssumption DEF Init, TypeOK
  <1>2. \A c \in Calls : call[c].pc = "idle" /\ call[c].session = 0
    BY DEF Init, Idle
  <1>3. BegunInv /\ LockInv /\ HeldInv
    BY <1>2 DEF BegunInv, Begun, LockInv, HeldInv, Active, Inside
  <1>4. CorruptInv
    BY FilesAssumption DEF Init, CorruptInv
  <1> QED  BY <1>1, <1>3, <1>4 DEF IInv

LEMMA IInvNext == IInv /\ [Next]_vars => IInv'
  <1> SUFFICES ASSUME IInv, [Next]_vars
               PROVE  IInv'
    OBVIOUS
  <1>1. ASSUME NEW c \in Calls, NEW op \in Ops, NEW d \in Docs, NEW s \in Sections,
               NEW v \in Values \cup {Missing}, NEW dev \in Devices \cup {Missing},
               op = "write" => v \in Values, Begin(c, op, d, s, v, dev)
        PROVE  IInv'
    BY <1>1, BeginMoves, MovesInv
  <1>2. ASSUME NEW c \in Calls, Enter(c)
        PROVE  IInv'
    <2>1. PICK r : /\ Moves(c, r) /\ MovesLock(c, r)
                   /\ call[c].pc = "waiting" /\ r.pc = "locked"
                   /\ r.op = call[c].op /\ r.section = call[c].section /\ r.value = call[c].value
                   /\ r.session = call[c].session /\ r.stale = call[c].stale
      BY <1>2, EnterMoves
    <2>2. r.op = "put_device" /\ r.session = 1 /\ ~r.stale => Holds(r)
      BY <2>1 DEF IInv, HeldInv, Holds
    <2> QED  BY <2>1, <2>2, MovesInv
  <1>3. ASSUME NEW c \in Calls, Leave(c)
        PROVE  IInv'
    <2>1. PICK r : /\ Moves(c, r) /\ MovesLock(c, r)
                   /\ call[c].pc = "locked" /\ r.pc \in {"waiting", "done"}
                   /\ r.pc = "waiting" =>
                         /\ r.section = call[c].section
                         /\ r.value = Modelled(call[c].section, call[c].loaded[call[c].section])
                         /\ call[c].op = "put_device"
      BY <1>3, LeaveMoves
    <2>2. call[c].op = "put_device" => Content["prefs"] = call[c].loaded
      BY <2>1, InsideContent DEF IInv, BegunInv, Begun, Active
    <2>3. r.pc = "waiting" => Holds(r)
      BY <2>1, <2>2 DEF Holds
    <2> QED  BY <2>1, <2>3, MovesInv
  <1>4. ASSUME NEW c \in Calls, GiveUp(c) \/ ReadFails(c) \/ BreaksOff(c) \/ Hangs(c)
        PROVE  IInv'
    <2>1. PICK r : Moves(c, r) /\ MovesLock(c, r) /\ r.pc \in {"hung", "failed", "dead"}
      BY <1>4, EndMoves
    <2>2. r.pc \notin Active
      BY <2>1 DEF Active
    <2> QED  BY <2>1, <2>2, MovesInv
  <1>5. ASSUME NEW c \in Calls, BeginWrite(c)
        PROVE  IInv'
    BY <1>5, BeginWriteInv
  <1>6. ASSUME NEW c \in Calls, FinishWrite(c)
        PROVE  IInv'
    BY <1>6, FinishWriteInv
  <1>7. ASSUME NEW a \in Apps, Uninstall(a) \/ Install(a)
        PROVE  IInv'
    <2>1. UNCHANGED <<file, lock, call, faults>> /\ gone' \in SUBSET Apps
      BY <1>7 DEF Uninstall, Install, IInv, TypeOK
    <2>2. Content' = Content
      BY <2>1 DEF Content, Writer, Load
    <2> QED  BY <2>1, <2>2 DEF IInv, TypeOK, BegunInv, LockInv, CorruptInv, HeldInv, Load,
                               Holds, OwnSection
  <1>8. CASE UNCHANGED vars
    <2>1. Content' = Content
      BY <1>8 DEF vars, Content, Writer, Load
    <2> QED  BY <1>8, <2>1 DEF vars, IInv, TypeOK, BegunInv, LockInv, CorruptInv, HeldInv, Load,
                               Holds, OwnSection
  <1>9. CASE \E c \in Calls, d \in Docs, s \in Sections :
                 \/ Begin(c, "read", d, s, Missing, Missing)
                 \/ Begin(c, "remove", d, s, Missing, Missing)
                 \/ \E v \in Written : Begin(c, "write", d, s, v, Missing)
                 \/ \E dev \in Devices \cup {Missing} : Begin(c, "put_device", d, s, Missing, dev)
    BY <1>1, <1>9, FilesAssumption DEF Ops
  <1> QED
    BY <1>2, <1>3, <1>4, <1>5, <1>6, <1>7, <1>8, <1>9 DEF Next, Step

LEMMA IInvAlways == Spec => []IInv
  BY IInvInit, IInvNext, PTL DEF Spec

\* Every step of a call is one of the three kinds.
LEMMA NextCases ==
    ASSUME IInv, Next
    PROVE  \/ \E c \in Calls : \E r : Moves(c, r)
           \/ \E c \in Calls : BeginWrite(c) \/ FinishWrite(c)
           \/ UNCHANGED call
  <1>1. ASSUME NEW c \in Calls, NEW d \in Docs, NEW s \in Sections,
               \/ Begin(c, "read", d, s, Missing, Missing)
               \/ Begin(c, "remove", d, s, Missing, Missing)
               \/ \E v \in Written : Begin(c, "write", d, s, v, Missing)
               \/ \E dev \in Devices \cup {Missing} : Begin(c, "put_device", d, s, Missing, dev)
        PROVE  \E r : Moves(c, r)
    BY <1>1, BeginMoves, FilesAssumption DEF Ops
  <1>2. ASSUME NEW a \in Apps, Uninstall(a) \/ Install(a)
        PROVE  UNCHANGED call
    BY <1>2 DEF Uninstall, Install
  <1> QED  BY <1>1, <1>2, EnterMoves, LeaveMoves, EndMoves DEF Next, Step

-------------------------------------------------------------------------------
(* The refinement: what the steps do to the abstract section store.        *)

\* A step that nobody can see in the store, but for the failure it may be.
LEMMA QuietRefines ==
    ASSUME IInv, NEW c \in Calls, NEW r, Moves(c, r), call[c].pc # "writing"
    PROVE  Content' = Content
  BY MovesContent, Pointwise

LEMMA BreaksOffRefines ==
    ASSUME IInv, NEW c \in Calls, BreaksOff(c)
    PROVE  Store!StoreNext
  <1>1. PICK r : Moves(c, r)
    BY EndMoves
  <1>2. faults' = faults + 1 /\ gone' = gone
    BY DEF BreaksOff, Fault
  <1>3. CASE call[c].pc # "writing" \/ Staged(call[c].doc)
    <2>1. Content' = Content
      BY <1>1, <1>3, MovesContent, Pointwise
    <2> QED  BY <1>2, <2>1 DEF Store!StoreNext, Store!FailureWithoutLoss
  <1>4. CASE call[c].pc = "writing" /\ ~Staged(call[c].doc)
    <2>1. PICK d : d = call[c].doc
      OBVIOUS
    <2>2. d \in Docs /\ Content'[d] = Empty
      BY <1>1, <1>4, <2>1, MovesContent
    <2>3. \A e \in Docs : Content'[e] = IF e = d THEN Empty ELSE Content[e]
      BY <1>1, <2>1, <2>2, MovesContent
    <2>4. Content' = [Content EXCEPT ![d] = [s \in Sections |-> Missing]]
      BY <2>2, <2>3, PointwiseChange DEF Empty
    <2>5. d # "shared_paths"
      BY <1>4, <2>1 DEF Staged
    <2>6. Store!LoseAll(d)
      BY <1>2, <2>2, <2>4, <2>5 DEF Store!LoseAll
    <2> QED  BY <2>2, <2>6 DEF Store!StoreNext
  <1> QED  BY <1>3, <1>4

\* A writer replaces its section and nothing else; registering drops what is gone as well.
\* That is lost or seen from the moment the file is opened on.
LEMMA BeginWriteRefines ==
    ASSUME IInv, NEW c \in Calls, BeginWrite(c)
    PROVE  Store!StoreNext \/ UNCHANGED <<Content, gone, faults>>
  <1> DEFINE d == call[c].doc
             s == call[c].section
             v == NewSection(c)
  <1>1. /\ call[c].pc = "locked" /\ Writes(c) /\ d \in Docs /\ s \in Sections
        /\ call[c].op \in {"write", "remove", "put_device"}
        /\ call[c].op = "put_device" => d = "prefs"
        /\ gone' = gone /\ faults' = faults
    BY DEF IInv, BegunInv, Begun, Active, BeginWrite, Writes
  <1>2. v \in Values \cup {Missing} /\ (call[c].op = "write" => v \in Values)
    BY <1>1, NewSectionType
  <1>3. CASE Staged(d)
    <2>1. \A e \in Docs : Content'[e] = Content[e]
      BY <1>3, BeginWriteContent
    <2> QED  BY <1>1, <2>1, Pointwise
  <1>4. CASE ~Staged(d)
    <2>1. \A e \in Docs : Content'[e] = IF e = d THEN Changed(c) ELSE Content[e]
      BY <1>4, BeginWriteContent
    <2>2. Content' = [Content EXCEPT ![d] = Changed(c)]
      BY <1>1, <2>1, PointwiseChange
    <2>3. Content[d] = call[c].loaded
      BY <1>1, InsideContent
    <2>4. v # Missing /\ d = "registry" <=> call[c].op = "write" /\ d = "registry"
      BY <1>1, <1>2, FilesAssumption DEF NewSection
    <2>5. Changed(c) = [t \in Sections |-> IF t = s THEN v
                                           ELSE IF d \in {"registry"} /\ v # Missing /\ t \in gone
                                                THEN Missing ELSE Content[d][t]]
      BY <2>3, <2>4 DEF Changed
    <2>6. Content'[d] = Changed(c) /\ Changed(c)[s] = v
      BY <1>1, <2>1, <2>5
    <2>7. Store!Replace(d, s, v)
      BY <1>1, <2>2, <2>5, <2>6 DEF Store!Replace
    <2> QED  BY <1>1, <1>2, <2>7 DEF Store!StoreNext
  <1> QED  BY <1>3, <1>4

\* The rename replaces the section of a staged document.
LEMMA FinishWriteRefines ==
    ASSUME IInv, NEW c \in Calls, FinishWrite(c)
    PROVE  Store!StoreNext \/ UNCHANGED <<Content, gone, faults>>
  <1> DEFINE d == call[c].doc
             s == call[c].section
  <1>1. /\ call[c].pc = "writing" /\ d \in Docs /\ s \in Sections
        /\ gone' = gone /\ faults' = faults
    BY DEF IInv, BegunInv, Begun, Active, FinishWrite
  <1>2. CASE ~Staged(d)
    <2>1. Content[d] = call[c].loaded
      BY <1>1, <1>2, InsideContent
    <2>2. \A e \in Docs : Content'[e] = Content[e]
      BY <2>1, FinishWriteContent
    <2> QED  BY <1>1, <2>2, Pointwise
  <1>3. CASE Staged(d)
    <2>1. \A e \in Docs : Content'[e] = IF e = d THEN call[c].loaded ELSE Content[e]
      BY FinishWriteContent
    <2>2. Content' = [Content EXCEPT ![d] = call[c].loaded]
      BY <1>1, <2>1, PointwiseChange
    <2>3. Content[d] = Load(d) /\ Load(d) \in Contents
      BY <1>1, <1>3, LoadType DEF Content, IInv
    <2>4. PICK v \in Values \cup {Missing} : call[c].loaded = [Load(d) EXCEPT ![s] = v]
      BY <1>1, <1>3 DEF IInv, LockInv, OwnSection
    <2>5. d \notin {"registry"}
      BY <1>3 DEF Staged
    <2>6. /\ call[c].loaded = [t \in Sections |-> IF t = s THEN v
                                           ELSE IF d \in {"registry"} /\ v # Missing /\ t \in gone
                                                THEN Missing ELSE Content[d][t]]
          /\ call[c].loaded[s] = v
      BY <1>1, <2>3, <2>4, <2>5 DEF Contents
    <2>7. Content'[d][s] = v
      BY <1>1, <2>1, <2>6
    <2>8. Store!Replace(d, s, v)
      BY <1>1, <2>2, <2>6, <2>7 DEF Store!Replace
    <2> QED  BY <1>1, <2>8 DEF Store!StoreNext
  <1> QED  BY <1>2, <1>3

LEMMA StepRefines == IInv /\ [Next]_vars => [Store!StoreNext]_(Store!storeVars)
  <1> SUFFICES ASSUME IInv, [Next]_vars
               PROVE  Store!StoreNext \/ UNCHANGED <<Content, gone, faults>>
    BY DEF Store!storeVars
  <1>1. ASSUME NEW c \in Calls, NEW op \in Ops, NEW d \in Docs, NEW s \in Sections,
               NEW v \in Values \cup {Missing}, NEW dev \in Devices \cup {Missing},
               op = "write" => v \in Values, Begin(c, op, d, s, v, dev)
        PROVE  UNCHANGED <<Content, gone, faults>>
    <2>1. call[c].pc # "writing" /\ UNCHANGED <<gone, faults>>
      BY <1>1 DEF Begin
    <2>2. \E r : Moves(c, r)
      BY <1>1, BeginMoves
    <2> QED  BY <2>1, <2>2, QuietRefines
  <1>2. ASSUME NEW c \in Calls, Enter(c)
        PROVE  UNCHANGED <<Content, gone, faults>>
    <2>1. call[c].pc # "writing" /\ UNCHANGED <<gone, faults>>
      BY <1>2 DEF Enter
    <2>2. \E r : Moves(c, r)
      BY <1>2, EnterMoves
    <2> QED  BY <2>1, <2>2, QuietRefines
  <1>3. ASSUME NEW c \in Calls, Leave(c)
        PROVE  UNCHANGED <<Content, gone, faults>>
    <2>1. call[c].pc # "writing" /\ UNCHANGED <<gone, faults>>
      BY <1>3 DEF Leave
    <2>2. \E r : Moves(c, r)
      BY <1>3, LeaveMoves
    <2> QED  BY <2>1, <2>2, QuietRefines
  <1>4. ASSUME NEW c \in Calls, GiveUp(c) \/ ReadFails(c)
        PROVE  UNCHANGED <<Content, gone, faults>>
    <2>1. call[c].pc # "writing" /\ UNCHANGED <<gone, faults>>
      BY <1>4 DEF GiveUp, ReadFails
    <2>2. \E r : Moves(c, r)
      BY <1>4, EndMoves
    <2> QED  BY <2>1, <2>2, QuietRefines
  <1>5. ASSUME NEW c \in Calls, Hangs(c)
        PROVE  Store!StoreNext
    <2>1. call[c].pc # "writing" /\ gone' = gone /\ faults' = faults + 1
      BY <1>5 DEF Hangs, Fault
    <2>2. \E r : Moves(c, r)
      BY <1>5, EndMoves
    <2>3. Content' = Content
      BY <2>1, <2>2, QuietRefines
    <2> QED  BY <2>1, <2>3 DEF Store!StoreNext, Store!FailureWithoutLoss
  <1>6. ASSUME NEW c \in Calls, BeginWrite(c)
        PROVE  Store!StoreNext \/ UNCHANGED <<Content, gone, faults>>
    BY <1>6, BeginWriteRefines
  <1>10. ASSUME NEW c \in Calls, FinishWrite(c)
        PROVE  Store!StoreNext \/ UNCHANGED <<Content, gone, faults>>
    BY <1>10, FinishWriteRefines
  <1>7. ASSUME NEW a \in Apps, Uninstall(a) \/ Install(a)
        PROVE  Store!StoreNext
    <2>1. UNCHANGED <<file, lock, call, faults>> /\ gone' # gone
      BY <1>7 DEF Uninstall, Install
    <2>2. Content' = Content
      BY <2>1 DEF Content, Writer, Load
    <2> QED  BY <2>1, <2>2 DEF Store!StoreNext, Store!AppsComeAndGo
  <1>8. CASE UNCHANGED vars
    BY <1>8 DEF vars, Content, Writer, Load
  <1>9. CASE \E c \in Calls, d \in Docs, s \in Sections :
                 \/ Begin(c, "read", d, s, Missing, Missing)
                 \/ Begin(c, "remove", d, s, Missing, Missing)
                 \/ \E v \in Written : Begin(c, "write", d, s, v, Missing)
                 \/ \E dev \in Devices \cup {Missing} : Begin(c, "put_device", d, s, Missing, dev)
    BY <1>1, <1>9, FilesAssumption DEF Ops
  <1> QED
    BY <1>2, <1>3, <1>4, <1>5, <1>6, <1>7, <1>8, <1>9, <1>10, BreaksOffRefines DEF Next, Step

-------------------------------------------------------------------------------
(* The theorems.                                                           *)

\* The documents, their locks and the calls keep their types: a document on disk is absent,
\* unreadable or a map of well-formed sections.
THEOREM TypeCorrect == Spec => []TypeOK
  BY IInvAlways, PTL DEF IInv

\* Under its lock nobody finds an unreadable document, unless a writer of it broke off:
\* neither readers nor writers ever see another one at work (_locked, FileLock), and the
\* shared paths, which are renamed into place, are never unreadable.
THEOREM UnreadableNeedsFailure == Spec => []CorruptOnlyByFailure
  <1>1. IInv => CorruptOnlyByFailure
    <2> SUFFICES ASSUME IInv, NEW c \in Calls, NEW d \in Docs,
                        call[c].pc = "locked", call[c].doc = d, file[d] = Corrupt
                 PROVE  ~Staged(d) /\ \E e \in Calls : call[e].pc = "dead" /\ call[e].doc = d
      BY DEF CorruptOnlyByFailure
    <2>1. PICK e \in Calls : ~Staged(d) /\ call[e].doc = d /\ call[e].pc \in {"writing", "dead"}
      BY DEF IInv, CorruptInv
    <2>2. call[e].pc # "writing"
      BY <2>1 DEF IInv, LockInv, Inside
    <2> QED  BY <2>1, <2>2
  <1> QED  BY IInvAlways, <1>1, PTL

\* The three documents implement the abstract section store: a call replaces its section
\* and nothing else, calls for other sections survive, registering drops only apps that
\* are gone, and only failures lose anything (prefs, registry, shared_paths).
THEOREM FilesImplementStore == Spec => ImplementsStore
  <1>1. Init => Store!StoreInit
    <2> SUFFICES ASSUME Init
                 PROVE  Store!StoreInit
      OBVIOUS
    <2>1. \A d \in Docs : Writer(d) = {}
      BY DEF Init, Idle, Writer
    <2>2. Content = [d \in Docs |-> [s \in Sections |-> Missing]]
      BY <2>1 DEF Init, Content, Load, Empty
    <2> QED  BY <2>2 DEF Init, Store!StoreInit
  <1>2. Spec => Store!StoreSpec
    BY <1>1, IInvAlways, StepRefines, PTL DEF Spec, Store!StoreSpec
  <1> QED  BY <1>2 DEF ImplementsStore

\* PUT /api/suite/device writes back the section it finds, with the device replaced, unless
\* another call wrote that section between its read and its write; of the common section
\* what CommonUIPrefs has no field for is lost, of no other (put_device, get_common).
THEOREM PutDeviceKeepsTheRest == Spec => DevicePutKeepsTheRest
  <1> DEFINE A == \A c \in Calls :
         LET s   == call[c].section
             old == call[c].loaded[s]
             new == call'[c].loaded[s] IN
         /\ call[c].op = "put_device" /\ call[c].pc = "locked" /\ call'[c].pc = "writing"
         /\ old # Missing /\ ~call[c].stale
         => /\ new.data = old.data
            /\ new.unknown # old.unknown => s = Common
  <1>1. IInv /\ [Next]_vars => [A]_vars
    <2> SUFFICES ASSUME IInv, Next, NEW c \in Calls, NEW s, NEW old, NEW new,
                        s = call[c].section, old = call[c].loaded[s], new = call'[c].loaded[s],
                        call[c].op = "put_device", call[c].pc = "locked",
                        call'[c].pc = "writing", old # Missing, ~call[c].stale
                 PROVE  new.data = old.data /\ (new.unknown # old.unknown => s = Common)
      OBVIOUS
    <2>1. CASE \E e \in Calls : \E r : Moves(e, r)
      <3>1. PICK e \in Calls : \E r : Moves(e, r)
        BY <2>1
      <3>2. PICK r : Moves(e, r)
        BY <3>1
      <3>3. call'[c] = IF e = c THEN r ELSE call[c]
        BY <3>2 DEF Moves, IInv, TypeOK
      <3> QED  BY <3>2, <3>3 DEF Moves
    <2>2. CASE \E e \in Calls \ {c} : BeginWrite(e)
      BY <2>2, BeginWriteEffect
    <2>3. CASE BeginWrite(c)
      <3>1. /\ call[c].session = 1 /\ call[c].doc = "prefs" /\ s \in Sections
            /\ call[c].value \in Values /\ call[c].device \in Devices \cup {Missing}
            /\ call[c].loaded \in Contents
        BY <2>3 DEF IInv, TypeOK, Call, BegunInv, Begun, Active, BeginWrite, Writes
      <3>2. old = Content["prefs"][s]
        BY <3>1, InsideContent
      <3>3. call[c].value = Modelled(s, old)
        BY <3>1, <3>2 DEF IInv, HeldInv, Holds
      <3>4. new = NewSection(c)
        BY <2>3, <3>1, BeginWriteEffect DEF Changed
      <3>5. new = [call[c].value EXCEPT !.device = call[c].device]
        BY <3>4 DEF NewSection
      <3>6. new.data = call[c].value.data /\ new.unknown = call[c].value.unknown
        BY <3>1, <3>5 DEF Values
      <3>7. old \in Values \cup {Missing}
        BY <3>1 DEF Contents
      <3> QED  BY <3>1, <3>3, <3>6, <3>7, ModelledType
    <2>4. CASE \E e \in Calls : FinishWrite(e)
      <3>1. PICK e \in Calls : FinishWrite(e)
        BY <2>4
      <3>2. PICK r : r.pc \in {"waiting", "done"} /\ call'[c] = IF c = e THEN r ELSE call[c]
        BY <3>1, FinishWriteEffect
      <3> QED  BY <3>2
    <2>5. CASE UNCHANGED call
      BY <2>5
    <2> QED  BY <2>1, <2>2, <2>3, <2>4, <2>5, NextCases
  <1>2. Spec => [][A]_vars
    BY IInvAlways, <1>1, PTL DEF Spec
  <1> QED  BY <1>2 DEF DevicePutKeepsTheRest
===============================================================================
