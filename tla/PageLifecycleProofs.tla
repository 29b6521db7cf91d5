------------------------- MODULE PageLifecycleProofs --------------------------
(***************************************************************************)
(* Proofs about PageLifecycle: no lost update and no gap, for any number   *)
(* of copies, versions, snapshots and failed saves; then, on top of that,  *)
(* that the records are the replays of the events.  A replay is a function *)
(* by recursion on the version: what holds of it is shown by taking the    *)
(* least version where it would not.                                       *)
(***************************************************************************)
EXTENDS PageLifecycle, WellFoundedInduction, SequenceTheorems, TLAPS

(***************************************************************************)
(* The inductive invariant.                                                *)
(***************************************************************************)

Fields == {"live", "events", "loaded", "drained", "record", "shared", "spoilt"}

ShapeInv ==
    /\ stored \in [Versions -> Event \cup {None}]
    /\ \A v \in Versions : stored[v] # None => Recorded(stored[v]) = stored[v]
    /\ creation \in Creations
    /\ DOMAIN copy = Copies
    /\ \A c \in Copies :
          /\ DOMAIN copy[c] = Fields
          /\ copy[c].events \in Seq(Event) /\ Len(copy[c].events) <= MaxVersion
          /\ copy[c].loaded \in Nat
          /\ copy[c].drained \in 0..Len(copy[c].events)

\* What a copy no longer has pending is what is stored, unless a save of it failed.
SavedInv ==
    \A c \in Copies : "save" \notin copy[c].spoilt =>
        \A u \in 1..copy[c].drained : stored[u] # None /\ Recorded(copy[c].events[u]) = stored[u]

\* What a writer that lost nothing stored follows on all it had seen.
SeenInv ==
    \A v \in Stored(stored) : ~origin[v].lost =>
        /\ 1..v \subseteq Stored(stored)
        /\ origin[v].seen = Upto(stored, v - 1)

\* A snapshot has all events up to its version below it, so that no gap hides there.
SnapInv == \A v \in Versions : snap[v] # None => 1..v \subseteq Stored(stored)

IInv == ShapeInv /\ SavedInv /\ SeenInv /\ SnapInv

-------------------------------------------------------------------------------
(* The newest version and the newest snapshot.                             *)

LEMMA MaxOfBounded ==
    ASSUME NEW n \in Nat, NEW S \in SUBSET (0..n), S # {}
    PROVE  Max(S) \in S /\ \A x \in S : Max(S) >= x
  <1> DEFINE T == {m \in Nat : n - m \in S}
  <1>1. \A x \in S : n - x \in T
    <2>1. ASSUME NEW x \in S
          PROVE  n - x \in Nat /\ n - (n - x) = x
      OBVIOUS
    <2> QED  BY <2>1
  <1>2. T # {} /\ T \subseteq Nat
    BY <1>1
  <1>3. PICK m \in T : \A k \in T : ~(<<k, m>> \in OpToRel(<, Nat))
    <2> HIDE DEF T
    <2> QED  BY <1>2, WFMin, NatLessThanWellFounded
  <1>4. \A k \in T : ~(k < m)
    BY <1>3 DEF OpToRel
  <1>5. n - m \in S /\ m \in Nat
    BY <1>3
  <1>6. ASSUME NEW x \in S
        PROVE  n - m >= x
    <2>1. ~(n - x < m)
      BY <1>1, <1>4
    <2>2. x \in Nat
      OBVIOUS
    <2> HIDE DEF T
    <2> QED  BY <1>5, <2>1, <2>2
  <1> QED  BY <1>5, <1>6 DEF Max

LEMMA NewestStored ==
    ASSUME NEW events \in [Versions -> Event \cup {None}]
    PROVE  /\ Newest(events) \in {0} \cup Stored(events)
           /\ \A v \in Stored(events) : Newest(events) >= v
  <1>1. {0} \cup Stored(events) \in SUBSET (0..MaxVersion) /\ MaxVersion \in Nat
    BY PageAssumption DEF Stored, Versions
  <1> QED  BY <1>1, MaxOfBounded DEF Newest

LEMMA BaseIsSnapshot ==
    ASSUME NEW snaps, NEW v \in 0..MaxVersion
    PROVE  /\ Base(snaps, v) \in 0..v
           /\ Base(snaps, v) # 0 => snaps[Base(snaps, v)] # None
  <1>1. {0} \cup {u \in 1..v : snaps[u] # None} \in SUBSET (0..v) /\ v \in Nat
    BY PageAssumption
  <1>2. Base(snaps, v) \in {0} \cup {u \in 1..v : snaps[u] # None}
    BY <1>1, MaxOfBounded DEF Base
  <1> QED  BY <1>1, <1>2

\* Where snapshots hide no gap, what can be read has none.
LEMMA ReadableHasNoGap ==
    ASSUME NEW events, NEW snaps, NEW v \in 0..MaxVersion, Readable(events, snaps, v),
           \A u \in Versions : snaps[u] # None => \A w \in 1..u : events[w] # None
    PROVE  \A u \in 1..v : events[u] # None
  <1> SUFFICES ASSUME NEW u \in 1..v
               PROVE  events[u] # None
    OBVIOUS
  <1> DEFINE b == Base(snaps, v)
  <1>1. b \in 0..v /\ (b # 0 => snaps[b] # None)
    BY BaseIsSnapshot
  <1>2. \A w \in b + 1 .. v : events[w] # None
    BY DEF Readable
  <1> HIDE DEF b
  <1>3. CASE u <= b
    <2>1. b \in Versions /\ u \in 1..b
      BY <1>1, <1>3, PageAssumption DEF Versions
    <2> QED  BY <1>1, <2>1
  <1>4. CASE ~(u <= b)
    <2>1. u \in b + 1 .. v
      BY <1>1, <1>4
    <2> QED  BY <1>2, <2>1
  <1> QED  BY <1>3, <1>4

-------------------------------------------------------------------------------
(* The steps that leave the store alone: what they do to the copy c.       *)

Effect(c, events, loaded, drained, spoilt) ==
    /\ DOMAIN copy' = Copies
    /\ \A d \in Copies \ {c} : copy'[d] = copy[d]
    /\ DOMAIN copy'[c] = Fields
    /\ copy'[c].events = events /\ copy'[c].loaded = loaded
    /\ copy'[c].drained = drained /\ copy'[c].spoilt = spoilt

Fits(events, loaded, drained) ==
    /\ events \in Seq(Event) /\ Len(events) <= MaxVersion
    /\ loaded \in Nat /\ drained \in 0..Len(events)

Saved(events, drained, spoilt) ==
    "save" \notin spoilt =>
        \A u \in 1..drained : stored[u] # None /\ Recorded(events[u]) = stored[u]

\* One copy changes, the store does not.
LEMMA QuietStep ==
    ASSUME IInv, NEW c \in Copies, NEW events, NEW loaded, NEW drained, NEW spoilt,
           UNCHANGED <<creation, stored, snap, origin>>,
           Effect(c, events, loaded, drained, spoilt),
           Fits(events, loaded, drained), Saved(events, drained, spoilt)
    PROVE  IInv'
  <1>1. ShapeInv'
    BY DEF IInv, ShapeInv, Effect, Fits
  <1>2. SavedInv'
    BY DEF IInv, SavedInv, Effect, Saved
  <1>3. SeenInv' /\ SnapInv'
    BY DEF IInv, SeenInv, SnapInv, Stored, Upto
  <1> QED  BY <1>1, <1>2, <1>3 DEF IInv

LEMMA CopyShape ==
    ASSUME IInv, NEW c \in Copies
    PROVE  /\ DOMAIN copy = Copies /\ DOMAIN copy[c] = Fields
           /\ Fits(copy[c].events, copy[c].loaded, copy[c].drained)
           /\ Saved(copy[c].events, copy[c].drained, copy[c].spoilt)
  BY DEF IInv, ShapeInv, SavedInv, Fits, Saved

LEMMA EventChanged ==
    ASSUME NEW e \in Event
    PROVE  /\ [e EXCEPT !.value = "given"] \in Event
           /\ [e EXCEPT !.value = "late"] \in Event
           /\ \A i \in Ids : [e EXCEPT !.id = i] \in Event
           /\ \A o \in Orders : [e EXCEPT !.order = o] \in Event
           /\ \A d \in Forms : [e EXCEPT !.data = d] \in Event
  BY DEF Event, Values

\* What an event becomes in the store.
LEMMA RecordedEvent ==
    ASSUME NEW e \in Event
    PROVE  /\ Recorded(e) \in Event /\ Recorded(Recorded(e)) = Recorded(e)
           /\ Recorded(e).kind = e.kind /\ Recorded(e).id = e.id
           /\ Recorded(e).value = e.value /\ Recorded(e).order = e.order
           /\ Recorded(e).data = "plain" /\ Recorded(e).changes = e.changes
           /\ e.data = "plain" => Recorded(e) = e
  BY DEF Recorded, Event, Forms

LEMMA PlainIsEvent ==
    ASSUME NEW k \in {"ImageIngested", "ProjectCreated", "ImagePreprocessed", "OcrCompleted",
                      "GtMapped", "LabelerEdited", "RotationUpdated", "ExtensionSet",
                      "PageAdded", "PageReordered", "PageRemoved", "ProjectExported"}
    PROVE  /\ Plain(k) \in Event /\ [Plain(k) EXCEPT !.value = "given"] \in Event
           /\ \A i \in Ids : [Plain(k) EXCEPT !.id = i] \in Event
           /\ \A d \in Forms : [Plain(k) EXCEPT !.data = d] \in Event
           /\ \A o \in Orders : [Plain(k) EXCEPT !.order = o] \in Event
  <1>1. k \in NodeKinds \cup Creations
                 \cup {"RotationUpdated", "ExtensionSet", "PageAdded", "PageReordered",
                       "PageRemoved", "ProjectExported"}
    BY DEF NodeKinds, Backfilling, Creations
  <1>2. <<>> \in Orders
    BY DEF Orders
  <1>3. Plain(k) \in Event
    BY <1>1, <1>2 DEF Plain, Event, Values, Forms
  <1> QED  BY <1>3, EventChanged

LEMMA NodeEventIs ==
    ASSUME NEW k \in NodeKinds, NEW i \in Ids, NEW f \in Forms
    PROVE  /\ NodeEvent(k, i, f) \in Event
           /\ NodeEvent(k, i, f).kind = k /\ NodeEvent(k, i, f).id = i
           /\ NodeEvent(k, i, f).value = "given"
  <1> DEFINE g == IF k = "LabelerEdited" THEN f ELSE "plain"
  <1>1. g \in Forms
    BY DEF Forms
  <1>2. NodeEvent(k, i, f) = [kind |-> k, id |-> i, value |-> "given", order |-> <<>>,
                              data |-> f, changes |-> g]
    <2> PICK z : z = (IF k = "LabelerEdited" THEN f ELSE Plain(k).changes)
      OBVIOUS
    <2> PICK w : w = [Plain(k) EXCEPT !.id = i, !.value = "given", !.data = f, !.changes = z]
      OBVIOUS
    <2>1. w = [kind |-> k, id |-> i, value |-> "given", order |-> <<>>, data |-> f, changes |-> z]
      BY DEF Plain
    <2>2. z = g
      BY DEF Plain
    <2>3. NodeEvent(k, i, f) = w
      BY DEF NodeEvent
    <2> HIDE DEF g
    <2> QED  BY <2>1, <2>2, <2>3
  <1> HIDE DEF g
  <1>3. <<>> \in Orders /\ "given" \in Values
    BY DEF Orders, Values
  <1> QED  BY <1>1, <1>2, <1>3 DEF Event

LEMMA CommandsType == Commands \subseteq Event
  <1>1. PageCommands \subseteq Event
    <2>1. \A k \in NodeKinds, i \in Ids, f \in Forms : NodeEvent(k, i, f) \in Event
      BY NodeEventIs
    <2>2. \A k \in Backfilling, i \in Ids : [Plain(k) EXCEPT !.id = i] \in Event
      BY PlainIsEvent DEF Backfilling
    <2>3. Plain("RotationUpdated") \in Event /\ [Plain("ExtensionSet") EXCEPT !.value = "given"] \in Event
      BY PlainIsEvent
    <2> DEFINE bare(k, i) == [Plain(k) EXCEPT !.id = i]
               A == {NodeEvent(k, i, f) : k \in NodeKinds, i \in Ids, f \in Forms}
               B == {bare(k, i) : k \in Backfilling, i \in Ids}
    <2>4. PageCommands = A \cup B \cup {Plain("RotationUpdated"),
                                       [Plain("ExtensionSet") EXCEPT !.value = "given"]}
      BY DEF PageCommands
    <2>5. A \subseteq Event
      BY <2>1
    <2>6. B \subseteq Event
      BY <2>2
    <2> HIDE DEF A, B
    <2> QED  BY <2>3, <2>4, <2>5, <2>6
  <1>2. ProjectCommands \subseteq Event
    <2>1. \A k \in {"PageAdded", "PageRemoved"}, i \in Ids : [Plain(k) EXCEPT !.id = i] \in Event
      BY PlainIsEvent
    <2>2. \A o \in Orders : [Plain("PageReordered") EXCEPT !.order = o] \in Event
      BY PlainIsEvent
    <2>3. Plain("ProjectExported") \in Event
      BY PlainIsEvent
    <2> QED  BY <2>1, <2>2, <2>3 DEF ProjectCommands
  <1> QED  BY <1>1, <1>2 DEF Commands

LEMMA CreateKeeps ==
    ASSUME IInv, NEW c \in Copies, NEW data \in Forms, Create(c, data)
    PROVE  IInv'
  <1> DEFINE evs == <<[Plain(creation) EXCEPT !.data = data]>>
  <1>1. creation \in Creations
    BY DEF IInv, ShapeInv
  <1>2. Effect(c, evs, 0, 0, {})
    BY CopyShape DEF Create, Effect, Gone, Fields
  <1>3. evs \in Seq(Event) /\ Len(evs) = 1
    <2>1. [Plain(creation) EXCEPT !.data = data] \in Event
      BY <1>1, PlainIsEvent DEF Creations
    <2> QED  BY <2>1
  <1> HIDE DEF evs
  <1>4. Fits(evs, 0, 0)
    BY <1>3, PageAssumption DEF Fits
  <1>5. Saved(evs, 0, {})
    BY DEF Saved
  <1> QED  BY <1>2, <1>4, <1>5, QuietStep DEF Create

LEMMA CommandKeeps ==
    ASSUME IInv, NEW c \in Copies, NEW e \in Commands, Command(c, e)
    PROVE  IInv'
  <1> DEFINE h == copy[c].events  evs == Append(h, e)
             ld == copy[c].loaded  dr == copy[c].drained  sp == copy[c].spoilt
  <1>1. DOMAIN copy = Copies /\ DOMAIN copy[c] = Fields /\ Fits(h, ld, dr) /\ Saved(h, dr, sp)
    BY CopyShape
  <1>2. Effect(c, evs, ld, dr, sp)
    BY <1>1 DEF Command, Effect, Fields
  <1>3. Len(h) < MaxVersion
    BY <1>1, PageAssumption DEF Command, Lesser, Fits
  <1> HIDE DEF h, ld, dr, sp
  <1>4. Fits(evs, ld, dr)
    BY <1>1, <1>3, CommandsType, PageAssumption DEF Fits
  <1>5. Saved(evs, dr, sp)
    <2>1. \A u \in 1..dr : evs[u] = h[u]
      BY <1>1, CommandsType DEF Fits
    <2> HIDE DEF evs
    <2> QED  BY <1>1, <2>1 DEF Saved
  <1> HIDE DEF evs
  <1> QED  BY <1>2, <1>4, <1>5, QuietStep DEF Command

LEMMA RaisesKeeps ==
    ASSUME IInv, NEW c \in Copies, NEW e \in Commands, Raises(c, e)
    PROVE  IInv'
  <1>1. Effect(c, copy[c].events, copy[c].loaded, copy[c].drained, copy[c].spoilt \cup {"rejected"})
    BY CopyShape DEF Raises, Effect, Fields
  <1>2. Saved(copy[c].events, copy[c].drained, copy[c].spoilt \cup {"rejected"})
    BY CopyShape DEF Saved
  <1> QED  BY <1>1, <1>2, CopyShape, QuietStep DEF Raises

LEMMA TouchRecordKeeps ==
    ASSUME IInv, NEW c \in Copies, TouchRecord(c)
    PROVE  IInv'
  <1>1. Effect(c, copy[c].events, copy[c].loaded, copy[c].drained, copy[c].spoilt \cup {"direct"})
    BY CopyShape DEF TouchRecord, Effect, Fields
  <1>2. Saved(copy[c].events, copy[c].drained, copy[c].spoilt \cup {"direct"})
    BY CopyShape DEF Saved
  <1> QED  BY <1>1, <1>2, CopyShape, QuietStep DEF TouchRecord

LEMMA SaveFailsKeeps ==
    ASSUME IInv, NEW c \in Copies, SaveFails(c)
    PROVE  IInv'
  <1>1. Effect(c, copy[c].events, copy[c].loaded, Len(copy[c].events), copy[c].spoilt \cup {"save"})
    BY CopyShape DEF SaveFails, Effect, Fields
  <1>2. Saved(copy[c].events, Len(copy[c].events), copy[c].spoilt \cup {"save"})
    BY DEF Saved
  <1>3. Fits(copy[c].events, copy[c].loaded, Len(copy[c].events))
    BY CopyShape DEF Fits
  <1> QED  BY <1>1, <1>2, <1>3, QuietStep DEF SaveFails

LEMMA DropKeeps ==
    ASSUME IInv, NEW c \in Copies, Drop(c)
    PROVE  IInv'
  <1>1. Effect(c, <<>>, 0, 0, {})
    BY CopyShape DEF Drop, Effect, Gone, Fields
  <1>2. Fits(<<>>, 0, 0) /\ Saved(<<>>, 0, {})
    BY PageAssumption DEF Fits, Saved
  <1> QED  BY <1>1, <1>2, QuietStep DEF Drop

\* A copy that is loaded holds all that is stored.
LEMMA LoadKeeps ==
    ASSUME IInv, NEW c \in Copies, Load(c)
    PROVE  IInv'
  <1> DEFINE v == Newest(stored)  evs == Upto(stored, v)
  <1>1. Effect(c, evs, v, v, {})
    BY CopyShape DEF Load, Effect, Gone, Fields
  <1>2. v \in 0..MaxVersion
    BY NewestStored, PageAssumption DEF IInv, ShapeInv, Stored, Versions
  <1>3. Readable(stored, snap, v)
    BY DEF Load
  <1> HIDE DEF v
  <1>4. \A u \in 1..v : stored[u] # None
    <2>1. \A u \in Versions : snap[u] # None => \A w \in 1..u : stored[w] # None
      BY DEF IInv, SnapInv, Stored
    <2> QED  BY <1>2, <1>3, <2>1, ReadableHasNoGap
  <1>5. evs \in Seq(Event) /\ Len(evs) = v
    <2>1. \A u \in 1..v : stored[u] \in Event
      BY <1>2, <1>4, PageAssumption DEF IInv, ShapeInv, Versions
    <2> QED  BY <1>2, <2>1, SeqDef, PageAssumption DEF Upto
  <1>6. Fits(evs, v, v)
    <2> HIDE DEF evs
    <2> QED  BY <1>2, <1>5, PageAssumption DEF Fits
  <1>7. Saved(evs, v, {})
    <2>1. \A u \in 1..v : u \in Versions
      BY <1>2, PageAssumption DEF Versions
    <2>2. \A u \in 1..v : Recorded(stored[u]) = stored[u]
      BY <1>4, <2>1 DEF IInv, ShapeInv
    <2> QED  BY <1>2, <1>4, <2>2 DEF Saved, Upto
  <1> HIDE DEF evs
  <1> QED  BY <1>1, <1>6, <1>7, QuietStep DEF Load

\* What is stored cannot be touched any more.
LEMMA TouchArgumentKeeps ==
    ASSUME IInv, NEW c \in Copies, NEW v \in Versions, TouchArgument(c, v)
    PROVE  IInv'
  <1> DEFINE h == copy[c].events
             ld == copy[c].loaded  dr == copy[c].drained  sp == copy[c].spoilt \cup {"argument"}
  <1>1. DOMAIN copy = Copies /\ DOMAIN copy[c] = Fields
        /\ Fits(h, ld, dr) /\ Saved(h, dr, copy[c].spoilt)
    BY CopyShape
  <1>2. PICK late \in {[h[v] EXCEPT !.value = "late"]} \cup {[h[v] EXCEPT !.order = o] : o \in Orders} :
            copy' = [copy EXCEPT
                  ![c].events[v] = IF v \in Pending(c) THEN late ELSE @,
                  ![c].record.nodes = [i \in Ids |-> IF @[i] # None /\ copy[c].shared[i] = v
                                                     THEN [@[i] EXCEPT !.refs = "late"] ELSE @[i]],
                  ![c].spoilt = @ \cup {"argument"}]
    BY DEF TouchArgument
  <1>3. v \in 1..Len(h) /\ h[v] \in Event
    <2>1. v \in ld + 1 .. Len(h)
      BY DEF TouchArgument
    <2>2. ld \in Nat /\ h \in Seq(Event)
      BY <1>1 DEF Fits
    <2> HIDE DEF h, ld
    <2> QED  BY <2>1, <2>2
  <1>4. late \in Event
    BY <1>3, EventChanged
  <1> DEFINE evs == [h EXCEPT ![v] = IF v \in Pending(c) THEN late ELSE h[v]]
  <1>5. Effect(c, evs, ld, dr, sp)
    BY <1>1, <1>2 DEF Effect, Fields
  <1>6. evs \in Seq(Event) /\ Len(evs) = Len(h)
    BY <1>1, <1>3, <1>4, ExceptSeq DEF Fits
  <1>7. \A u \in 1..dr : evs[u] = h[u]
    BY <1>1, <1>3 DEF Pending, Fits
  <1> HIDE DEF h, evs, ld, dr
  <1>8. Fits(evs, ld, dr)
    BY <1>1, <1>6 DEF Fits
  <1>9. Saved(evs, dr, sp)
    BY <1>1, <1>7 DEF Saved
  <1> QED  BY <1>5, <1>8, <1>9, QuietStep DEF TouchArgument

\* What a writer inserts follows on what is stored, if no save of its has failed.
LEMMA SaveKeeps ==
    ASSUME IInv, NEW c \in Copies, Save(c)
    PROVE  IInv'
  <1> DEFINE h == copy[c].events  n == Len(h)  dr == copy[c].drained  sp == copy[c].spoilt
             inserted == [v \in Versions |-> IF v \in Pending(c) THEN Recorded(h[v]) ELSE stored[v]]
  <1>1. DOMAIN copy = Copies /\ DOMAIN copy[c] = Fields
        /\ Fits(h, copy[c].loaded, dr) /\ Saved(h, dr, sp)
    BY CopyShape
  <1>2. Effect(c, h, copy[c].loaded, n, sp) /\ stored' = inserted /\ creation' = creation
    BY <1>1 DEF Save, Effect, Fields
  <1>3. Pending(c) = dr + 1 .. n
    BY DEF Pending
  <1>4. stored \in [Versions -> Event \cup {None}] /\ None \notin Event
        /\ h \in Seq(Event) /\ n \in Nat /\ n <= MaxVersion /\ dr \in 0..n /\ MaxVersion \in Nat
    BY <1>1, PageAssumption DEF Fits, IInv, ShapeInv
  <1>5. \A v \in dr + 1 .. n : stored[v] = None
    BY <1>3 DEF Save, Insertable
  <1>6. \A v \in dr + 1 .. n : v \in Versions /\ v \in 1..n
                             /\ h[v] \in Event /\ Recorded(h[v]) \in Event
    <2> HIDE DEF h, n, dr
    <2>1. n = Len(h)
      BY DEF n
    <2> QED  BY <1>4, <2>1, RecordedEvent DEF Versions
  <1>7. inserted \in [Versions -> Event \cup {None}]
        /\ \A v \in Versions : inserted[v] = IF v \in dr + 1 .. n THEN Recorded(h[v]) ELSE stored[v]
    BY <1>3, <1>4, <1>6
  <1>8. origin' = [v \in Versions |->
                    IF v \in dr + 1 .. n
                    THEN [seen |-> [u \in 1..(v - 1) |-> Recorded(h[u])], lost |-> "save" \in sp]
                    ELSE origin[v]]
    BY <1>3 DEF Save
  <1>9. snap' = Snapshots(inserted, c) \/ snap' = snap
    BY DEF Save
  <1> HIDE DEF inserted
  <1>10. \A v \in Versions : stored[v] # None => inserted[v] = stored[v]
    BY <1>5, <1>7
  <1>11. \A v \in Versions : inserted[v] # None => v \in Stored(stored) \/ v \in dr + 1 .. n
    BY <1>7 DEF Stored
  <1>12. Stored(stored) \subseteq Stored(inserted)
    BY <1>10 DEF Stored
  <1>13. "save" \notin sp => \A u \in 1..n : inserted[u] # None /\ inserted[u] = Recorded(h[u])
    <2> SUFFICES ASSUME "save" \notin sp, NEW u \in 1..n
                 PROVE  inserted[u] # None /\ inserted[u] = Recorded(h[u])
      OBVIOUS
    <2> HIDE DEF h, n, dr, sp
    <2>1. u \in Versions
      BY <1>4 DEF Versions
    <2>2. CASE u \in dr + 1 .. n
      BY <1>4, <1>6, <1>7, <2>1, <2>2
    <2>3. CASE u \notin dr + 1 .. n
      <3>1. u \in 1..dr
        BY <1>4, <2>3
      <3>2. stored[u] # None /\ Recorded(h[u]) = stored[u]
        BY <1>1, <3>1 DEF Saved
      <3> QED  BY <1>10, <2>1, <3>2
    <2> QED  BY <2>2, <2>3
  <1>14. ShapeInv'
    <2>1. \A d \in Copies \ {c} : copy'[d] = copy[d]
      BY <1>2 DEF Effect
    <2>2. DOMAIN copy' = Copies /\ DOMAIN copy'[c] = Fields /\ copy'[c].events = h
          /\ copy'[c].loaded = copy[c].loaded /\ copy'[c].drained = n
      BY <1>2 DEF Effect
    <2>3. copy[c].loaded \in Nat
      BY <1>1 DEF Fits
    <2>4. n \in 0..n
      BY <1>4
    <2>5. \A v \in Versions : inserted[v] # None => Recorded(inserted[v]) = inserted[v]
      BY <1>6, <1>7, RecordedEvent DEF IInv, ShapeInv
    <2> QED  BY <1>2, <1>4, <1>7, <2>1, <2>2, <2>3, <2>4, <2>5 DEF IInv, ShapeInv
  <1>15. SavedInv'
    <2> SUFFICES ASSUME NEW d \in Copies, "save" \notin copy'[d].spoilt,
                        NEW u \in 1..copy'[d].drained
                 PROVE  stored'[u] # None /\ Recorded(copy'[d].events[u]) = stored'[u]
      BY DEF SavedInv
    <2>1. CASE d = c
      <3>1. copy'[c].events = h /\ copy'[c].drained = n /\ copy'[c].spoilt = sp
        BY <1>2 DEF Effect
      <3> HIDE DEF h, n, sp
      <3> QED  BY <1>2, <1>13, <2>1, <3>1
    <2>2. CASE d # c
      <3>1. copy'[d] = copy[d]
        BY <1>2, <2>2 DEF Effect
      <3>2. Fits(copy[d].events, copy[d].loaded, copy[d].drained)
            /\ Saved(copy[d].events, copy[d].drained, copy[d].spoilt)
        BY CopyShape
      <3>3. stored[u] # None /\ Recorded(copy[d].events[u]) = stored[u]
        BY <3>1, <3>2 DEF Saved
      <3>4. u \in Versions
        BY <1>4, <3>1, <3>2 DEF Fits, Versions
      <3> QED  BY <1>2, <1>10, <3>1, <3>3, <3>4
    <2> QED  BY <2>1, <2>2
  <1>16. SeenInv'
    <2> SUFFICES ASSUME NEW v \in Stored(inserted), ~origin'[v].lost
                 PROVE  /\ 1..v \subseteq Stored(inserted)
                        /\ origin'[v].seen = Upto(inserted, v - 1)
      BY <1>2 DEF SeenInv, Stored, Upto
    <2>1. v \in Versions /\ inserted[v] # None
      BY DEF Stored
    <2>2. v \in Nat /\ v - 1 \in Nat /\ 1..v \subseteq Versions
      BY <1>4, <2>1 DEF Versions
    <2>3. CASE v \in dr + 1 .. n
      <3> HIDE DEF h, n, dr, sp
      <3> PICK b \in BOOLEAN : b <=> "save" \in sp
        OBVIOUS
      <3>1. origin'[v] = [seen |-> [u \in 1..(v - 1) |-> Recorded(h[u])], lost |-> b]
        <4>1. ("save" \in sp) = b
          OBVIOUS
        <4> QED  BY <1>8, <2>1, <2>3, <4>1
      <3>2. "save" \notin sp
        <4>1. origin'[v].lost = b
          BY <3>1
        <4> QED  BY <4>1, Zenon
      <3>3. \A u \in 1..n : inserted[u] # None /\ inserted[u] = Recorded(h[u])
        BY <1>13, <3>2
      <3>4. v <= n
        BY <1>4, <2>3, <2>2
      <3>5. 1..v \subseteq Stored(inserted)
        BY <1>4, <2>2, <3>3, <3>4 DEF Stored
      <3>6. [u \in 1..(v - 1) |-> Recorded(h[u])] = Upto(inserted, v - 1)
        <4>1. \A u \in 1..(v - 1) : Recorded(h[u]) = inserted[u]
          BY <1>4, <2>2, <3>3, <3>4
        <4> QED  BY <4>1 DEF Upto
      <3> QED  BY <3>1, <3>5, <3>6
    <2>4. CASE v \notin dr + 1 .. n
      <3>1. v \in Stored(stored) /\ origin'[v] = origin[v]
        BY <1>8, <1>11, <2>1, <2>4
      <3>2. 1..v \subseteq Stored(stored) /\ origin[v].seen = Upto(stored, v - 1)
        BY <3>1 DEF IInv, SeenInv
      <3>3. Upto(stored, v - 1) = Upto(inserted, v - 1)
        <4>1. \A u \in 1..(v - 1) : stored[u] = inserted[u]
          <5>1. \A u \in 1..(v - 1) : u \in 1..v
            BY <2>2
          <5> QED  BY <1>10, <3>2, <5>1 DEF Stored
        <4> QED  BY <4>1 DEF Upto
      <3> QED  BY <1>12, <3>1, <3>2, <3>3
    <2> QED  BY <2>3, <2>4
  <1>17. SnapInv'
    <2>1. \A u \in Versions : snap[u] # None => \A w \in 1..u : inserted[w] # None
      BY <1>12 DEF IInv, SnapInv, Stored
    <2> SUFFICES ASSUME NEW v \in Versions, snap'[v] # None
                 PROVE  \A w \in 1..v : inserted[w] # None
      <3>1. \A v \in Versions : 1..v \subseteq Versions
        BY <1>4 DEF Versions
      <3> QED  BY <1>2, <3>1 DEF SnapInv, Stored
    <2>2. CASE snap[v] # None
      BY <2>1, <2>2
    <2>3. CASE snap[v] = None
      <3>1. snap' = Snapshots(inserted, c)
        BY <1>9, <2>3
      <3>2. Readable(inserted, snap, v)
        BY <2>3, <3>1 DEF Snapshots
      <3>3. v \in 0..MaxVersion
        BY <1>4 DEF Versions
      <3> QED  BY <2>1, <3>2, <3>3, ReadableHasNoGap
    <2> QED  BY <2>2, <2>3
  <1> QED  BY <1>14, <1>15, <1>16, <1>17 DEF IInv

-------------------------------------------------------------------------------
(* The invariant and what it says.                                         *)

LEMMA InvInit == Init => IInv
  <1> SUFFICES ASSUME Init
               PROVE  IInv
    OBVIOUS
  <1>1. \A c \in Copies : copy[c] = Gone
    BY DEF Init
  <1>2. DOMAIN Gone = Fields /\ Gone.events = <<>> /\ Gone.loaded = 0 /\ Gone.drained = 0
    BY DEF Gone, Fields
  <1>3. ShapeInv
    <2>1. stored \in [Versions -> Event \cup {None}] /\ creation \in Creations /\ DOMAIN copy = Copies
      BY DEF Init
    <2>2. Fits(<<>>, 0, 0)
      BY PageAssumption DEF Fits
    <2>3. \A v \in Versions : stored[v] = None
      BY DEF Init
    <2> QED  BY <1>1, <1>2, <2>1, <2>2, <2>3 DEF ShapeInv, Fits
  <1>4. SavedInv
    BY <1>1, <1>2 DEF SavedInv
  <1>5. SeenInv /\ SnapInv
    BY DEF Init, SeenInv, SnapInv, Stored
  <1> QED  BY <1>3, <1>4, <1>5 DEF IInv

LEMMA InvNext == IInv /\ [Next]_vars => IInv'
  <1> SUFFICES ASSUME IInv, [Next]_vars
               PROVE  IInv'
    OBVIOUS
  <1>1. CASE UNCHANGED vars
    BY <1>1 DEF vars, IInv, ShapeInv, SavedInv, SeenInv, SnapInv, Stored, Upto
  <1>2. ASSUME NEW c \in Copies,
               \/ \E data \in Forms : Create(c, data)
               \/ \E e \in Commands : Command(c, e)
               \/ \E e \in Commands : Raises(c, e)
               \/ \E v \in Versions : TouchArgument(c, v)
               \/ TouchRecord(c) \/ Save(c) \/ SaveFails(c) \/ Drop(c) \/ Load(c)
        PROVE  IInv'
    BY <1>2, CreateKeeps, CommandKeeps, RaisesKeeps, TouchArgumentKeeps, TouchRecordKeeps,
       SaveKeeps, SaveFailsKeeps, DropKeeps, LoadKeeps
  <1> QED  BY <1>1, <1>2 DEF Next

\* Where nobody lost anything, the newest version has all others below it.
LEMMA HistoryFollows == IInv => WritersSawTheHistory
  <1> SUFFICES ASSUME IInv
               PROVE  WritersSawTheHistory
    OBVIOUS
  <1> DEFINE n == Newest(stored)
  <1>1. SeenInv /\ stored \in [Versions -> Event \cup {None}]
    BY DEF IInv, ShapeInv
  <1>2. ASSUME Stored(stored) # {}, \A v \in Stored(stored) : ~origin[v].lost
        PROVE  Readable(stored, snap, n)
    <2>1. n \in {0} \cup Stored(stored) /\ \A v \in Stored(stored) : n >= v
      BY <1>1, NewestStored
    <2>2. \A v \in Stored(stored) : v \in 1..MaxVersion /\ MaxVersion \in Nat
      BY PageAssumption DEF Stored, Versions
    <2> HIDE DEF n
    <2>3. n \in Stored(stored) /\ n > 0 /\ n \in 0..MaxVersion
      BY <1>2, <2>1, <2>2
    <2>4. 1..n \subseteq Stored(stored)
      BY <1>1, <1>2, <2>3 DEF SeenInv
    <2>5. Base(snap, n) \in 0..n
      BY <2>3, BaseIsSnapshot
    <2>6. \A u \in Base(snap, n) + 1 .. n : u \in 1..n
      BY <2>3, <2>5
    <2> QED  BY <2>3, <2>4, <2>6 DEF Readable, Stored
  <1> QED  BY <1>1, <1>2 DEF WritersSawTheHistory, SeenInv

\* No lost update and no gap: whatever the copies, their commands and their failed saves,
\* an event that is stored follows on the very events its writer had seen, all of them
\* stored, unless a save of the writer's had failed; and as long as no such writer stores
\* anything, the aggregate can be loaded.
THEOREM WritersFollowTheHistory == Spec => []WritersSawTheHistory
  BY InvInit, InvNext, HistoryFollows, PTL DEF Spec

-------------------------------------------------------------------------------
(* Replays, step by step.                                                  *)

\* A set of natural numbers has a least one.
LEMMA LeastOf ==
    ASSUME NEW S \in SUBSET Nat, S # {}
    PROVE  \E n \in S : \A m \in S : n <= m
  <1>1. PICK n \in S : \A m \in S : ~(<<m, n>> \in OpToRel(<, Nat))
    BY WFMin, NatLessThanWellFounded
  <1>2. \A m \in S : ~(m < n) /\ m \in Nat /\ n \in Nat
    BY <1>1 DEF OpToRel
  <1>3. \A m \in S : n <= m
    BY <1>2
  <1> QED  BY <1>1, <1>3

\* The function that After chooses.
IsReplay(f, base, r, events, v) ==
    f = [u \in base..v |-> IF u = base THEN r ELSE Applied(f[u - 1], events[u])]

LEMMA ReplaysAgree ==
    ASSUME NEW base \in Nat, NEW v \in Nat, NEW w \in Nat, v <= w, NEW r, NEW events,
           NEW f, NEW g, IsReplay(f, base, r, events, v), IsReplay(g, base, r, events, w)
    PROVE  \A u \in base..v : f[u] = g[u]
  <1> DEFINE S == {u \in base..v : f[u] # g[u]}
  <1>1. \A u \in base..v : f[u] = IF u = base THEN r ELSE Applied(f[u - 1], events[u])
    BY DEF IsReplay
  <1>2. \A u \in base..w : g[u] = IF u = base THEN r ELSE Applied(g[u - 1], events[u])
    BY DEF IsReplay
  <1>3. CASE S # {}
    <2>1. PICK n \in S : \A m \in S : n <= m
      <3>1. S \in SUBSET Nat
        OBVIOUS
      <3> HIDE DEF S
      <3> QED  BY <1>3, <3>1, LeastOf
    <2>2. n \in base..v /\ n \in base..w /\ f[n] # g[n]
      BY <2>1
    <2>3. n # base
      BY <1>1, <1>2, <2>2
    <2>4. n - 1 \in base..v /\ n - 1 < n /\ n - 1 \notin S
      <3>1. n - 1 \in base..v /\ ~(n <= n - 1)
        BY <2>2, <2>3
      <3> HIDE DEF S
      <3> QED  BY <2>1, <2>2, <3>1
    <2>5. f[n - 1] = g[n - 1]
      BY <2>4
    <2> QED  BY <1>1, <1>2, <2>2, <2>3, <2>5
  <1> QED  BY <1>3

LEMMA ReplayExists ==
    ASSUME NEW base \in Nat, NEW r, NEW events
    PROVE  \A v \in Nat : v >= base => \E f : IsReplay(f, base, r, events, v)
  <1> DEFINE S == {v \in Nat : v >= base /\ ~\E f : IsReplay(f, base, r, events, v)}
  <1>1. CASE S # {}
    <2>1. PICK n \in S : \A m \in S : n <= m
      <3>1. S \in SUBSET Nat
        OBVIOUS
      <3> HIDE DEF S
      <3> QED  BY <1>1, <3>1, LeastOf
    <2>2. n \in Nat /\ n >= base /\ ~\E f : IsReplay(f, base, r, events, n)
      BY <2>1
    <2>3. CASE n = base
      <3> DEFINE g == [u \in base..n |-> r]
      <3>1. g = [u \in base..n |-> IF u = base THEN r ELSE Applied(g[u - 1], events[u])]
        BY <2>3
      <3> HIDE DEF g
      <3>2. IsReplay(g, base, r, events, n)
        BY <3>1 DEF IsReplay
      <3> QED  BY <2>2, <3>2
    <2>4. CASE n # base
      <3>1. n - 1 \in Nat /\ n - 1 >= base /\ ~(n <= n - 1)
        BY <2>2, <2>4
      <3>2. n - 1 \notin S
        <4> HIDE DEF S
        <4> QED  BY <2>1, <3>1
      <3>3. PICK f : IsReplay(f, base, r, events, n - 1)
        BY <3>1, <3>2
      <3>4. \A u \in base..n - 1 :
               f[u] = IF u = base THEN r ELSE Applied(f[u - 1], events[u])
        BY <3>3 DEF IsReplay
      <3> DEFINE g == [u \in base..n |-> IF u = n THEN Applied(f[n - 1], events[n]) ELSE f[u]]
      <3>5. \A u \in base..n - 1 : g[u] = f[u]
        BY <2>2, <3>1
      <3>6. \A u \in base..n : g[u] = IF u = base THEN r ELSE Applied(g[u - 1], events[u])
        <4> SUFFICES ASSUME NEW u \in base..n
                     PROVE  g[u] = IF u = base THEN r ELSE Applied(g[u - 1], events[u])
          OBVIOUS
        <4>1. CASE u = n
          <5>1. g[n] = Applied(f[n - 1], events[n]) /\ n - 1 \in base..n - 1
            BY <2>2, <3>1
          <5> HIDE DEF g
          <5> QED  BY <2>4, <3>5, <4>1, <5>1
        <4>2. CASE u # n
          <5>1. u \in base..n - 1 /\ (u # base => u - 1 \in base..n - 1)
            BY <2>2, <4>2
          <5> HIDE DEF g
          <5> QED  BY <3>4, <3>5, <5>1
        <4> QED  BY <4>1, <4>2
      <3>7. g = [u \in base..n |-> g[u]]
        OBVIOUS
      <3> HIDE DEF g
      <3>8. IsReplay(g, base, r, events, n)
        BY <3>6, <3>7 DEF IsReplay
      <3> QED  BY <2>2, <3>8
    <2> QED  BY <2>3, <2>4
  <1> QED  BY <1>1

\* The replay of the events up to v is the replay of those before, and event v.
LEMMA AfterIsReplay ==
    ASSUME NEW base \in Nat, NEW v \in Nat, v >= base, NEW r, NEW events
    PROVE  \E f : IsReplay(f, base, r, events, v) /\ After(base, r, events, v) = f[v]
  <1> DEFINE R == CHOOSE f : f = [u \in base..v |->
                                    IF u = base THEN r ELSE Applied(f[u - 1], events[u])]
  <1>1. \E f : IsReplay(f, base, r, events, v)
    BY ReplayExists
  <1>2. R = [u \in base..v |-> IF u = base THEN r ELSE Applied(R[u - 1], events[u])]
    BY <1>1, Zenon DEF IsReplay
  <1>3. After(base, r, events, v) = R[v]
    BY Zenon DEF After
  <1> HIDE DEF R
  <1> QED  BY <1>2, <1>3 DEF IsReplay

LEMMA AfterStep ==
    ASSUME NEW base \in Nat, NEW v \in Nat, v >= base, NEW r, NEW events
    PROVE  After(base, r, events, v) =
             IF v = base THEN r ELSE Applied(After(base, r, events, v - 1), events[v])
  <1>1. PICK f : IsReplay(f, base, r, events, v) /\ After(base, r, events, v) = f[v]
    BY AfterIsReplay
  <1>2. f[v] = IF v = base THEN r ELSE Applied(f[v - 1], events[v])
    BY <1>1 DEF IsReplay
  <1>3. CASE v # base
    <2>1. v - 1 \in Nat /\ v - 1 >= base /\ v - 1 <= v /\ v - 1 \in base..v - 1
      BY <1>3
    <2>2. PICK g : IsReplay(g, base, r, events, v - 1) /\ After(base, r, events, v - 1) = g[v - 1]
      BY <2>1, AfterIsReplay
    <2>3. g[v - 1] = f[v - 1]
      BY <1>1, <2>1, <2>2, ReplaysAgree
    <2> QED  BY <1>1, <1>2, <1>3, <2>2, <2>3
  <1> QED  BY <1>1, <1>2, <1>3

-------------------------------------------------------------------------------
(* What a command makes of a record.                                       *)

\* The events of a history: a creation, and what the commands make.
First == {e \in Event : e.kind \in Creations}
Later == {e \in Event : /\ e.kind \notin Creations
                        /\ e.kind \in NodeKinds \cup {"PageAdded", "PageRemoved"} => e.id \in Ids}

LEMMA OrdersType == Orders \subseteq Seq(Ids)
  <1>1. \A i, j \in Ids : <<i>> \in Seq(Ids) /\ <<i, j>> \in Seq(Ids)
    OBVIOUS
  <1>2. <<>> \in Seq(Ids)
    OBVIOUS
  <1> SUFFICES ASSUME NEW o \in Orders
               PROVE  o \in Seq(Ids)
    OBVIOUS
  <1>3. o = <<>> \/ (\E i \in Ids : o = <<i>>) \/ (\E i, j \in Ids : o = <<i, j>>)
    BY DEF Orders
  <1>4. CASE \E i \in Ids : o = <<i>>
    <2>1. PICK i \in Ids : o = <<i>>
      BY <1>4
    <2> QED  BY <1>1, <2>1
  <1>5. CASE \E i, j \in Ids : o = <<i, j>>
    <2>1. PICK i \in Ids, j \in Ids : o = <<i, j>>
      BY <1>5
    <2> QED  BY <1>1, <2>1
  <1> QED  BY <1>2, <1>3, <1>4, <1>5

LEMMA LaterKinds ==
    ASSUME NEW e \in Later
    PROVE  /\ e \in Event /\ e.value \in Values /\ e.order \in Orders
           /\ e.data \in Forms /\ e.changes \in Forms
           /\ \/ e.kind \in NodeKinds /\ e.id \in Ids
              \/ e.kind \in {"PageAdded", "PageRemoved"} /\ e.id \in Ids
              \/ e.kind \in {"RotationUpdated", "ExtensionSet", "PageReordered", "ProjectExported"}
  BY DEF Later, Event

\* What an event sets.
EntryOf(e) == [id |-> e.id, changes |-> e.changes]
ExtensionOf(e) == [value |-> e.value, data |-> e.data]

LEMMA PartsType ==
    ASSUME NEW e \in Event
    PROVE  /\ ExtensionOf(e) \in Extension
           /\ e.id \in Ids => EntryOf(e) \in Entry
           /\ WithBlobRefs(e) \in Node /\ WithBlobRefs(e) # None
  <1>1. e.value \in Values /\ e.data \in Forms /\ e.changes \in Forms
    BY DEF Event
  <1>2. WithBlobRefs(e) \in Node
    BY <1>1 DEF WithBlobRefs, Node, Refs
  <1> QED  BY <1>1, <1>2, PageAssumption DEF ExtensionOf, EntryOf, Extension, Entry

\* What an applied event makes of each field.
LEMMA NodeApplied ==
    ASSUME NEW r \in Record, NEW e \in Later, e.kind \in NodeKinds
    PROVE  Applied(r, e) =
             [failed |-> r.failed /\ e.kind # "OcrCompleted", rotated |-> r.rotated,
              extension |-> r.extension,
              nodes |-> [r.nodes EXCEPT ![e.id] = WithBlobRefs(e)],
              history |-> Append(r.history, e.id),
              changelog |-> IF e.kind = "LabelerEdited" THEN Append(r.changelog, EntryOf(e))
                            ELSE r.changelog,
              pages |-> r.pages]
  <1> DEFINE w == WithNode(r, e.id, WithBlobRefs(e))
  <1>1. w = [failed |-> r.failed, rotated |-> r.rotated, extension |-> r.extension,
             nodes |-> [r.nodes EXCEPT ![e.id] = WithBlobRefs(e)],
             history |-> Append(r.history, e.id), changelog |-> r.changelog, pages |-> r.pages]
    <2>1. r = [failed |-> r.failed, rotated |-> r.rotated, extension |-> r.extension,
               nodes |-> r.nodes, history |-> r.history, changelog |-> r.changelog,
               pages |-> r.pages]
      BY DEF Record
    <2>2. w = [[r EXCEPT !.nodes = [@ EXCEPT ![e.id] = WithBlobRefs(e)]]
                 EXCEPT !.history = Append(@, e.id)]
      BY <2>1 DEF WithNode
    <2> QED  BY <2>1, <2>2
  <1>2. Applied(r, e) = [w EXCEPT !.failed = @ /\ e.kind # "OcrCompleted",
              !.changelog = IF e.kind = "LabelerEdited" THEN Append(@, EntryOf(e)) ELSE @]
    BY DEF Applied, NodeKinds, Backfilling, EntryOf
  <1> HIDE DEF w
  <1> QED  BY <1>1, <1>2

LEMMA OtherApplied ==
    ASSUME NEW r \in Record, NEW e \in Later, e.kind \notin NodeKinds
    PROVE  /\ e.kind = "RotationUpdated" => Applied(r, e) = [r EXCEPT !.rotated = TRUE]
           /\ e.kind = "ExtensionSet" => Applied(r, e) = [r EXCEPT !.extension = ExtensionOf(e)]
           /\ e.kind = "PageAdded" => Applied(r, e) = [r EXCEPT !.pages = Append(@, e.id)]
           /\ e.kind = "PageReordered" => Applied(r, e) = [r EXCEPT !.pages = e.order]
           /\ e.kind = "PageRemoved" => Applied(r, e) = [r EXCEPT !.pages = RemoveFirst(@, e.id)]
           /\ e.kind = "ProjectExported" => Applied(r, e) = r
  BY DEF Applied, ExtensionOf

LEMMA RemovedType ==
    ASSUME NEW q \in Seq(Ids), NEW i \in Ids
    PROVE  RemoveFirst(q, i) \in Seq(Ids)
  <1> DEFINE S == {k \in 1..Len(q) : q[k] = i}
             k == SelectInSeq(q, LAMBDA x : x = i)
  <1>1. CASE \E n \in 1..Len(q) : q[n] = i
    <2>1. RemoveFirst(q, i) = SubSeq(q, 1, k - 1) \o SubSeq(q, k + 1, Len(q))
      BY <1>1 DEF RemoveFirst, RemoveAt
    <2>2. S # {} /\ S \in SUBSET Nat
      BY <1>1
    <2>3. k = Min(S)
      BY <1>1 DEF SelectInSeq
    <2>4. k \in 1..Len(q)
      <3> HIDE DEF S, k
      <3>1. \E n \in S : \A m \in S : n <= m
        BY <2>2, LeastOf
      <3>2. Min(S) \in S
        BY <3>1 DEF Min
      <3>3. k \in S
        BY <2>3, <3>2
      <3> QED  BY <3>3 DEF S
    <2> HIDE DEF k
    <2>5. SubSeq(q, 1, k - 1) \in Seq(Ids) /\ SubSeq(q, k + 1, Len(q)) \in Seq(Ids)
      BY <2>4
    <2> QED  BY <2>1, <2>5
  <1>2. CASE ~\E n \in 1..Len(q) : q[n] = i
    BY <1>2 DEF RemoveFirst
  <1> QED  BY <1>1, <1>2

\* The graph keeps what it has, and gets the node.
LEMMA GraphGrows ==
    ASSUME NEW r \in Record, WellFormed(r), NEW i \in Ids, NEW node \in Node, NEW x \in Entry,
           x.id = i, NEW s \in Record, s.nodes = [r.nodes EXCEPT ![i] = node],
           s.history = Append(r.history, i),
           s.changelog = r.changelog \/ s.changelog = Append(r.changelog, x)
    PROVE  WellFormed(s)
  <1>1. /\ r.nodes \in [Ids -> Node \cup {None}] /\ node # None
        /\ r.history \in Seq(Ids) /\ r.changelog \in Seq(Entry)
    BY PageAssumption DEF Record
  <1>2. ASSUME NEW T, NEW y \in T, NEW q \in Seq(T)
        PROVE  ToSet(Append(q, y)) = ToSet(q) \cup {y}
    <2>1. /\ DOMAIN Append(q, y) = 1..Len(q) + 1 /\ DOMAIN q = 1..Len(q) /\ Len(q) \in Nat
          /\ Append(q, y)[Len(q) + 1] = y
          /\ \A k \in 1..Len(q) : Append(q, y)[k] = q[k]
      OBVIOUS
    <2>2. \A k \in 1..Len(q) + 1 : k \in 1..Len(q) \/ k = Len(q) + 1
      BY <2>1
    <2>3. \A k \in 1..Len(q) : k \in 1..Len(q) + 1
      BY <2>1
    <2>4. Len(q) + 1 \in 1..Len(q) + 1
      BY <2>1
    <2> QED  BY <2>1, <2>2, <2>3, <2>4 DEF ToSet
  <1>3. ToSet(s.history) = ToSet(r.history) \cup {i}
    BY <1>1, <1>2
  <1>4. ToSet(s.changelog) \subseteq ToSet(r.changelog) \cup {x}
    <2>1. ToSet(Append(r.changelog, x)) = ToSet(r.changelog) \cup {x}
      BY <1>1, <1>2
    <2> QED  BY <2>1
  <1>5. \A k \in ToSet(r.history) : k \in Ids
    BY <1>1 DEF ToSet
  <1> QED  BY <1>1, <1>3, <1>4, <1>5 DEF WellFormed

LEMMA AppliedType ==
    ASSUME NEW r \in Record, WellFormed(r), NEW e \in Later
    PROVE  Applied(r, e) \in Record /\ WellFormed(Applied(r, e))
  <1> DEFINE s == Applied(r, e)
  <1>1. /\ r.nodes \in [Ids -> Node \cup {None}] /\ r.history \in Seq(Ids)
        /\ r.changelog \in Seq(Entry) /\ r.pages \in Seq(Ids)
        /\ r.failed \in BOOLEAN /\ r.rotated \in BOOLEAN /\ r.extension \in Extension
    BY DEF Record
  <1>0. e \in Event
    BY LaterKinds
  <1>2. CASE e.kind \in NodeKinds
    <2> DEFINE node == WithBlobRefs(e)
    <2>1. e.id \in Ids
      BY <1>2, LaterKinds DEF Later
    <2>2. node \in Node /\ EntryOf(e) \in Entry /\ EntryOf(e).id = e.id
      BY <1>0, <2>1, PartsType DEF EntryOf
    <2>3. s = [failed |-> r.failed /\ e.kind # "OcrCompleted", rotated |-> r.rotated,
              extension |-> r.extension,
              nodes |-> [r.nodes EXCEPT ![e.id] = node],
              history |-> Append(r.history, e.id),
              changelog |-> IF e.kind = "LabelerEdited" THEN Append(r.changelog, EntryOf(e))
                            ELSE r.changelog,
              pages |-> r.pages]
      BY <1>2, NodeApplied
    <2> HIDE DEF s, node
    <2>4. /\ [r.nodes EXCEPT ![e.id] = node] \in [Ids -> Node \cup {None}]
          /\ Append(r.history, e.id) \in Seq(Ids) /\ Append(r.changelog, EntryOf(e)) \in Seq(Entry)
      BY <1>1, <2>1, <2>2
    <2>5. (r.failed /\ e.kind # "OcrCompleted") \in BOOLEAN
      OBVIOUS
    <2>6. s \in Record
      BY <1>1, <2>3, <2>4, <2>5 DEF Record
    <2>7. /\ s.nodes = [r.nodes EXCEPT ![e.id] = node] /\ s.history = Append(r.history, e.id)
          /\ s.changelog = r.changelog \/ s.changelog = Append(r.changelog, EntryOf(e))
      BY <2>3
    <2>8. WellFormed(s)
      BY <2>1, <2>2, <2>6, <2>7, GraphGrows
    <2> QED  BY <2>6, <2>8 DEF s
  <1>3. CASE e.kind \notin NodeKinds
    <2>1. e.order \in Seq(Ids) /\ ExtensionOf(e) \in Extension
      <3>1. e.order \in Orders
        BY LaterKinds
      <3> QED  BY <1>0, <3>1, OrdersType, PartsType
    <2>2. ASSUME NEW q \in Seq(Ids) PROVE [r EXCEPT !.pages = q] \in Record
      BY DEF Record
    <2>3. [r EXCEPT !.rotated = TRUE] \in Record /\ [r EXCEPT !.extension = ExtensionOf(e)] \in Record
      BY <2>1 DEF Record
    <2>4. CASE e.kind \in {"PageAdded", "PageRemoved"}
      <3>1. e.id \in Ids
        BY <2>4, LaterKinds DEF NodeKinds, Backfilling
      <3>2. Append(r.pages, e.id) \in Seq(Ids) /\ RemoveFirst(r.pages, e.id) \in Seq(Ids)
        BY <1>1, <3>1, RemovedType
      <3>3. [r EXCEPT !.pages = Append(@, e.id)] \in Record
            /\ [r EXCEPT !.pages = RemoveFirst(@, e.id)] \in Record
        BY <2>2, <3>2
      <3>4. \/ s = [r EXCEPT !.pages = Append(@, e.id)]
            \/ s = [r EXCEPT !.pages = RemoveFirst(@, e.id)]
        BY <1>3, <2>4, OtherApplied
      <3>5. s.nodes = r.nodes /\ s.history = r.history /\ s.changelog = r.changelog
        BY <3>4 DEF Record
      <3> HIDE DEF s
      <3>6. s \in Record /\ WellFormed(s)
        BY <3>3, <3>4, <3>5 DEF WellFormed
      <3> QED  BY <3>6 DEF s
    <2>5. CASE e.kind \in {"RotationUpdated", "ExtensionSet", "PageReordered", "ProjectExported"}
      <3>1. \/ s = [r EXCEPT !.rotated = TRUE] \/ s = [r EXCEPT !.extension = ExtensionOf(e)]
            \/ s = [r EXCEPT !.pages = e.order] \/ s = r
        BY <1>3, <2>5, OtherApplied
      <3>2. s.nodes = r.nodes /\ s.history = r.history /\ s.changelog = r.changelog
        BY <3>1 DEF Record
      <3> HIDE DEF s
      <3>3. s \in Record /\ WellFormed(s)
        BY <2>1, <2>2, <2>3, <3>1, <3>2 DEF WellFormed
      <3> QED  BY <3>3 DEF s
    <2> QED  BY <1>3, <2>4, <2>5, LaterKinds
  <1> QED  BY <1>2, <1>3

\* What a command that raised has left is a record all the same.
LEMMA HalfAppliedType ==
    ASSUME NEW r \in Record, WellFormed(r), NEW e \in Event, e.id \in Ids
    PROVE  HalfApplied(r, e) \in Record /\ WellFormed(HalfApplied(r, e))
  <1>1. CASE e.kind = "OcrCompleted"
    <2>1. HalfApplied(r, e) = [r EXCEPT !.failed = FALSE]
      BY <1>1 DEF HalfApplied
    <2>2. /\ [r EXCEPT !.failed = FALSE] \in Record
          /\ [r EXCEPT !.failed = FALSE].nodes = r.nodes
          /\ [r EXCEPT !.failed = FALSE].history = r.history
          /\ [r EXCEPT !.failed = FALSE].changelog = r.changelog
      BY DEF Record
    <2> QED  BY <2>1, <2>2 DEF WellFormed
  <1>2. CASE e.kind # "OcrCompleted"
    <2> DEFINE node == WithBlobRefs(e)  s == WithNode(r, e.id, node)
    <2>1. node \in Node /\ EntryOf(e) \in Entry /\ EntryOf(e).id = e.id
      BY PartsType DEF EntryOf
    <2> HIDE DEF node
    <2>2. /\ [r.nodes EXCEPT ![e.id] = node] \in [Ids -> Node \cup {None}]
          /\ Append(r.history, e.id) \in Seq(Ids)
      BY <2>1 DEF Record
    <2>3. s = [[r EXCEPT !.nodes = [r.nodes EXCEPT ![e.id] = node]]
                 EXCEPT !.history = Append(r.history, e.id)]
      BY DEF WithNode, Record
    <2>4. s \in Record /\ s.nodes = [r.nodes EXCEPT ![e.id] = node]
          /\ s.history = Append(r.history, e.id) /\ s.changelog = r.changelog
      BY <2>2, <2>3 DEF Record
    <2> HIDE DEF s
    <2>5. WellFormed(s)
      BY <2>1, <2>4, GraphGrows
    <2> QED  BY <1>2, <2>4, <2>5 DEF HalfApplied, s, node
  <1> QED  BY <1>1, <1>2

-------------------------------------------------------------------------------
(* Records and events as JSON.                                             *)

Bare(nodes) ==
    [i \in Ids |-> IF nodes[i] = None THEN None ELSE [nodes[i] EXCEPT !.data = "plain"]]
Log(q) == [k \in DOMAIN q |-> [q[k] EXCEPT !.changes = "plain"]]
PlainExtension(x) == [x EXCEPT !.data = "plain"]
AllPlain(e) == [e EXCEPT !.data = "plain", !.changes = "plain"]

LEMMA BareNode ==
    ASSUME NEW node \in Node
    PROVE  /\ [node EXCEPT !.data = "plain"] \in Node /\ [node EXCEPT !.data = "plain"] # None
           /\ [[node EXCEPT !.data = "plain"] EXCEPT !.data = "plain"]
                = [node EXCEPT !.data = "plain"]
  <1>1. [node EXCEPT !.data = "plain"] \in Node
    BY DEF Node, Forms
  <1> QED  BY <1>1, PageAssumption DEF Node

LEMMA BareType ==
    ASSUME NEW nodes \in [Ids -> Node \cup {None}]
    PROVE  /\ Bare(nodes) \in [Ids -> Node \cup {None}]
           /\ \A i \in Ids : Bare(nodes)[i] = None <=> nodes[i] = None
           /\ Bare(Bare(nodes)) = Bare(nodes)
  <1>1. \A i \in Ids : nodes[i] # None => nodes[i] \in Node
    OBVIOUS
  <1>2. \A i \in Ids : nodes[i] # None => /\ [nodes[i] EXCEPT !.data = "plain"] \in Node
                                         /\ [nodes[i] EXCEPT !.data = "plain"] # None
                                         /\ [[nodes[i] EXCEPT !.data = "plain"] EXCEPT !.data = "plain"]
                                              = [nodes[i] EXCEPT !.data = "plain"]
    BY <1>1, BareNode
  <1>3. /\ Bare(nodes) \in [Ids -> Node \cup {None}]
        /\ \A i \in Ids : Bare(nodes)[i] = None <=> nodes[i] = None
    BY <1>2 DEF Bare
  <1> DEFINE b == Bare(nodes)
  <1>4. \A i \in Ids : (IF b[i] = None THEN None ELSE [b[i] EXCEPT !.data = "plain"]) = b[i]
    <2> SUFFICES ASSUME NEW i \in Ids
                 PROVE  (IF b[i] = None THEN None ELSE [b[i] EXCEPT !.data = "plain"]) = b[i]
      OBVIOUS
    <2>1. b[i] = IF nodes[i] = None THEN None ELSE [nodes[i] EXCEPT !.data = "plain"]
      BY DEF Bare
    <2> HIDE DEF b
    <2> QED  BY <1>2, <2>1
  <1>5. b = [i \in Ids |-> b[i]]
    BY DEF Bare
  <1>6. Bare(b) = b
    <2> HIDE DEF b
    <2>1. Bare(b) = [i \in Ids |-> IF b[i] = None THEN None ELSE [b[i] EXCEPT !.data = "plain"]]
      BY DEF Bare
    <2> QED  BY <1>4, <1>5, <2>1
  <1> QED  BY <1>3, <1>6, Zenon

LEMMA LogType ==
    ASSUME NEW q \in Seq(Entry)
    PROVE  /\ Log(q) \in Seq(Entry) /\ Len(Log(q)) = Len(q)
           /\ \A k \in 1..Len(q) : Log(q)[k] = [q[k] EXCEPT !.changes = "plain"]
           /\ \A k \in 1..Len(q) : Log(q)[k].id = q[k].id
           /\ Log(Log(q)) = Log(q)
  <1>1. Len(q) \in Nat /\ DOMAIN q = 1..Len(q) /\ \A k \in 1..Len(q) : q[k] \in Entry
    OBVIOUS
  <1>2. ASSUME NEW x \in Entry
        PROVE  /\ [x EXCEPT !.changes = "plain"] \in Entry
               /\ [x EXCEPT !.changes = "plain"].id = x.id
               /\ [[x EXCEPT !.changes = "plain"] EXCEPT !.changes = "plain"]
                    = [x EXCEPT !.changes = "plain"]
    BY DEF Entry, Forms
  <1>3. Log(q) = [k \in 1..Len(q) |-> [q[k] EXCEPT !.changes = "plain"]]
    BY <1>1 DEF Log
  <1>4. \A k \in 1..Len(q) : Log(q)[k] = [q[k] EXCEPT !.changes = "plain"]
    BY <1>3
  <1>5. Log(q) \in Seq(Entry) /\ Len(Log(q)) = Len(q) /\ DOMAIN Log(q) = 1..Len(q)
    <2>1. \A k \in 1..Len(q) : [q[k] EXCEPT !.changes = "plain"] \in Entry
      BY <1>1, <1>2
    <2>2. Log(q) \in [1..Len(q) -> Entry]
      BY <1>3, <2>1
    <2> HIDE DEF Log
    <2>3. Log(q) \in Seq(Entry)
      BY <1>1, <2>2, SeqDef
    <2> QED  BY <1>1, <2>2, <2>3
  <1> DEFINE b == Log(q)
  <1>6. \A k \in 1..Len(q) : [b[k] EXCEPT !.changes = "plain"] = b[k]
    BY <1>1, <1>2, <1>4
  <1>7. b = [k \in 1..Len(q) |-> b[k]]
    BY <1>3
  <1>8. Log(b) = b
    <2>1. DOMAIN b = 1..Len(q)
      BY <1>5
    <2> HIDE DEF b
    <2>2. Log(b) = [k \in 1..Len(q) |-> [b[k] EXCEPT !.changes = "plain"]]
      BY <2>1 DEF Log
    <2> QED  BY <1>6, <1>7, <2>2
  <1>9. \A k \in 1..Len(q) : Log(q)[k].id = q[k].id
    BY <1>1, <1>2, <1>4
  <1> QED  BY <1>4, <1>5, <1>8, <1>9

LEMMA LogAppend ==
    ASSUME NEW q \in Seq(Entry), NEW x \in Entry
    PROVE  Log(Append(q, x)) = Append(Log(q), [x EXCEPT !.changes = "plain"])
  <1> DEFINE y == [x EXCEPT !.changes = "plain"]  a == Append(q, x)  b == Append(Log(q), y)
             n == Len(q)
  <1>0. y \in Entry
    BY DEF Entry, Forms
  <1>1. /\ n \in Nat /\ Log(q) \in Seq(Entry) /\ Len(Log(q)) = n
        /\ \A k \in 1..n : Log(q)[k] = [q[k] EXCEPT !.changes = "plain"]
    BY LogType
  <1> HIDE DEF n, y
  <1>2. a \in Seq(Entry) /\ Len(a) = n + 1 /\ a[n + 1] = x /\ \A k \in 1..n : a[k] = q[k]
    BY <1>1 DEF n
  <1>3. b \in Seq(Entry) /\ Len(b) = n + 1 /\ b[n + 1] = y /\ \A k \in 1..n : b[k] = Log(q)[k]
    BY <1>0, <1>1
  <1> HIDE DEF a, b
  <1>4. Log(a) \in Seq(Entry) /\ Len(Log(a)) = n + 1
        /\ \A k \in 1..(n + 1) : Log(a)[k] = [a[k] EXCEPT !.changes = "plain"]
    BY <1>2, LogType
  <1>k. \A k \in 1..n : k \in 1..(n + 1)
    BY <1>1
  <1>5. \A k \in 1..(n + 1) : Log(a)[k] = b[k]
    <2> SUFFICES ASSUME NEW k \in 1..(n + 1)
                 PROVE  Log(a)[k] = b[k]
      OBVIOUS
    <2>1. CASE k = n + 1
      BY <1>2, <1>3, <1>4, <2>1 DEF y
    <2>2. CASE k # n + 1
      <3>1. k \in 1..n
        BY <1>1, <2>2
      <3>2. a[k] = q[k] /\ b[k] = Log(q)[k]
        BY <1>2, <1>3, <3>1
      <3>3. Log(q)[k] = [q[k] EXCEPT !.changes = "plain"]
        BY <1>1, <3>1
      <3>4. Log(a)[k] = [a[k] EXCEPT !.changes = "plain"]
        BY <1>4, <1>k, <3>1
      <3> QED  BY <3>2, <3>3, <3>4
    <2> QED  BY <2>1, <2>2
  <1>6. Log(a) = b
    BY <1>3, <1>4, <1>5
  <1> QED  BY <1>6 DEF a, b, y

LEMMA AsJsonIs ==
    ASSUME NEW r \in Record
    PROVE  AsJson(r) = [failed |-> r.failed, rotated |-> r.rotated,
                        extension |-> PlainExtension(r.extension),
                        nodes |-> Bare(r.nodes), history |-> r.history,
                        changelog |-> Log(r.changelog), pages |-> r.pages]
  <1>1. AsJson(r) = [r EXCEPT !.extension = PlainExtension(r.extension),
                              !.nodes = Bare(r.nodes), !.changelog = Log(r.changelog)]
    <2>1. r = [failed |-> r.failed, rotated |-> r.rotated, extension |-> r.extension,
               nodes |-> r.nodes, history |-> r.history, changelog |-> r.changelog,
               pages |-> r.pages]
      BY DEF Record
    <2> QED  BY <2>1 DEF AsJson, Bare, Log, PlainExtension
  <1> QED  BY <1>1 DEF Record

LEMMA ExtensionType ==
    ASSUME NEW x \in Extension
    PROVE  PlainExtension(x) \in Extension /\ PlainExtension(PlainExtension(x)) = PlainExtension(x)
  BY DEF Extension, PlainExtension, Forms

LEMMA AsJsonType ==
    ASSUME NEW r \in Record
    PROVE  /\ AsJson(r) \in Record
           /\ WellFormed(r) => WellFormed(AsJson(r))
           /\ AsJson(AsJson(r)) = AsJson(r)
  <1> DEFINE s == AsJson(r)
  <1>1. /\ r.nodes \in [Ids -> Node \cup {None}] /\ r.history \in Seq(Ids)
        /\ r.changelog \in Seq(Entry) /\ r.pages \in Seq(Ids)
        /\ r.failed \in BOOLEAN /\ r.rotated \in BOOLEAN /\ r.extension \in Extension
    BY DEF Record
  <1>2. s = [failed |-> r.failed, rotated |-> r.rotated, extension |-> PlainExtension(r.extension),
             nodes |-> Bare(r.nodes), history |-> r.history,
             changelog |-> Log(r.changelog), pages |-> r.pages]
    BY AsJsonIs
  <1> HIDE DEF s
  <1>3. s \in Record
    BY <1>1, <1>2, BareType, LogType, ExtensionType DEF Record
  <1>4. ASSUME WellFormed(r) PROVE WellFormed(s)
    <2>1. \A i \in ToSet(r.history) : i \in Ids
      BY <1>1 DEF ToSet
    <2>2. \A x \in ToSet(Log(r.changelog)) : \E y \in ToSet(r.changelog) : x.id = y.id
      <3>1. Log(r.changelog) \in Seq(Entry) /\ Len(Log(r.changelog)) = Len(r.changelog)
            /\ \A k \in 1..Len(r.changelog) : Log(r.changelog)[k].id = r.changelog[k].id
        BY <1>1, LogType
      <3>2. DOMAIN Log(r.changelog) = 1..Len(r.changelog)
            /\ DOMAIN r.changelog = 1..Len(r.changelog)
        BY <1>1, <3>1
      <3> QED  BY <3>1, <3>2 DEF ToSet
    <2> QED  BY <1>1, <1>2, <1>4, <2>1, <2>2, BareType DEF WellFormed
  <1>5. AsJson(s) = s
    <2>1. AsJson(s) = [failed |-> s.failed, rotated |-> s.rotated,
             extension |-> PlainExtension(s.extension),
             nodes |-> Bare(s.nodes), history |-> s.history,
             changelog |-> Log(s.changelog), pages |-> s.pages]
      BY <1>3, AsJsonIs
    <2>2. Bare(s.nodes) = s.nodes
      BY <1>1, <1>2, BareType
    <2>3. Log(s.changelog) = s.changelog
      BY <1>1, <1>2, LogType
    <2>4. PlainExtension(s.extension) = s.extension
      BY <1>1, <1>2, ExtensionType
    <2> QED  BY <1>2, <2>1, <2>2, <2>3, <2>4
  <1> QED  BY <1>3, <1>4, <1>5 DEF s

LEMMA JsonChanged ==
    ASSUME NEW r \in Record
    PROVE  /\ \A x \in BOOLEAN : AsJson([r EXCEPT !.rotated = x]) = [AsJson(r) EXCEPT !.rotated = x]
           /\ \A x \in Extension : AsJson([r EXCEPT !.extension = x])
                                     = [AsJson(r) EXCEPT !.extension = PlainExtension(x)]
           /\ \A x \in Seq(Ids) : AsJson([r EXCEPT !.pages = x]) = [AsJson(r) EXCEPT !.pages = x]
  <1>0. AsJson(r) = [failed |-> r.failed, rotated |-> r.rotated,
                     extension |-> PlainExtension(r.extension),
                     nodes |-> Bare(r.nodes), history |-> r.history,
                     changelog |-> Log(r.changelog), pages |-> r.pages]
    BY AsJsonIs
  <1>1. ASSUME NEW x \in BOOLEAN
        PROVE  AsJson([r EXCEPT !.rotated = x]) = [AsJson(r) EXCEPT !.rotated = x]
    <2>1. PICK s \in Record : s = [r EXCEPT !.rotated = x]
      BY DEF Record
    <2>2. AsJson(s) = [failed |-> s.failed, rotated |-> s.rotated,
                       extension |-> PlainExtension(s.extension),
                       nodes |-> Bare(s.nodes), history |-> s.history,
                       changelog |-> Log(s.changelog), pages |-> s.pages]
      BY AsJsonIs
    <2>3. /\ s.failed = r.failed /\ s.rotated = x /\ s.extension = r.extension
          /\ s.nodes = r.nodes /\ s.history = r.history /\ s.changelog = r.changelog
          /\ s.pages = r.pages
      BY <2>1 DEF Record
    <2> QED  BY <1>0, <2>1, <2>2, <2>3
  <1>2. ASSUME NEW x \in Extension
        PROVE  AsJson([r EXCEPT !.extension = x]) = [AsJson(r) EXCEPT !.extension = PlainExtension(x)]
    <2>1. PICK s \in Record : s = [r EXCEPT !.extension = x]
      BY DEF Record
    <2>2. AsJson(s) = [failed |-> s.failed, rotated |-> s.rotated,
                       extension |-> PlainExtension(s.extension),
                       nodes |-> Bare(s.nodes), history |-> s.history,
                       changelog |-> Log(s.changelog), pages |-> s.pages]
      BY AsJsonIs
    <2>3. /\ s.failed = r.failed /\ s.rotated = r.rotated /\ s.extension = x
          /\ s.nodes = r.nodes /\ s.history = r.history /\ s.changelog = r.changelog
          /\ s.pages = r.pages
      BY <2>1 DEF Record
    <2> QED  BY <1>0, <2>1, <2>2, <2>3
  <1>3. ASSUME NEW x \in Seq(Ids)
        PROVE  AsJson([r EXCEPT !.pages = x]) = [AsJson(r) EXCEPT !.pages = x]
    <2>1. PICK s \in Record : s = [r EXCEPT !.pages = x]
      BY DEF Record
    <2>2. AsJson(s) = [failed |-> s.failed, rotated |-> s.rotated,
                       extension |-> PlainExtension(s.extension),
                       nodes |-> Bare(s.nodes), history |-> s.history,
                       changelog |-> Log(s.changelog), pages |-> s.pages]
      BY AsJsonIs
    <2>3. /\ s.failed = r.failed /\ s.rotated = r.rotated /\ s.extension = r.extension
          /\ s.nodes = r.nodes /\ s.history = r.history /\ s.changelog = r.changelog
          /\ s.pages = x
      BY <2>1 DEF Record
    <2> QED  BY <1>0, <2>1, <2>2, <2>3
  <1> QED  BY <1>1, <1>2, <1>3

LEMMA AllPlainEvent ==
    ASSUME NEW e \in Event
    PROVE  /\ AllPlain(e) \in Event /\ AllPlain(e).kind = e.kind /\ AllPlain(e).id = e.id
           /\ AllPlain(e).value = e.value /\ AllPlain(e).order = e.order
           /\ AllPlain(e).data = "plain" /\ AllPlain(e).changes = "plain"
           /\ AllPlain(Recorded(e)) = AllPlain(e)
           /\ e.data = "plain" /\ e.changes = "plain" => AllPlain(e) = e
           /\ e \in Later => AllPlain(e) \in Later
  <1>1. /\ AllPlain(e) \in Event /\ AllPlain(e).kind = e.kind /\ AllPlain(e).id = e.id
        /\ AllPlain(e).value = e.value /\ AllPlain(e).order = e.order
        /\ AllPlain(e).data = "plain" /\ AllPlain(e).changes = "plain"
        /\ AllPlain(Recorded(e)) = AllPlain(e)
        /\ e.data = "plain" /\ e.changes = "plain" => AllPlain(e) = e
    BY DEF AllPlain, Recorded, Event, Forms
  <1> QED  BY <1>1 DEF Later

\* A command makes the same, as JSON, of a record and of what JSON keeps of it.
LEMMA AppliedJson ==
    ASSUME NEW r \in Record, WellFormed(r), NEW e \in Later
    PROVE  AsJson(Applied(r, e)) = Applied(AsJson(r), AllPlain(e))
  <1> DEFINE s == Applied(r, e)  k == AsJson(r)  j == AllPlain(e)
  <1>1. s \in Record /\ k \in Record
    BY AppliedType, AsJsonType
  <1>2. k = [failed |-> r.failed, rotated |-> r.rotated, extension |-> PlainExtension(r.extension),
             nodes |-> Bare(r.nodes), history |-> r.history,
             changelog |-> Log(r.changelog), pages |-> r.pages]
    BY AsJsonIs
  <1>3. AsJson(s) = [failed |-> s.failed, rotated |-> s.rotated,
             extension |-> PlainExtension(s.extension),
             nodes |-> Bare(s.nodes), history |-> s.history,
             changelog |-> Log(s.changelog), pages |-> s.pages]
    BY <1>1, AsJsonIs
  <1>4. r.nodes \in [Ids -> Node \cup {None}] /\ r.changelog \in Seq(Entry)
        /\ r.pages \in Seq(Ids)
    BY DEF Record
  <1>5. e \in Event /\ j \in Later /\ j.kind = e.kind /\ j.id = e.id /\ j.value = e.value
        /\ j.order = e.order /\ j.data = "plain" /\ j.changes = "plain"
    BY LaterKinds, AllPlainEvent
  <1>6. CASE e.kind \in NodeKinds
    <2> DEFINE node == WithBlobRefs(e)  bare == WithBlobRefs(j)
               x == EntryOf(e)  y == EntryOf(j)
    <2>1. e.id \in Ids
      BY <1>6, LaterKinds DEF Later
    <2>2. node \in Node /\ node # None /\ x \in Entry
      BY <1>5, <2>1, PartsType
    <2>3. [node EXCEPT !.data = "plain"] = bare
      BY <1>5 DEF WithBlobRefs, Backfilled
    <2>4. [x EXCEPT !.changes = "plain"] = y
      BY <1>5 DEF EntryOf
    <2>5. s = [failed |-> r.failed /\ e.kind # "OcrCompleted", rotated |-> r.rotated,
              extension |-> r.extension,
              nodes |-> [r.nodes EXCEPT ![e.id] = node],
              history |-> Append(r.history, e.id),
              changelog |-> IF e.kind = "LabelerEdited" THEN Append(r.changelog, x)
                            ELSE r.changelog,
              pages |-> r.pages]
      BY <1>6, NodeApplied
    <2>6. Applied(k, j) =
             [failed |-> k.failed /\ j.kind # "OcrCompleted", rotated |-> k.rotated,
              extension |-> k.extension,
              nodes |-> [k.nodes EXCEPT ![j.id] = bare],
              history |-> Append(k.history, j.id),
              changelog |-> IF j.kind = "LabelerEdited" THEN Append(k.changelog, y)
                            ELSE k.changelog,
              pages |-> k.pages]
      BY <1>1, <1>5, <1>6, NodeApplied
    <2> HIDE DEF node, bare, s, k, j, x, y
    <2>7. Bare([r.nodes EXCEPT ![e.id] = node]) = [Bare(r.nodes) EXCEPT ![e.id] = bare]
      BY <1>4, <2>1, <2>2, <2>3 DEF Bare
    <2>8. Log(Append(r.changelog, x)) = Append(Log(r.changelog), y)
      BY <1>4, <2>2, <2>4, LogAppend
    <2>9. /\ s.failed = (r.failed /\ e.kind # "OcrCompleted") /\ s.rotated = r.rotated
          /\ s.extension = r.extension /\ s.nodes = [r.nodes EXCEPT ![e.id] = node]
          /\ s.history = Append(r.history, e.id) /\ s.pages = r.pages
          /\ s.changelog = IF e.kind = "LabelerEdited" THEN Append(r.changelog, x)
                           ELSE r.changelog
      BY <2>5
    <2>10. /\ k.failed = r.failed /\ k.rotated = r.rotated
           /\ k.extension = PlainExtension(r.extension)
           /\ k.nodes = Bare(r.nodes) /\ k.history = r.history
           /\ k.changelog = Log(r.changelog) /\ k.pages = r.pages
      BY <1>2
    <2>11. Log(s.changelog) = IF e.kind = "LabelerEdited" THEN Append(k.changelog, y)
                              ELSE k.changelog
      BY <2>8, <2>9, <2>10
    <2>12. Bare(s.nodes) = [k.nodes EXCEPT ![e.id] = bare]
      BY <2>7, <2>9, <2>10
    <2>13. s.failed = (k.failed /\ j.kind # "OcrCompleted")
      BY <1>5, <2>9, <2>10
    <2>14. AsJson(s) = Applied(k, j)
      <3>3. Applied(k, j) = [failed |-> s.failed, rotated |-> k.rotated,
              extension |-> k.extension,
              nodes |-> [k.nodes EXCEPT ![j.id] = bare],
              history |-> Append(k.history, j.id),
              changelog |-> IF j.kind = "LabelerEdited" THEN Append(k.changelog, y)
                            ELSE k.changelog,
              pages |-> k.pages]
        BY <2>6, <2>13
      <3>4. /\ k.rotated = s.rotated /\ k.extension = PlainExtension(s.extension)
            /\ Bare(s.nodes) = [k.nodes EXCEPT ![j.id] = bare]
            /\ s.history = Append(k.history, j.id)
            /\ Log(s.changelog) = (IF j.kind = "LabelerEdited" THEN Append(k.changelog, y)
                                   ELSE k.changelog)
            /\ k.pages = s.pages
        BY <1>5, <2>9, <2>10, <2>11, <2>12
      <3> QED  BY <1>3, <3>3, <3>4
    <2> QED  BY <2>14 DEF s, k, j
  <1>7. CASE e.kind \notin NodeKinds
    <2>1. CASE e.kind = "RotationUpdated"
      <3>1. s = [r EXCEPT !.rotated = TRUE] /\ Applied(k, j) = [k EXCEPT !.rotated = TRUE]
        BY <1>1, <1>5, <1>7, <2>1, OtherApplied
      <3> HIDE DEF s, k, j
      <3>2. TRUE \in BOOLEAN
        OBVIOUS
      <3>3. AsJson(s) = Applied(k, j)
        BY <3>1, <3>2, JsonChanged DEF k
      <3> QED  BY <3>3 DEF s, k, j
    <2>2. CASE e.kind = "ExtensionSet"
      <3>1. s = [r EXCEPT !.extension = ExtensionOf(e)]
            /\ Applied(k, j) = [k EXCEPT !.extension = ExtensionOf(j)]
        BY <1>1, <1>5, <1>7, <2>2, OtherApplied
      <3>2. ExtensionOf(e) \in Extension /\ PlainExtension(ExtensionOf(e)) = ExtensionOf(j)
        <4>1. ExtensionOf(e) \in Extension
          BY <1>5, PartsType
        <4> HIDE DEF j
        <4> QED  BY <1>5, <4>1 DEF ExtensionOf, PlainExtension
      <3> HIDE DEF s, k, j
      <3>3. AsJson(s) = Applied(k, j)
        BY <3>1, <3>2, JsonChanged DEF k
      <3> QED  BY <3>3 DEF s, k, j
    <2>3. CASE e.kind = "PageAdded"
      <3>0. e.id \in Ids
        BY <1>7, <2>3, LaterKinds DEF NodeKinds, Backfilling
      <3>1. s = [r EXCEPT !.pages = Append(r.pages, e.id)] /\ Applied(k, j) = [k EXCEPT !.pages = Append(k.pages, j.id)]
        <4>1. s = [r EXCEPT !.pages = Append(@, e.id)]
          BY <1>7, <2>3, OtherApplied
        <4>2. Applied(k, j) = [k EXCEPT !.pages = Append(@, j.id)]
          BY <1>1, <1>5, <1>7, <2>3, OtherApplied
        <4> HIDE DEF s, k, j
        <4> QED  BY <1>1, <4>1, <4>2 DEF Record
      <3> HIDE DEF s, k, j
      <3>2. k.pages = r.pages /\ Append(r.pages, e.id) \in Seq(Ids)
        BY <1>2, <1>4, <3>0
      <3>3. AsJson([r EXCEPT !.pages = Append(r.pages, e.id)]) = [k EXCEPT !.pages = Append(r.pages, e.id)]
        BY <3>2, JsonChanged DEF k
      <3>4. AsJson(s) = Applied(k, j)
        BY <1>5, <3>1, <3>2, <3>3
      <3> QED  BY <3>4 DEF s, k, j
    <2>4. CASE e.kind = "PageReordered"
      <3>1. s = [r EXCEPT !.pages = e.order] /\ Applied(k, j) = [k EXCEPT !.pages = j.order]
        <4>1. s = [r EXCEPT !.pages = e.order]
          BY <1>7, <2>4, OtherApplied
        <4>2. Applied(k, j) = [k EXCEPT !.pages = j.order]
          BY <1>1, <1>5, <1>7, <2>4, OtherApplied
        <4> HIDE DEF s, k, j
        <4> QED  BY <1>1, <4>1, <4>2 DEF Record
      <3> HIDE DEF s, k, j
      <3>2. k.pages = r.pages /\ e.order \in Seq(Ids)
        BY <1>2, LaterKinds, OrdersType
      <3>3. AsJson([r EXCEPT !.pages = e.order]) = [k EXCEPT !.pages = e.order]
        BY <3>2, JsonChanged DEF k
      <3>4. AsJson(s) = Applied(k, j)
        BY <1>5, <3>1, <3>2, <3>3
      <3> QED  BY <3>4 DEF s, k, j
    <2>5. CASE e.kind = "PageRemoved"
      <3>0. e.id \in Ids
        BY <1>7, <2>5, LaterKinds DEF NodeKinds, Backfilling
      <3>1. s = [r EXCEPT !.pages = RemoveFirst(r.pages, e.id)] /\ Applied(k, j) = [k EXCEPT !.pages = RemoveFirst(k.pages, j.id)]
        <4>1. s = [r EXCEPT !.pages = RemoveFirst(@, e.id)]
          BY <1>7, <2>5, OtherApplied
        <4>2. Applied(k, j) = [k EXCEPT !.pages = RemoveFirst(@, j.id)]
          BY <1>1, <1>5, <1>7, <2>5, OtherApplied
        <4> HIDE DEF s, k, j
        <4> QED  BY <1>1, <4>1, <4>2 DEF Record
      <3> HIDE DEF s, k, j
      <3>2. k.pages = r.pages /\ RemoveFirst(r.pages, e.id) \in Seq(Ids)
        BY <1>2, <1>4, <3>0, RemovedType
      <3>3. AsJson([r EXCEPT !.pages = RemoveFirst(r.pages, e.id)]) = [k EXCEPT !.pages = RemoveFirst(r.pages, e.id)]
        BY <3>2, JsonChanged DEF k
      <3>4. AsJson(s) = Applied(k, j)
        BY <1>5, <3>1, <3>2, <3>3
      <3> QED  BY <3>4 DEF s, k, j
    <2>6. CASE e.kind = "ProjectExported"
      <3>1. s = r /\ Applied(k, j) = k
        BY <1>1, <1>5, <1>7, <2>6, OtherApplied
      <3> QED  BY <3>1
    <2> QED  BY <1>7, <2>1, <2>2, <2>3, <2>4, <2>5, <2>6, LaterKinds
  <1> QED  BY <1>6, <1>7

-------------------------------------------------------------------------------
(* Replays of histories.                                                   *)

\* A record that follows from events of the commands.
LEMMA AfterType ==
    ASSUME NEW base \in Nat, NEW v \in Nat, v >= base, NEW events,
           NEW r \in Record, WellFormed(r),
           \A u \in base + 1 .. v : events[u] \in Later
    PROVE  /\ After(base, r, events, v) \in Record
           /\ WellFormed(After(base, r, events, v))
  <1> DEFINE a(n) == After(base, r, events, n)
             good(n) == a(n) \in Record /\ WellFormed(a(n))
             S == {n \in base..v : ~good(n)}
  <1>1. CASE S # {}
    <2>1. PICK n \in S : \A m \in S : n <= m
      <3>1. S \in SUBSET Nat
        OBVIOUS
      <3> HIDE DEF S
      <3> QED  BY <1>1, <3>1, LeastOf
    <2>2. n \in base..v /\ n \in Nat /\ n >= base /\ ~good(n)
      BY <2>1
    <2>3. a(n) = IF n = base THEN r ELSE Applied(a(n - 1), events[n])
      BY <2>2, AfterStep
    <2>4. n # base
      BY <2>2, <2>3
    <2>5. n - 1 \in base..v /\ ~(n <= n - 1)
      BY <2>2, <2>4
    <2> HIDE DEF a
    <2>6. n - 1 \notin S
      <3> HIDE DEF S
      <3> QED  BY <2>1, <2>5
    <2>7. good(n - 1)
      BY <2>5, <2>6
    <2>8. events[n] \in Later
      BY <2>2, <2>4
    <2>9. a(n) = Applied(a(n - 1), events[n])
      BY <2>3, <2>4
    <2>10. a(n) \in Record /\ WellFormed(a(n))
      BY <2>7, <2>8, <2>9, AppliedType
    <2> QED  BY <2>2, <2>10
  <1>2. CASE S = {}
    <2>1. v \in base..v
      OBVIOUS
    <2>2. good(v)
      <3> HIDE DEF good
      <3> QED  BY <1>2, <2>1
    <2> QED  BY <2>2
  <1> QED  BY <1>1, <1>2

\* Replays of events that are the same as JSON, on records that are, stay the same as JSON.
LEMMA AfterJson ==
    ASSUME NEW base \in Nat, NEW v \in Nat, v >= base, NEW f, NEW g,
           NEW r \in Record, WellFormed(r), NEW s \in Record, WellFormed(s),
           AsJson(r) = AsJson(s),
           \A u \in base + 1 .. v : /\ f[u] \in Later /\ g[u] \in Later
                                    /\ AllPlain(f[u]) = AllPlain(g[u])
    PROVE  AsJson(After(base, r, f, v)) = AsJson(After(base, s, g, v))
  <1> DEFINE a(n) == After(base, r, f, n)  b(n) == After(base, s, g, n)
             S == {n \in base..v : AsJson(a(n)) # AsJson(b(n))}
  <1>1. CASE S # {}
    <2>1. PICK n \in S : \A m \in S : n <= m
      <3>1. S \in SUBSET Nat
        OBVIOUS
      <3> HIDE DEF S
      <3> QED  BY <1>1, <3>1, LeastOf
    <2>2. n \in base..v /\ n \in Nat /\ n >= base /\ AsJson(a(n)) # AsJson(b(n))
      BY <2>1
    <2>3. a(n) = IF n = base THEN r ELSE Applied(a(n - 1), f[n])
      BY <2>2, AfterStep
    <2>4. b(n) = IF n = base THEN s ELSE Applied(b(n - 1), g[n])
      BY <2>2, AfterStep
    <2>5. n # base
      <3> HIDE DEF a, b
      <3> QED  BY <2>2, <2>3, <2>4
    <2>6. n - 1 \in base..v /\ ~(n <= n - 1) /\ n - 1 \in Nat /\ n - 1 >= base
          /\ n \in base + 1 .. v
      BY <2>2, <2>5
    <2>7. \A u \in base + 1 .. n - 1 : f[u] \in Later /\ g[u] \in Later
      BY <2>2
    <2>8. a(n - 1) \in Record /\ WellFormed(a(n - 1))
      BY <2>6, <2>7, AfterType
    <2>9. b(n - 1) \in Record /\ WellFormed(b(n - 1))
      BY <2>6, <2>7, AfterType
    <2> HIDE DEF a, b
    <2>10. n - 1 \notin S
      <3> HIDE DEF S
      <3> QED  BY <2>1, <2>6
    <2>11. AsJson(a(n - 1)) = AsJson(b(n - 1))
      BY <2>6, <2>10
    <2>12. AsJson(a(n)) = Applied(AsJson(a(n - 1)), AllPlain(f[n]))
      BY <2>3, <2>5, <2>6, <2>8, AppliedJson
    <2>13. AsJson(b(n)) = Applied(AsJson(b(n - 1)), AllPlain(g[n]))
      BY <2>4, <2>5, <2>6, <2>9, AppliedJson
    <2> QED  BY <2>2, <2>6, <2>11, <2>12, <2>13
  <1>2. CASE S = {}
    <2> HIDE DEF a, b
    <2>1. AsJson(a(v)) = AsJson(b(v))
      BY <1>2
    <2> QED  BY <2>1 DEF a, b
  <1> QED  BY <1>1, <1>2

\* JSON gives a record back that follows from events it gives back.
LEMMA AfterPlain ==
    ASSUME NEW base \in Nat, NEW v \in Nat, v >= base, NEW events,
           NEW r \in Record, WellFormed(r), AsJson(r) = r,
           \A u \in base + 1 .. v : events[u] \in Later /\ AllPlain(events[u]) = events[u]
    PROVE  AsJson(After(base, r, events, v)) = After(base, r, events, v)
  <1> DEFINE a(n) == After(base, r, events, n)
             S == {n \in base..v : AsJson(a(n)) # a(n)}
  <1>1. CASE S # {}
    <2>1. PICK n \in S : \A m \in S : n <= m
      <3>1. S \in SUBSET Nat
        OBVIOUS
      <3> HIDE DEF S
      <3> QED  BY <1>1, <3>1, LeastOf
    <2>2. n \in base..v /\ n \in Nat /\ n >= base /\ AsJson(a(n)) # a(n)
      BY <2>1
    <2>3. a(n) = IF n = base THEN r ELSE Applied(a(n - 1), events[n])
      BY <2>2, AfterStep
    <2>4. n # base
      <3> HIDE DEF a
      <3> QED  BY <2>2, <2>3
    <2>5. n - 1 \in base..v /\ ~(n <= n - 1) /\ n - 1 \in Nat /\ n - 1 >= base
          /\ n \in base + 1 .. v
      BY <2>2, <2>4
    <2>6. \A u \in base + 1 .. n - 1 : events[u] \in Later
      BY <2>2
    <2>7. a(n - 1) \in Record /\ WellFormed(a(n - 1))
      BY <2>5, <2>6, AfterType
    <2> HIDE DEF a
    <2>8. n - 1 \notin S
      <3> HIDE DEF S
      <3> QED  BY <2>1, <2>5
    <2>9. AsJson(a(n - 1)) = a(n - 1)
      BY <2>5, <2>8
    <2>10. AsJson(a(n)) = Applied(AsJson(a(n - 1)), AllPlain(events[n]))
      BY <2>3, <2>4, <2>5, <2>7, AppliedJson
    <2> QED  BY <2>2, <2>3, <2>4, <2>5, <2>9, <2>10
  <1>2. CASE S = {}
    <2> HIDE DEF a
    <2>1. AsJson(a(v)) = a(v)
      BY <1>2
    <2> QED  BY <2>1 DEF a
  <1> QED  BY <1>1, <1>2

LEMMA AfterAgrees ==
    ASSUME NEW base \in Nat, NEW v \in Nat, v >= base, NEW r, NEW f, NEW g,
           \A u \in base + 1 .. v : f[u] = g[u]
    PROVE  After(base, r, f, v) = After(base, r, g, v)
  <1> DEFINE a(n) == After(base, r, f, n)  b(n) == After(base, r, g, n)
             S == {n \in base..v : a(n) # b(n)}
  <1>1. CASE S # {}
    <2>1. PICK n \in S : \A m \in S : n <= m
      <3>1. S \in SUBSET Nat
        OBVIOUS
      <3> HIDE DEF S
      <3> QED  BY <1>1, <3>1, LeastOf
    <2>2. n \in base..v /\ n \in Nat /\ n >= base /\ a(n) # b(n)
      BY <2>1
    <2>3. a(n) = IF n = base THEN r ELSE Applied(a(n - 1), f[n])
      BY <2>2, AfterStep
    <2>4. b(n) = IF n = base THEN r ELSE Applied(b(n - 1), g[n])
      BY <2>2, AfterStep
    <2> HIDE DEF a, b
    <2>5. n # base
      BY <2>2, <2>3, <2>4
    <2>6. n - 1 \in base..v /\ ~(n <= n - 1) /\ f[n] = g[n]
      BY <2>2, <2>5
    <2>7. n - 1 \notin S
      <3> HIDE DEF S
      <3> QED  BY <2>1, <2>6
    <2>8. a(n - 1) = b(n - 1)
      BY <2>6, <2>7
    <2> QED  BY <2>2, <2>3, <2>4, <2>5, <2>6, <2>8
  <1>2. CASE S = {}
    <2> HIDE DEF a, b
    <2>1. a(v) = b(v)
      BY <1>2
    <2> QED  BY <2>1 DEF a, b
  <1> QED  BY <1>1, <1>2

\* A replay may go on from what a replay gave.
LEMMA AfterChain ==
    ASSUME NEW base \in Nat, NEW mid \in Nat, mid >= base, NEW v \in Nat, v >= mid,
           NEW r, NEW events
    PROVE  After(mid, After(base, r, events, mid), events, v) = After(base, r, events, v)
  <1> DEFINE a(n) == After(base, r, events, n)  b(n) == After(mid, a(mid), events, n)
             S == {n \in mid..v : a(n) # b(n)}
  <1>1. CASE S # {}
    <2>1. PICK n \in S : \A m \in S : n <= m
      <3>1. S \in SUBSET Nat
        OBVIOUS
      <3> HIDE DEF S
      <3> QED  BY <1>1, <3>1, LeastOf
    <2>2. n \in mid..v /\ n \in Nat /\ n >= mid /\ n >= base /\ a(n) # b(n)
      BY <2>1
    <2>3. a(n) = IF n = base THEN r ELSE Applied(a(n - 1), events[n])
      BY <2>2, AfterStep
    <2>4. b(n) = IF n = mid THEN a(mid) ELSE Applied(b(n - 1), events[n])
      <3> HIDE DEF a
      <3> QED  BY <2>2, AfterStep
    <2> HIDE DEF a, b
    <2>5. n # mid /\ n # base
      BY <2>2, <2>4
    <2>6. n - 1 \in mid..v /\ ~(n <= n - 1)
      BY <2>2, <2>5
    <2>7. n - 1 \notin S
      <3> HIDE DEF S
      <3> QED  BY <2>1, <2>6
    <2>8. a(n - 1) = b(n - 1)
      BY <2>6, <2>7
    <2> QED  BY <2>2, <2>3, <2>4, <2>5, <2>8
  <1>2. CASE S = {}
    <2> HIDE DEF a, b
    <2>1. a(v) = b(v)
      BY <1>2
    <2> QED  BY <2>1 DEF a, b
  <1> QED  BY <1>1, <1>2

\* What can be event u of a history.
Fitting(u) == IF u = 1 THEN First ELSE Later

\* What a history has up to version v.
Fit(events, v) == \A u \in 1..v : events[u] \in Fitting(u)

LEMMA FitEvents ==
    ASSUME NEW v \in Nat, v >= 1, NEW events, Fit(events, v)
    PROVE  /\ events[1] \in First /\ \A u \in 1 + 1 .. v : events[u] \in Later
           /\ \A u \in 1..v : events[u] \in Event
  <1>1. 1 \in 1..v /\ \A u \in 1..v : u = 1 \/ u \in 1 + 1 .. v
    OBVIOUS
  <1>2. \A u \in 1 + 1 .. v : u \in 1..v /\ u # 1
    OBVIOUS
  <1> QED  BY <1>1, <1>2 DEF Fit, Fitting, First, Later

LEMMA InitialType ==
    ASSUME NEW e \in First
    PROVE  /\ Initial(e) \in Record /\ WellFormed(Initial(e))
           /\ AsJson(Initial(e)) = Initial(AllPlain(e))
  <1> DEFINE s == Initial(e)  j == AllPlain(e)
  <1>0. e \in Event
    BY DEF First
  <1>1. e.order \in Seq(Ids) /\ ExtensionOf(e) \in Extension
    <2>1. e.order \in Orders
      BY DEF First, Event
    <2> QED  BY <1>0, <2>1, OrdersType, PartsType
  <1>2. PICK b \in BOOLEAN : b = (e.kind = "ImageIngested")
    OBVIOUS
  <1>3. s = [failed |-> b, rotated |-> FALSE, extension |-> ExtensionOf(e),
             nodes |-> [i \in Ids |-> None], history |-> <<>>, changelog |-> <<>>,
             pages |-> e.order]
    <2>1. s = [EmptyRecord EXCEPT !.failed = b, !.extension = ExtensionOf(e), !.pages = e.order]
      BY <1>2, Zenon DEF Initial, ExtensionOf
    <2> QED  BY <2>1 DEF EmptyRecord
  <1>4. /\ j.kind = e.kind /\ j.order = e.order
        /\ ExtensionOf(j) = PlainExtension(ExtensionOf(e))
    <2>1. /\ j.kind = e.kind /\ j.order = e.order /\ j.value = e.value /\ j.data = "plain"
      BY <1>0, AllPlainEvent
    <2> HIDE DEF j
    <2> QED  BY <2>1 DEF ExtensionOf, PlainExtension
  <1>5. Initial(j) = [failed |-> b, rotated |-> FALSE, extension |-> PlainExtension(ExtensionOf(e)),
             nodes |-> [i \in Ids |-> None], history |-> <<>>, changelog |-> <<>>,
             pages |-> e.order]
    <2> HIDE DEF j
    <2>1. Initial(j) = [EmptyRecord EXCEPT !.failed = (j.kind = "ImageIngested"),
                                           !.extension = ExtensionOf(j), !.pages = j.order]
      BY Zenon DEF Initial, ExtensionOf
    <2>2. (j.kind = "ImageIngested") = b
      BY <1>2, <1>4
    <2>3. Initial(j) = [EmptyRecord EXCEPT !.failed = b,
                          !.extension = PlainExtension(ExtensionOf(e)), !.pages = e.order]
      BY <1>4, <2>1, <2>2, Zenon
    <2> QED  BY <2>3 DEF EmptyRecord
  <1> HIDE DEF s, j
  <1>6. s \in Record
    <2>1. <<>> \in Seq(Ids) /\ <<>> \in Seq(Entry)
          /\ [i \in Ids |-> None] \in [Ids -> Node \cup {None}] /\ FALSE \in BOOLEAN
      OBVIOUS
    <2> QED  BY <1>1, <1>2, <1>3, <2>1 DEF Record
  <1>7. WellFormed(s)
    <2>1. ToSet(<<>>) = {}
      BY DEF ToSet
    <2>2. s.history = <<>> /\ s.changelog = <<>>
      BY <1>3
    <2> QED  BY <2>1, <2>2 DEF WellFormed
  <1>8. Bare(s.nodes) = s.nodes
    BY <1>3 DEF Bare
  <1>9. Log(s.changelog) = <<>>
    <2>1. s.changelog = <<>> /\ <<>> \in Seq(Entry) /\ Len(<<>>) = 0
      BY <1>3
    <2>2. Log(<<>>) \in Seq(Entry) /\ Len(Log(<<>>)) = 0
      BY <2>1, LogType
    <2> QED  BY <2>1, <2>2
  <1>10. AsJson(s) = [failed |-> s.failed, rotated |-> s.rotated,
             extension |-> PlainExtension(s.extension),
             nodes |-> s.nodes, history |-> s.history,
             changelog |-> <<>>, pages |-> s.pages]
    BY <1>6, <1>8, <1>9, AsJsonIs
  <1>11. /\ s.failed = b /\ s.extension = ExtensionOf(e)
         /\ s.nodes = [i \in Ids |-> None] /\ s.history = <<>> /\ s.pages = e.order
    BY <1>3
  <1>12. s.rotated = FALSE
    BY <1>3
  <1>13. AsJson(s) = Initial(j)
    BY <1>5, <1>10, <1>11, <1>12
  <1> QED  BY <1>6, <1>7, <1>13 DEF s, j

LEMMA ReplayedType ==
    ASSUME NEW v \in Nat, v >= 1, NEW events, Fit(events, v)
    PROVE  Replayed(events, v) \in Record /\ WellFormed(Replayed(events, v))
  <1>1. events[1] \in First /\ \A u \in 1 + 1 .. v : events[u] \in Later
    BY FitEvents
  <1>2. Initial(events[1]) \in Record /\ WellFormed(Initial(events[1]))
    BY <1>1, InitialType
  <1> QED  BY <1>1, <1>2, AfterType DEF Replayed

LEMMA ReplayedAgrees ==
    ASSUME NEW v \in Nat, v >= 1, NEW f, NEW g, \A u \in 1..v : f[u] = g[u]
    PROVE  Replayed(f, v) = Replayed(g, v)
  <1>1. f[1] = g[1] /\ \A u \in 1 + 1 .. v : f[u] = g[u]
    OBVIOUS
  <1>2. After(1, Initial(f[1]), f, v) = After(1, Initial(f[1]), g, v)
    BY <1>1, AfterAgrees
  <1> QED  BY <1>1, <1>2 DEF Replayed

\* Histories that are the same as JSON have replays that are.
LEMMA ReplayedJson ==
    ASSUME NEW v \in Nat, v >= 1, NEW f, NEW g, Fit(f, v), Fit(g, v),
           \A u \in 1..v : AllPlain(f[u]) = AllPlain(g[u])
    PROVE  AsJson(Replayed(f, v)) = AsJson(Replayed(g, v))
  <1>1. /\ f[1] \in First /\ g[1] \in First /\ AllPlain(f[1]) = AllPlain(g[1])
        /\ \A u \in 1 + 1 .. v : /\ f[u] \in Later /\ g[u] \in Later
                                 /\ AllPlain(f[u]) = AllPlain(g[u])
    BY FitEvents
  <1>2. /\ Initial(f[1]) \in Record /\ WellFormed(Initial(f[1]))
        /\ Initial(g[1]) \in Record /\ WellFormed(Initial(g[1]))
        /\ AsJson(Initial(f[1])) = AsJson(Initial(g[1]))
    BY <1>1, InitialType
  <1>3. AsJson(After(1, Initial(f[1]), f, v)) = AsJson(After(1, Initial(g[1]), g, v))
    BY <1>1, <1>2, AfterJson
  <1> QED  BY <1>3 DEF Replayed

LEMMA ReplayedPlain ==
    ASSUME NEW v \in Nat, v >= 1, NEW events, Fit(events, v),
           \A u \in 1..v : AllPlain(events[u]) = events[u]
    PROVE  AsJson(Replayed(events, v)) = Replayed(events, v)
  <1>1. /\ events[1] \in First /\ AllPlain(events[1]) = events[1]
        /\ \A u \in 1 + 1 .. v : events[u] \in Later /\ AllPlain(events[u]) = events[u]
    BY FitEvents
  <1>2. /\ Initial(events[1]) \in Record /\ WellFormed(Initial(events[1]))
        /\ AsJson(Initial(events[1])) = Initial(events[1])
    BY <1>1, InitialType
  <1> QED  BY <1>1, <1>2, AfterPlain DEF Replayed

LEMMA JsonOnlyEvents ==
    ASSUME NEW v \in Nat, NEW events, \A u \in 1..v : events[u] \in Event, JsonOnly(events, v)
    PROVE  \A u \in 1..v : AllPlain(events[u]) = events[u] /\ Recorded(events[u]) = events[u]
  BY AllPlainEvent, RecordedEvent DEF JsonOnly

LEMMA ReplayedStep ==
    ASSUME NEW v \in Nat, v >= 1, NEW events
    PROVE  /\ Replayed(events, 1) = Initial(events[1])
           /\ Replayed(events, v + 1) = Applied(Replayed(events, v), events[v + 1])
  <1>1. After(1, Initial(events[1]), events, 1) = Initial(events[1])
    BY AfterStep
  <1>2. v + 1 \in Nat /\ v + 1 >= 1 /\ v + 1 # 1 /\ (v + 1) - 1 = v
    OBVIOUS
  <1>3. After(1, Initial(events[1]), events, v + 1)
          = Applied(After(1, Initial(events[1]), events, v), events[v + 1])
    BY <1>2, AfterStep
  <1> QED  BY <1>1, <1>3 DEF Replayed

\* Where the snapshots are what the events give, as JSON, a load gives what all the events
\* give, as JSON; and the very same where JSON gives the events back.
LEMMA ReadIsReplay ==
    ASSUME NEW v \in Versions, NEW events, NEW snaps, Fit(events, v),
           \A u \in 1..v : snaps[u] # None => snaps[u] = AsJson(Replayed(events, u))
    PROVE  /\ Read(events, snaps, v) \in Record /\ WellFormed(Read(events, snaps, v))
           /\ AsJson(Read(events, snaps, v)) = AsJson(Replayed(events, v))
           /\ JsonOnly(events, v) => Read(events, snaps, v) = Replayed(events, v)
  <1> DEFINE base == Base(snaps, v)
  <1>1. v \in 0..MaxVersion /\ v \in Nat /\ v >= 1
    BY PageAssumption DEF Versions
  <1>2. base \in 0..v /\ (base # 0 => snaps[base] # None)
    BY <1>1, BaseIsSnapshot
  <1>3. Read(events, snaps, v) = IF base = 0 THEN Replayed(events, v)
                                 ELSE After(base, snaps[base], events, v)
    BY DEF Read
  <1> HIDE DEF base
  <1>4. CASE base # 0
    <2> DEFINE whole == Replayed(events, base)  r == snaps[base]
    <2>1. base \in 1..v /\ base \in Nat /\ base >= 1 /\ v >= base
      BY <1>1, <1>2, <1>4
    <2>2. Fit(events, base)
      BY <1>1, <2>1 DEF Fit
    <2>3. whole \in Record /\ WellFormed(whole) /\ r = AsJson(whole)
      BY <1>2, <1>4, <2>1, <2>2, ReplayedType
    <2>4. r \in Record /\ WellFormed(r) /\ AsJson(r) = AsJson(whole)
      <3> HIDE DEF whole, r
      <3> QED  BY <2>3, AsJsonType
    <2>5. After(base, whole, events, v) = Replayed(events, v)
      BY <1>1, <2>1, AfterChain DEF Replayed
    <2>6. \A u \in base + 1 .. v : events[u] \in Later
      <3>1. \A u \in base + 1 .. v : u \in 1 + 1 .. v
        BY <1>1, <2>1
      <3> QED  BY <1>1, <3>1, FitEvents
    <2> HIDE DEF whole, r
    <2>7. After(base, r, events, v) \in Record /\ WellFormed(After(base, r, events, v))
      BY <1>1, <2>1, <2>4, <2>6, AfterType
    <2>8. AsJson(After(base, r, events, v)) = AsJson(After(base, whole, events, v))
      BY <1>1, <2>1, <2>3, <2>4, <2>6, AfterJson
    <2>9. ASSUME JsonOnly(events, v) PROVE r = whole
      <3>1. \A u \in 1..v : AllPlain(events[u]) = events[u]
        BY <1>1, <2>9, FitEvents, JsonOnlyEvents
      <3>2. \A u \in 1..base : AllPlain(events[u]) = events[u]
        BY <1>1, <2>1, <3>1
      <3>3. AsJson(whole) = whole
        BY <2>1, <2>2, <3>2, ReplayedPlain DEF whole
      <3> QED  BY <2>3, <3>3
    <2>10. Read(events, snaps, v) = After(base, r, events, v)
      BY <1>3, <1>4 DEF r
    <2> QED  BY <2>5, <2>7, <2>8, <2>9, <2>10
  <1>5. CASE base = 0
    BY <1>1, <1>3, <1>5, ReplayedType
  <1> QED  BY <1>4, <1>5

-------------------------------------------------------------------------------
(* The records follow from the events: an invariant on top of IInv.        *)

\* What a record has from a history of which nothing was lost on the way.
FollowsFrom(record, events) ==
    LET n == Len(events) IN
    /\ AsJson(record) = AsJson(Replayed(events, n))
    /\ JsonOnly(events, n) => record = Replayed(events, n)

\* A copy in memory: its history begins with a creation and goes on with commands, and
\* its record is the replay of them, unless it was changed behind their back.
Sound(cp) ==
    /\ cp \in Copy /\ WellFormed(cp.record)
    /\ cp.live =>
          /\ Len(cp.events) >= 1 /\ Fit(cp.events, Len(cp.events))
          /\ cp.spoilt \subseteq {"save"} => FollowsFrom(cp.record, cp.events)

\* The same of the store, and of each snapshot.
StoreInv ==
    /\ \A v \in Versions : stored[v] # None => stored[v] \in Fitting(v)
    /\ snap \in [Versions -> Record \cup {None}]
    /\ \A v \in Versions : snap[v] # None => snap[v] = AsJson(Replayed(stored, v))

OriginInv ==
    /\ faults \in 0..MaxFaults
    /\ \A v \in Versions : /\ origin[v].lost \in BOOLEAN
                           /\ origin[v].seen \in Seq(Event) /\ Len(origin[v].seen) < MaxVersion

CopiesInv == copy \in [Copies -> Copy] /\ \A c \in Copies : Sound(copy[c])

RecInv == CopiesInv /\ StoreInv /\ OriginInv

\* One copy changes, the store does not.
LEMMA QuietRecord ==
    ASSUME RecInv, NEW c \in Copies, NEW cp, copy' = [copy EXCEPT ![c] = cp], Sound(cp),
           UNCHANGED <<stored, snap, origin>>, faults' \in 0..MaxFaults
    PROVE  RecInv'
  <1>1. CopiesInv'
    <2>1. cp \in Copy
      BY DEF Sound
    <2>2. copy' \in [Copies -> Copy]
      BY <2>1 DEF RecInv, CopiesInv
    <2>3. \A d \in Copies : copy'[d] = IF d = c THEN cp ELSE copy[d]
      BY DEF RecInv, CopiesInv
    <2>4. \A d \in Copies : Sound(copy[d])
      BY DEF RecInv, CopiesInv
    <2>5. \A d \in Copies : Sound(copy'[d])
      BY <2>3, <2>4
    <2> QED  BY <2>2, <2>5 DEF CopiesInv
  <1>2. StoreInv'
    <2>1. StoreInv /\ stored' = stored /\ snap' = snap
      BY DEF RecInv
    <2> QED  BY <2>1 DEF StoreInv
  <1>3. OriginInv'
    BY DEF RecInv, OriginInv
  <1> QED  BY <1>1, <1>2, <1>3 DEF RecInv

LEMMA CopySound ==
    ASSUME RecInv, NEW c \in Copies
    PROVE  /\ copy \in [Copies -> Copy] /\ copy[c] \in Copy /\ Sound(copy[c])
           /\ faults \in 0..MaxFaults
  BY DEF RecInv, CopiesInv, OriginInv

LEMMA FaultCounts ==
    ASSUME faults \in 0..MaxFaults, Fault
    PROVE  faults' \in 0..MaxFaults
  BY PageAssumption DEF Fault

LEMMA EmptyType == EmptyRecord \in Record /\ WellFormed(EmptyRecord)
  <1>1. EmptyRecord \in Record
    <2> DEFINE x == [value |-> "none", data |-> "plain"]
    <2>1. x \in Extension
      BY DEF Extension, Values, Forms
    <2>2. EmptyRecord = [failed |-> FALSE, rotated |-> FALSE, extension |-> x,
                         nodes |-> [i \in Ids |-> None], history |-> <<>>, changelog |-> <<>>,
                         pages |-> <<>>]
      BY DEF EmptyRecord
    <2> HIDE DEF x
    <2>3. /\ <<>> \in Seq(Ids) /\ <<>> \in Seq(Entry)
          /\ [i \in Ids |-> None] \in [Ids -> Node \cup {None}]
      OBVIOUS
    <2> QED  BY <2>1, <2>2, <2>3 DEF Record
  <1>2. ToSet(<<>>) = {} /\ EmptyRecord.history = <<>> /\ EmptyRecord.changelog = <<>>
    BY DEF ToSet, EmptyRecord
  <1> QED  BY <1>1, <1>2 DEF WellFormed

\* A copy as it comes into memory.
LEMMA FreshSound ==
    ASSUME NEW events \in Seq(Event), NEW n \in 0..MaxVersion, Len(events) <= MaxVersion,
           NEW record \in Record, WellFormed(record), Len(events) >= 1,
           Fit(events, Len(events)), FollowsFrom(record, events)
    PROVE  Sound([live |-> TRUE, events |-> events, loaded |-> n, drained |-> n,
                  record |-> record, shared |-> [i \in Ids |-> 0], spoilt |-> {}])
  <1> DEFINE cp == [live |-> TRUE, events |-> events, loaded |-> n, drained |-> n,
                    record |-> record, shared |-> [i \in Ids |-> 0], spoilt |-> {}]
  <1>0. [i \in Ids |-> 0] \in [Ids -> 0..MaxVersion]
    BY PageAssumption
  <1>1. cp \in Copy
    BY <1>0 DEF Copy
  <1>2. cp.events = events /\ cp.record = record
    OBVIOUS
  <1> HIDE DEF cp
  <1>3. Sound(cp)
    BY <1>1, <1>2 DEF Sound
  <1> QED  BY <1>3 DEF cp

LEMMA GoneSound == Sound(Gone)
  <1>0. [i \in Ids |-> 0] \in [Ids -> 0..MaxVersion]
    BY PageAssumption
  <1>1. Gone \in Copy /\ Gone.record = EmptyRecord
    BY <1>0, EmptyType, PageAssumption DEF Gone, Copy
  <1>2. ~Gone.live
    BY DEF Gone
  <1> QED  BY <1>1, <1>2, EmptyType DEF Sound

LEMMA Created ==
    ASSUME NEW events, NEW r, NEW h,
           h = [Gone EXCEPT !.live = TRUE, !.events = events, !.record = r]
    PROVE  h = [live |-> TRUE, events |-> events, loaded |-> 0, drained |-> 0,
                record |-> r, shared |-> [i \in Ids |-> 0], spoilt |-> {}]
  BY DEF Gone

LEMMA Loaded ==
    ASSUME NEW events, NEW n, NEW r, NEW h,
           h = [Gone EXCEPT !.live = TRUE, !.events = events, !.loaded = n, !.drained = n,
                            !.record = r]
    PROVE  h = [live |-> TRUE, events |-> events, loaded |-> n, drained |-> n,
                record |-> r, shared |-> [i \in Ids |-> 0], spoilt |-> {}]
  BY DEF Gone

LEMMA CreateSound ==
    ASSUME IInv, RecInv, NEW c \in Copies, NEW data \in Forms, Create(c, data)
    PROVE  RecInv'
  <1> DEFINE e == [Plain(creation) EXCEPT !.data = data]  r == Initial(e)
             evs == <<e>>
             cp == [live |-> TRUE, events |-> evs, loaded |-> 0, drained |-> 0,
                    record |-> r, shared |-> [i \in Ids |-> 0], spoilt |-> {}]
  <1>1. e \in First
    <2>1. creation \in Creations
      BY DEF IInv, ShapeInv
    <2>2. e \in Event
      BY <2>1, PlainIsEvent DEF Creations
    <2> QED  BY <2>1, <2>2 DEF First, Plain
  <1>2. r \in Record /\ WellFormed(r)
    BY <1>1, InitialType
  <1>3. copy' = [copy EXCEPT ![c] = cp]
    <2>1. copy' = [copy EXCEPT ![c] = [Gone EXCEPT !.live = TRUE, !.events = evs, !.record = r]]
      BY DEF Create
    <2> HIDE DEF e, r, evs
    <2>2. PICK h : h = [Gone EXCEPT !.live = TRUE, !.events = evs, !.record = r]
      OBVIOUS
    <2>3. h = cp
      BY <2>2, Created
    <2> HIDE DEF cp
    <2> QED  BY <2>1, <2>2, <2>3
  <1> HIDE DEF e, r
  <1>4. evs \in Seq(Event) /\ Len(evs) = 1 /\ evs[1] = e
    BY <1>1 DEF First
  <1> HIDE DEF evs
  <1>5. Replayed(evs, 1) = r
    BY <1>4, ReplayedStep DEF r
  <1>6. Fit(evs, Len(evs))
    BY <1>1, <1>4 DEF Fit, Fitting
  <1>7. 0 \in 0..MaxVersion /\ Len(evs) <= MaxVersion /\ Len(evs) >= 1
    BY <1>4, PageAssumption
  <1>8. FollowsFrom(r, evs)
    BY <1>4, <1>5 DEF FollowsFrom
  <1>9. Sound(cp)
    BY <1>2, <1>4, <1>6, <1>7, <1>8, FreshSound
  <1> HIDE DEF cp
  <1> QED  BY <1>3, <1>9, CopySound, QuietRecord DEF Create

LEMMA DropSound ==
    ASSUME RecInv, NEW c \in Copies, Drop(c)
    PROVE  RecInv'
  <1>1. copy' = [copy EXCEPT ![c] = Gone]
    BY DEF Drop
  <1> QED  BY <1>1, GoneSound, CopySound, QuietRecord DEF Drop

LEMMA LoadSound ==
    ASSUME IInv, RecInv, NEW c \in Copies, Load(c)
    PROVE  RecInv'
  <1> DEFINE v == Newest(stored)  evs == Upto(stored, v)  r == Read(stored, snap, v)
             cp == [live |-> TRUE, events |-> evs, loaded |-> v, drained |-> v,
                    record |-> r, shared |-> [i \in Ids |-> 0], spoilt |-> {}]
  <1>1. v \in 0..MaxVersion /\ MaxVersion \in Nat
    BY NewestStored, PageAssumption DEF IInv, ShapeInv, Stored, Versions
  <1>2. Readable(stored, snap, v)
    BY DEF Load
  <1>3. copy' = [copy EXCEPT ![c] = cp]
    <2>1. copy' = [copy EXCEPT ![c] = [Gone EXCEPT
                  !.live = TRUE, !.events = evs, !.loaded = v, !.drained = v, !.record = r]]
      BY DEF Load
    <2> HIDE DEF v, evs, r
    <2>2. PICK h : h = [Gone EXCEPT
                  !.live = TRUE, !.events = evs, !.loaded = v, !.drained = v, !.record = r]
      OBVIOUS
    <2>3. h = cp
      BY <2>2, Loaded
    <2> HIDE DEF cp
    <2> QED  BY <2>1, <2>2, <2>3
  <1> HIDE DEF v
  <1>4. \A u \in 1..v : stored[u] # None
    <2>1. \A u \in Versions : snap[u] # None => \A w \in 1..u : stored[w] # None
      BY DEF IInv, SnapInv, Stored
    <2> QED  BY <1>1, <1>2, <2>1, ReadableHasNoGap
  <1>5. v \in Versions /\ v \in Nat /\ v >= 1 /\ v <= MaxVersion
    BY <1>1, <1>2 DEF Readable, Versions
  <1>6. \A u \in 1..v : u \in Versions
    BY <1>1, <1>5 DEF Versions
  <1>7. \A u \in 1..v : stored[u] \in Event /\ stored[u] \in Fitting(u)
    BY <1>4, <1>6 DEF IInv, ShapeInv, RecInv, StoreInv
  <1>8. evs \in Seq(Event) /\ Len(evs) = v /\ \A u \in 1..v : evs[u] = stored[u]
    BY <1>5, <1>7, SeqDef DEF Upto
  <1>9. Fit(stored, v) /\ Fit(evs, v)
    BY <1>7, <1>8 DEF Fit
  <1>10. /\ r \in Record /\ WellFormed(r)
         /\ AsJson(r) = AsJson(Replayed(stored, v))
         /\ JsonOnly(stored, v) => r = Replayed(stored, v)
    <2>1. \A u \in 1..v : snap[u] # None => snap[u] = AsJson(Replayed(stored, u))
      BY <1>6 DEF RecInv, StoreInv
    <2> QED  BY <1>5, <1>9, <2>1, ReadIsReplay
  <1> HIDE DEF evs, r
  <1>11. Replayed(stored, v) = Replayed(evs, v)
    BY <1>5, <1>8, ReplayedAgrees
  <1>12. JsonOnly(evs, v) => JsonOnly(stored, v)
    BY <1>8 DEF JsonOnly
  <1>13. FollowsFrom(r, evs)
    BY <1>8, <1>10, <1>11, <1>12 DEF FollowsFrom
  <1>14. Sound(cp)
    BY <1>1, <1>5, <1>8, <1>9, <1>10, <1>13, FreshSound
  <1> HIDE DEF cp
  <1> QED  BY <1>3, <1>14, CopySound, QuietRecord DEF Load

LEMMA CommandsLater == Commands \subseteq Later
  <1> SUFFICES ASSUME NEW e \in Commands
               PROVE  e \in Later
    OBVIOUS
  <1>1. e \in Event
    BY CommandsType
  <1> DEFINE withId == NodeKinds \cup {"PageAdded", "PageRemoved"}
  <1>2. \/ e.kind \in withId /\ e.id \in Ids
        \/ e.kind \in {"RotationUpdated", "ExtensionSet", "PageReordered", "ProjectExported"}
    <2>1. CASE e \in PageCommands
      <3>1. CASE \E k \in NodeKinds, i \in Ids, f \in Forms : e = NodeEvent(k, i, f)
        BY <3>1, NodeEventIs
      <3>2. CASE \E k \in Backfilling, i \in Ids : e = [Plain(k) EXCEPT !.id = i]
        BY <3>2 DEF Plain, NodeKinds
      <3>3. CASE e = Plain("RotationUpdated") \/ e = [Plain("ExtensionSet") EXCEPT !.value = "given"]
        BY <3>3 DEF Plain
      <3>4. \/ \E k \in NodeKinds, i \in Ids, f \in Forms : e = NodeEvent(k, i, f)
            \/ \E k \in Backfilling, i \in Ids : e = [Plain(k) EXCEPT !.id = i]
            \/ e = Plain("RotationUpdated") \/ e = [Plain("ExtensionSet") EXCEPT !.value = "given"]
        <4> DEFINE bare(k, i) == [Plain(k) EXCEPT !.id = i]
                   A == {NodeEvent(k, i, f) : k \in NodeKinds, i \in Ids, f \in Forms}
                   B == {bare(k, i) : k \in Backfilling, i \in Ids}
        <4>1. PageCommands = A \cup B \cup {Plain("RotationUpdated"),
                                            [Plain("ExtensionSet") EXCEPT !.value = "given"]}
          BY DEF PageCommands
        <4>2. /\ e \in A => \E k \in NodeKinds, i \in Ids, f \in Forms : e = NodeEvent(k, i, f)
              /\ e \in B => \E k \in Backfilling, i \in Ids : e = bare(k, i)
          <5> HIDE DEF bare
          <5> QED  OBVIOUS
        <4> HIDE DEF A, B
        <4> QED  BY <2>1, <4>1, <4>2
      <3> QED  BY <3>1, <3>2, <3>3, <3>4
    <2>2. CASE e \in ProjectCommands
      <3>1. CASE \E k \in {"PageAdded", "PageRemoved"}, i \in Ids : e = [Plain(k) EXCEPT !.id = i]
        BY <3>1 DEF Plain
      <3>2. CASE \E o \in Orders : e = [Plain("PageReordered") EXCEPT !.order = o]
        BY <3>2 DEF Plain
      <3>3. CASE e = Plain("ProjectExported")
        BY <3>3 DEF Plain
      <3> QED  BY <2>2, <3>1, <3>2, <3>3 DEF ProjectCommands
    <2> QED  BY <2>1, <2>2 DEF Commands
  <1>3. e.kind \notin Creations
    BY <1>2 DEF NodeKinds, Backfilling, Creations
  <1>4. e.kind \in NodeKinds \cup {"PageAdded", "PageRemoved"} => e.id \in Ids
    BY <1>2 DEF NodeKinds, Backfilling
  <1> QED  BY <1>1, <1>3, <1>4 DEF Later

LEMMA CommandSound ==
    ASSUME IInv, RecInv, NEW c \in Copies, NEW e \in Commands, Command(c, e)
    PROVE  RecInv'
  <1> DEFINE x == copy[c]  h == x.events  n == Len(h)  evs == Append(h, e)
             r == Applied(x.record, e)
             sh == IF e.kind \in NodeKinds
                   THEN [x.shared EXCEPT ![e.id] = IF Backfilled(e) THEN 0 ELSE n + 1]
                   ELSE x.shared
  <1>1. x \in Copy /\ Sound(x) /\ copy \in [Copies -> Copy]
    BY CopySound
  <1>2. e \in Later /\ e \in Event
    BY CommandsLater, CommandsType
  <1>3. x.live /\ n < MaxVersion /\ n \in Nat /\ MaxVersion \in Nat
    <2>1. Fits(h, x.loaded, x.drained)
      BY CopyShape
    <2> QED  BY <2>1, PageAssumption DEF Command, Lesser, Fits
  <1>4. PICK cp : cp = [x EXCEPT !.events = evs, !.record = r, !.shared = sh]
    OBVIOUS
  <1>5. copy' = [copy EXCEPT ![c] = cp]
    BY <1>1, <1>4 DEF Command
  <1>6. h \in Seq(Event) /\ x.record \in Record /\ WellFormed(x.record)
    BY <1>1 DEF Copy, Sound
  <1>7. sh \in [Ids -> 0..MaxVersion]
    <2>1. x.shared \in [Ids -> 0..MaxVersion]
      BY <1>1 DEF Copy
    <2>2. e.kind \in NodeKinds => e.id \in Ids
      BY <1>2 DEF Later
    <2> HIDE DEF x, n
    <2> QED  BY <1>3, <2>1, <2>2
  <1> HIDE DEF x, sh
  <1>8. evs \in Seq(Event) /\ Len(evs) = n + 1 /\ evs[n + 1] = e
        /\ \A u \in 1..n : evs[u] = h[u]
    BY <1>2, <1>6
  <1>9. r \in Record /\ WellFormed(r)
        /\ AsJson(r) = Applied(AsJson(x.record), AllPlain(e))
    BY <1>2, <1>6, AppliedType, AppliedJson
  <1> HIDE DEF h, evs, r, n
  <1>10. cp \in Copy /\ cp.events = evs /\ cp.record = r /\ cp.spoilt = x.spoilt
    BY <1>1, <1>4, <1>7, <1>8, <1>9 DEF Copy
  <1>11. /\ n >= 1 /\ Fit(h, n)
         /\ x.spoilt \subseteq {"save"} =>
              /\ AsJson(x.record) = AsJson(Replayed(h, n))
              /\ JsonOnly(h, n) => x.record = Replayed(h, n)
    BY <1>1, <1>3 DEF Sound, FollowsFrom, h, n
  <1>12. Fit(evs, n + 1)
    <2> SUFFICES ASSUME NEW u \in 1..(n + 1)
                 PROVE  evs[u] \in Fitting(u)
      BY DEF Fit
    <2>1. CASE u = n + 1
      <3>1. u # 1
        BY <1>3, <1>11, <2>1
      <3> QED  BY <1>2, <1>8, <2>1, <3>1 DEF Fitting
    <2>2. CASE u # n + 1
      <3>1. u \in 1..n
        BY <1>3, <2>2
      <3> QED  BY <1>8, <1>11, <3>1 DEF Fit
    <2> QED  BY <2>1, <2>2
  <1>13. ASSUME x.spoilt \subseteq {"save"}
         PROVE  FollowsFrom(r, evs)
    <2> DEFINE before == Replayed(h, n)
    <2>1. Replayed(evs, n + 1) = Applied(Replayed(evs, n), evs[n + 1])
      BY <1>3, <1>11, ReplayedStep
    <2>2. Replayed(evs, n) = before
      BY <1>3, <1>8, <1>11, ReplayedAgrees
    <2>3. before \in Record /\ WellFormed(before)
      BY <1>3, <1>11, ReplayedType
    <2>4. AsJson(x.record) = AsJson(before) /\ (JsonOnly(h, n) => x.record = before)
      BY <1>11, <1>13
    <2> HIDE DEF before
    <2>5. AsJson(Applied(before, e)) = Applied(AsJson(before), AllPlain(e))
      BY <1>2, <2>3, AppliedJson
    <2>6. AsJson(r) = AsJson(Replayed(evs, n + 1))
      BY <1>8, <1>9, <2>1, <2>2, <2>4, <2>5
    <2>7. JsonOnly(evs, n + 1) => JsonOnly(h, n)
      <3>1. \A u \in 1..n : u \in 1..(n + 1)
        BY <1>3
      <3> QED  BY <1>8, <3>1 DEF JsonOnly
    <2>8. JsonOnly(evs, n + 1) => r = Replayed(evs, n + 1)
      BY <1>8, <2>1, <2>2, <2>4, <2>7 DEF r
    <2> QED  BY <1>8, <2>6, <2>8 DEF FollowsFrom
  <1>14. Len(evs) >= 1
    BY <1>3, <1>8
  <1>15. Sound(cp)
    BY <1>8, <1>9, <1>10, <1>12, <1>13, <1>14 DEF Sound
  <1> QED  BY <1>5, <1>15, CopySound, QuietRecord DEF Command

\* The record of a copy is changed behind the events' back.
LEMMA SpoiltSound ==
    ASSUME NEW x \in Copy, Sound(x), NEW evs \in Seq(Event), Len(evs) = Len(x.events),
           \A u \in 1..Len(evs) : x.events[u] \in Fitting(u) => evs[u] \in Fitting(u),
           NEW r \in Record, WellFormed(r), NEW sh \in [Ids -> 0..MaxVersion],
           NEW cause \in Causes \ {"save"}, NEW cp,
           cp = [x EXCEPT !.events = evs, !.record = r, !.shared = sh, !.spoilt = @ \cup {cause}]
    PROVE  Sound(cp)
  <1>1. x.spoilt \cup {cause} \in SUBSET Causes
    BY DEF Copy
  <1>2. cp \in Copy /\ cp.events = evs /\ cp.record = r /\ cp.spoilt = x.spoilt \cup {cause}
    BY <1>1 DEF Copy
  <1>3. cp.live = x.live
    OBVIOUS
  <1>4. ~(cp.spoilt \subseteq {"save"})
    BY <1>2
  <1>5. Fit(x.events, Len(x.events)) => Fit(evs, Len(evs))
    BY DEF Fit
  <1> QED  BY <1>2, <1>3, <1>4, <1>5 DEF Sound

LEMMA RaisesSound ==
    ASSUME RecInv, NEW c \in Copies, NEW e \in Commands, Raises(c, e)
    PROVE  RecInv'
  <1> DEFINE x == copy[c]  r == HalfApplied(x.record, e)
             sh == IF e.kind = "LabelerEdited" THEN [x.shared EXCEPT ![e.id] = 0] ELSE x.shared
  <1>1. x \in Copy /\ Sound(x) /\ copy \in [Copies -> Copy] /\ faults \in 0..MaxFaults
    BY CopySound
  <1>2. PICK cp : cp = [x EXCEPT !.events = x.events, !.record = r, !.shared = sh,
                                 !.spoilt = @ \cup {"rejected"}]
    OBVIOUS
  <1>3. copy' = [copy EXCEPT ![c] = cp]
    <2>1. cp = [x EXCEPT !.record = r, !.shared = sh, !.spoilt = @ \cup {"rejected"}]
      BY <1>1, <1>2 DEF Copy
    <2>2. copy' = [copy EXCEPT ![c] = [x EXCEPT !.record = r, !.shared = sh,
                                                 !.spoilt = @ \cup {"rejected"}]]
      BY <1>1 DEF Raises
    <2> QED  BY <2>1, <2>2
  <1>4. /\ x.record \in Record /\ WellFormed(x.record) /\ x.events \in Seq(Event)
        /\ x.shared \in [Ids -> 0..MaxVersion]
    BY <1>1 DEF Copy, Sound
  <1> HIDE DEF x
  <1>5. e \in Event /\ e.id \in Ids
    <2>1. e \in Later /\ e.kind \in {"OcrCompleted", "LabelerEdited"}
      BY CommandsLater DEF Raises
    <2> QED  BY <2>1 DEF Later, NodeKinds, Backfilling
  <1>6. r \in Record /\ WellFormed(r)
    BY <1>4, <1>5, HalfAppliedType
  <1>7. sh \in [Ids -> 0..MaxVersion]
    BY <1>4, <1>5, PageAssumption
  <1> HIDE DEF r, sh
  <1>8. "rejected" \in Causes \ {"save"}
    BY DEF Causes
  <1>9. Sound(cp)
    BY <1>1, <1>2, <1>4, <1>6, <1>7, <1>8, SpoiltSound
  <1>10. faults' \in 0..MaxFaults
    BY <1>1, FaultCounts DEF Raises
  <1> QED  BY <1>3, <1>9, <1>10, QuietRecord DEF Raises

LEMMA TouchRecordSound ==
    ASSUME RecInv, NEW c \in Copies, TouchRecord(c)
    PROVE  RecInv'
  <1> DEFINE x == copy[c]  r == [x.record EXCEPT !.extension.value = "late"]
  <1>1. x \in Copy /\ Sound(x) /\ copy \in [Copies -> Copy] /\ faults \in 0..MaxFaults
    BY CopySound
  <1>2. PICK cp : cp = [x EXCEPT !.events = x.events, !.record = r, !.shared = x.shared,
                                 !.spoilt = @ \cup {"direct"}]
    OBVIOUS
  <1>3. copy' = [copy EXCEPT ![c] = cp]
    <2>1. cp = [x EXCEPT !.record = r, !.spoilt = @ \cup {"direct"}]
      BY <1>1, <1>2 DEF Copy
    <2>2. copy' = [copy EXCEPT ![c] = [x EXCEPT !.record = r, !.spoilt = @ \cup {"direct"}]]
      BY <1>1 DEF TouchRecord
    <2> QED  BY <2>1, <2>2
  <1>4. /\ x.record \in Record /\ WellFormed(x.record) /\ x.events \in Seq(Event)
        /\ x.shared \in [Ids -> 0..MaxVersion]
    BY <1>1 DEF Copy, Sound
  <1> HIDE DEF x
  <1>5. r \in Record /\ WellFormed(r)
    <2>1. [x.record.extension EXCEPT !.value = "late"] \in Extension
      BY <1>4 DEF Record, Extension, Values
    <2>2. r = [x.record EXCEPT !.extension = [x.record.extension EXCEPT !.value = "late"]]
      OBVIOUS
    <2>3. r \in Record
      BY <1>4, <2>1, <2>2 DEF Record
    <2>4. r.nodes = x.record.nodes /\ r.history = x.record.history
          /\ r.changelog = x.record.changelog
      BY <1>4 DEF Record
    <2> QED  BY <1>4, <2>3, <2>4 DEF WellFormed
  <1> HIDE DEF r
  <1>9. "direct" \in Causes \ {"save"}
    BY DEF Causes
  <1>10. Sound(cp)
    BY <1>1, <1>2, <1>4, <1>5, <1>9, SpoiltSound
  <1>11. faults' \in 0..MaxFaults
    BY <1>1, FaultCounts DEF TouchRecord
  <1> QED  BY <1>3, <1>10, <1>11, QuietRecord DEF TouchRecord

LEMMA SaveFailsSound ==
    ASSUME IInv, RecInv, NEW c \in Copies, SaveFails(c)
    PROVE  RecInv'
  <1> DEFINE x == copy[c]
  <1>1. x \in Copy /\ Sound(x) /\ copy \in [Copies -> Copy] /\ faults \in 0..MaxFaults
    BY CopySound
  <1>2. PICK cp : cp = [x EXCEPT !.drained = Len(x.events), !.spoilt = @ \cup {"save"}]
    OBVIOUS
  <1>3. copy' = [copy EXCEPT ![c] = cp]
    BY <1>1, <1>2 DEF SaveFails
  <1>4. Len(x.events) \in 0..MaxVersion
    BY CopyShape, PageAssumption DEF Fits
  <1> HIDE DEF x
  <1>5. cp \in Copy
    BY <1>1, <1>2, <1>4 DEF Copy, Causes
  <1>6. /\ cp.events = x.events /\ cp.record = x.record /\ cp.live = x.live
        /\ cp.spoilt = x.spoilt \cup {"save"}
    BY <1>1, <1>2 DEF Copy
  <1>7. cp.spoilt \subseteq {"save"} => x.spoilt \subseteq {"save"}
    BY <1>6
  <1>8. Sound(cp)
    BY <1>1, <1>5, <1>6, <1>7 DEF Sound
  <1>9. faults' \in 0..MaxFaults
    BY <1>1, FaultCounts DEF SaveFails
  <1> QED  BY <1>3, <1>8, <1>9, QuietRecord DEF SaveFails

LEMMA TouchArgumentSound ==
    ASSUME IInv, RecInv, NEW c \in Copies, NEW v \in Versions, TouchArgument(c, v)
    PROVE  RecInv'
  <1> DEFINE x == copy[c]  h == x.events  nodes == x.record.nodes
  <1>1. x \in Copy /\ Sound(x) /\ copy \in [Copies -> Copy] /\ faults \in 0..MaxFaults
    BY CopySound
  <1>2. PICK late \in {[h[v] EXCEPT !.value = "late"]} \cup {[h[v] EXCEPT !.order = o] : o \in Orders} :
            copy' = [copy EXCEPT
                  ![c].events[v] = IF v \in Pending(c) THEN late ELSE @,
                  ![c].record.nodes = [i \in Ids |-> IF @[i] # None /\ copy[c].shared[i] = v
                                                     THEN [@[i] EXCEPT !.refs = "late"] ELSE @[i]],
                  ![c].spoilt = @ \cup {"argument"}]
    BY DEF TouchArgument
  <1> DEFINE evs == [h EXCEPT ![v] = IF v \in Pending(c) THEN late ELSE h[v]]
             touched == [i \in Ids |-> IF nodes[i] # None /\ x.shared[i] = v
                                       THEN [nodes[i] EXCEPT !.refs = "late"] ELSE nodes[i]]
             r == [x.record EXCEPT !.nodes = touched]
  <1>3. PICK cp : cp = [x EXCEPT !.events = evs, !.record = r, !.shared = x.shared,
                                 !.spoilt = @ \cup {"argument"}]
    OBVIOUS
  <1>4. copy' = [copy EXCEPT ![c] = cp]
    <2>1. cp = [x EXCEPT !.events = evs, !.record = r, !.spoilt = @ \cup {"argument"}]
      <3> HIDE DEF evs, r
      <3> QED  BY <1>1, <1>3 DEF Copy
    <2>2. copy' = [copy EXCEPT ![c] = [x EXCEPT !.events = evs, !.record = r,
                                                 !.spoilt = @ \cup {"argument"}]]
      BY <1>1, <1>2
    <2> HIDE DEF evs, r
    <2> QED  BY <2>1, <2>2
  <1>5. /\ x.record \in Record /\ WellFormed(x.record) /\ h \in Seq(Event) /\ x.loaded \in Nat
        /\ x.shared \in [Ids -> 0..MaxVersion]
    BY <1>1, PageAssumption DEF Copy, Sound
  <1>6. v \in 1..Len(h) /\ h[v] \in Event
    <2>1. v \in x.loaded + 1 .. Len(h)
      BY DEF TouchArgument
    <2> HIDE DEF x, h
    <2> QED  BY <1>5, <2>1
  <1> HIDE DEF x, h
  <1>7. late \in Event /\ (\A u \in Nat : h[v] \in Fitting(u) => late \in Fitting(u))
    <2>1. late \in Event
      BY <1>6, EventChanged
    <2>2. late.kind = h[v].kind /\ late.id = h[v].id
      <3>1. \A y \in Values : [h[v] EXCEPT !.value = y].kind = h[v].kind
                              /\ [h[v] EXCEPT !.value = y].id = h[v].id
        BY <1>6 DEF Event
      <3>2. \A o \in Orders : [h[v] EXCEPT !.order = o].kind = h[v].kind
                              /\ [h[v] EXCEPT !.order = o].id = h[v].id
        BY <1>6 DEF Event
      <3> QED  BY <1>2, <3>1, <3>2 DEF Values
    <2> QED  BY <2>1, <2>2 DEF Fitting, First, Later
  <1>8. evs \in Seq(Event) /\ Len(evs) = Len(h)
    BY <1>5, <1>6, <1>7, ExceptSeq
  <1>9. \A u \in 1..Len(evs) : h[u] \in Fitting(u) => evs[u] \in Fitting(u)
    BY <1>5, <1>6, <1>7, <1>8
  <1> HIDE DEF evs
  <1>10. /\ touched \in [Ids -> Node \cup {None}]
         /\ \A i \in Ids : nodes[i] # None => touched[i] # None
    <2>1. nodes \in [Ids -> Node \cup {None}]
      BY <1>5 DEF Record
    <2> HIDE DEF nodes
    <2>2. \A i \in Ids : nodes[i] # None => nodes[i] \in Node
      BY <2>1
    <2>3. \A k \in Node : [k EXCEPT !.refs = "late"] \in Node
      BY DEF Node, Refs, Values
    <2>4. None \notin Node
      BY PageAssumption
    <2> QED  BY <2>1, <2>2, <2>3, <2>4
  <1>11. r \in Record
    <2> HIDE DEF touched
    <2> QED  BY <1>5, <1>10 DEF Record
  <1>12. WellFormed(r)
    <2>1. /\ r.nodes = touched /\ r.history = x.record.history
          /\ r.changelog = x.record.changelog
      <3> HIDE DEF touched
      <3> QED  BY <1>5 DEF Record
    <2>2. \A i \in ToSet(x.record.history) : i \in Ids
      BY <1>5 DEF ToSet, Record
    <2> HIDE DEF r, touched
    <2> QED  BY <1>5, <1>10, <2>1, <2>2 DEF WellFormed
  <1> HIDE DEF r
  <1>13. "argument" \in Causes \ {"save"}
    BY DEF Causes
  <1>14. Sound(cp)
    BY <1>1, <1>3, <1>5, <1>8, <1>9, <1>11, <1>12, <1>13, SpoiltSound DEF h
  <1>15. faults' \in 0..MaxFaults
    BY <1>1, FaultCounts DEF TouchArgument
  <1> QED  BY <1>4, <1>14, <1>15, QuietRecord DEF TouchArgument

\* What is inserted follows on what is stored, and a snapshot is what the store then gives.
LEMMA SaveSound ==
    ASSUME IInv, IInv', RecInv, NEW c \in Copies, Save(c)
    PROVE  RecInv'
  <1> DEFINE x == copy[c]  h == x.events  n == Len(h)  dr == x.drained
             inserted == [v \in Versions |-> IF v \in Pending(c) THEN Recorded(h[v])
                                             ELSE stored[v]]
  <1>1. x \in Copy /\ Sound(x) /\ copy \in [Copies -> Copy] /\ faults \in 0..MaxFaults
    BY CopySound
  <1>2. Fits(h, x.loaded, dr) /\ n \in Nat /\ n <= MaxVersion /\ h \in Seq(Event)
        /\ dr \in 0..n /\ MaxVersion \in Nat
    BY CopyShape, PageAssumption DEF Fits
  <1>3. Pending(c) = dr + 1 .. n /\ x.live
    BY DEF Pending, Save
  <1>4. PICK cp : cp = [x EXCEPT !.drained = n]
    OBVIOUS
  <1>5. copy' = [copy EXCEPT ![c] = cp]
    BY <1>1, <1>4 DEF Save
  <1>6. stored' = inserted
    BY DEF Save
  <1>7. origin' = [v \in Versions |->
                    IF v \in dr + 1 .. n
                    THEN [seen |-> [u \in 1..(v - 1) |-> Recorded(h[u])],
                          lost |-> "save" \in x.spoilt]
                    ELSE origin[v]]
    BY <1>3 DEF Save
  <1>8. snap' = Snapshots(inserted, c) \/ snap' = snap
    BY DEF Save
  <1>9. faults' \in 0..MaxFaults
    BY <1>1, FaultCounts DEF Save
  <1>10. \A v \in dr + 1 .. n : stored[v] = None /\ v \in 1..n /\ v \in Versions
    <2>1. \A v \in dr + 1 .. n : stored[v] = None
      BY <1>3 DEF Save, Insertable
    <2> HIDE DEF n, dr
    <2> QED  BY <1>2, <2>1 DEF Versions
  <1>11. \A v \in Versions : inserted[v] = IF v \in dr + 1 .. n THEN Recorded(h[v]) ELSE stored[v]
    BY <1>3
  <1> HIDE DEF inserted
  <1>12. \A u \in 1..n : Recorded(h[u]) \in Fitting(u) /\ Recorded(h[u]) \in Event
    <2> SUFFICES ASSUME NEW u \in 1..n
                 PROVE  Recorded(h[u]) \in Fitting(u) /\ Recorded(h[u]) \in Event
      OBVIOUS
    <2>1. h[u] \in Fitting(u)
      BY <1>1, <1>3 DEF Sound, Fit
    <2> HIDE DEF h, n
    <2>2. h[u] \in Event
      BY <2>1 DEF Fitting, First, Later
    <2>3. /\ Recorded(h[u]) \in Event /\ Recorded(h[u]).kind = h[u].kind
          /\ Recorded(h[u]).id = h[u].id
      BY <2>2, RecordedEvent
    <2> QED  BY <2>1, <2>3 DEF Fitting, First, Later
  <1>13. \A v \in Versions : inserted[v] # None => inserted[v] \in Fitting(v)
    BY <1>10, <1>11, <1>12 DEF RecInv, StoreInv
  <1>14. \A v \in Versions : stored[v] # None => inserted[v] = stored[v]
    BY <1>10, <1>11
  <1>15. \A v \in Versions : snap[v] # None => snap[v] = AsJson(Replayed(inserted, v))
    <2> SUFFICES ASSUME NEW v \in Versions, snap[v] # None
                 PROVE  snap[v] = AsJson(Replayed(inserted, v))
      OBVIOUS
    <2>1. v \in Nat /\ v >= 1 /\ 1..v \subseteq Versions
      BY <1>2 DEF Versions
    <2>2. \A u \in 1..v : stored[u] # None
      BY DEF IInv, SnapInv, Stored
    <2>3. \A u \in 1..v : stored[u] = inserted[u]
      BY <1>14, <2>1, <2>2
    <2>4. Replayed(stored, v) = Replayed(inserted, v)
      BY <2>1, <2>3, ReplayedAgrees
    <2> QED  BY <2>4 DEF RecInv, StoreInv
  <1>16. ASSUME NEW v \in Versions, Readable(inserted, snap, v)
         PROVE  /\ AsJson(Read(inserted, snap, v)) = AsJson(Replayed(inserted, v))
                /\ AsJson(Read(inserted, snap, v)) \in Record
    <2>1. v \in Nat /\ v >= 1 /\ v \in 0..MaxVersion /\ 1..v \subseteq Versions
      BY <1>2 DEF Versions
    <2>3. \A u \in Versions : snap[u] # None => \A w \in 1..u : inserted[w] # None
      <3>1. \A u \in Versions : 1..u \subseteq Versions
        BY <1>2 DEF Versions
      <3>2. \A u \in Versions : snap[u] # None => \A w \in 1..u : stored[w] # None
        BY DEF IInv, SnapInv, Stored
      <3> QED  BY <1>14, <3>1, <3>2
    <2>4. \A u \in 1..v : inserted[u] # None
      BY <1>16, <2>1, <2>3, ReadableHasNoGap
    <2>5. Fit(inserted, v)
      BY <1>13, <2>1, <2>4 DEF Fit
    <2>6. \A u \in 1..v : snap[u] # None => snap[u] = AsJson(Replayed(inserted, u))
      BY <1>15, <2>1
    <2>7. /\ Read(inserted, snap, v) \in Record
          /\ AsJson(Read(inserted, snap, v)) = AsJson(Replayed(inserted, v))
      BY <2>5, <2>6, ReadIsReplay
    <2> QED  BY <2>7, AsJsonType
  <1>17. StoreInv'
    <2>1. snap \in [Versions -> Record \cup {None}]
      BY DEF RecInv, StoreInv
    <2>2. snap' \in [Versions -> Record \cup {None}]
          /\ \A v \in Versions : snap'[v] # None => snap'[v] = AsJson(Replayed(inserted, v))
      <3>1. CASE snap' = Snapshots(inserted, c)
        <4>1. ASSUME NEW v \in Versions
              PROVE  \/ snap'[v] = snap[v]
                     \/ snap'[v] = AsJson(Read(inserted, snap, v)) /\ Readable(inserted, snap, v)
          BY <3>1 DEF Snapshots, SnapshotOf
        <4>2. \A v \in Versions : /\ snap'[v] \in Record \cup {None}
                                  /\ snap'[v] # None => snap'[v] = AsJson(Replayed(inserted, v))
          BY <1>15, <1>16, <2>1, <4>1
        <4>3. snap' = [v \in Versions |-> snap'[v]]
          BY <3>1 DEF Snapshots
        <4> QED  BY <4>2, <4>3
      <3>2. CASE snap' = snap
        BY <1>15, <2>1, <3>2
      <3> QED  BY <1>8, <3>1, <3>2
    <2> QED  BY <1>6, <1>13, <2>2 DEF StoreInv
  <1>18. OriginInv'
    <2> SUFFICES ASSUME NEW v \in Versions
                 PROVE  /\ origin'[v].lost \in BOOLEAN
                        /\ origin'[v].seen \in Seq(Event) /\ Len(origin'[v].seen) < MaxVersion
      BY <1>9 DEF OriginInv
    <2>1. CASE v \in dr + 1 .. n
      <3> PICK b \in BOOLEAN : b <=> "save" \in x.spoilt
        OBVIOUS
      <3> DEFINE before == [u \in 1..(v - 1) |-> Recorded(h[u])]
      <3>1. origin'[v] = [seen |-> before, lost |-> b]
        <4>1. ("save" \in x.spoilt) = b
          OBVIOUS
        <4> HIDE DEF h, n, dr, x
        <4> QED  BY <1>7, <2>1, <4>1
      <3> HIDE DEF h, dr, x, n
      <3>2. v \in 1..n /\ v - 1 \in Nat /\ v - 1 < MaxVersion /\ \A u \in 1..(v - 1) : u \in 1..n
        BY <1>2, <1>10, <2>1
      <3>3. before \in Seq(Event) /\ Len(before) = v - 1
        <4>1. \A u \in 1..(v - 1) : Recorded(h[u]) \in Event
          BY <1>12, <3>2
        <4>2. before \in [1..(v - 1) -> Event]
          BY <4>1
        <4> HIDE DEF before
        <4>3. before \in Seq(Event)
          BY <3>2, <4>2, SeqDef
        <4> QED  BY <3>2, <4>2, <4>3
      <3> HIDE DEF before
      <3> QED  BY <3>1, <3>2, <3>3
    <2>2. CASE v \notin dr + 1 .. n
      <3>1. origin'[v] = origin[v]
        BY <1>7, <2>2
      <3> QED  BY <3>1 DEF RecInv, OriginInv
    <2> QED  BY <2>1, <2>2
  <1>19. CopiesInv'
    <2>1. n \in 0..MaxVersion
      BY <1>2
    <2> HIDE DEF n, h, dr
    <2>2. cp \in Copy
      BY <1>1, <1>4, <2>1 DEF Copy
    <2>3. cp.events = x.events /\ cp.record = x.record /\ cp.live = x.live /\ cp.spoilt = x.spoilt
      BY <1>1, <1>4 DEF Copy
    <2>4. Sound(cp)
      <3> HIDE DEF x
      <3> QED  BY <1>1, <2>2, <2>3 DEF Sound
    <2>5. copy' \in [Copies -> Copy]
      BY <1>1, <1>5, <2>2
    <2>6. \A d \in Copies : copy'[d] = IF d = c THEN cp ELSE copy[d]
      BY <1>1, <1>5
    <2>7. \A d \in Copies : Sound(copy[d])
      BY DEF RecInv, CopiesInv
    <2>8. \A d \in Copies : Sound(copy'[d])
      BY <2>4, <2>6, <2>7
    <2> QED  BY <2>5, <2>8 DEF CopiesInv
  <1> QED  BY <1>17, <1>18, <1>19 DEF RecInv

LEMMA RecordInit == Init => RecInv
  <1> SUFFICES ASSUME Init
               PROVE  RecInv
    OBVIOUS
  <1>1. CopiesInv
    <2>1. copy = [c \in Copies |-> Gone]
      BY DEF Init
    <2>2. Gone \in Copy
      BY GoneSound DEF Sound
    <2> QED  BY <2>1, <2>2, GoneSound DEF CopiesInv
  <1>2. StoreInv
    BY DEF Init, StoreInv
  <1>3. OriginInv
    <2> PICK b \in BOOLEAN : b = FALSE
      OBVIOUS
    <2>1. \A v \in Versions : origin[v] = [seen |-> <<>>, lost |-> b]
      BY Zenon DEF Init
    <2>2. faults \in 0..MaxFaults /\ 0 < MaxVersion
      BY PageAssumption DEF Init
    <2>3. \A v \in Versions : origin[v].seen = <<>>
      BY <2>1
    <2>4. \A v \in Versions : origin[v].lost \in BOOLEAN
      BY <2>1
    <2>5. <<>> \in Seq(Event) /\ Len(<<>>) = 0
      OBVIOUS
    <2> QED  BY <2>2, <2>3, <2>4, <2>5 DEF OriginInv
  <1> QED  BY <1>1, <1>2, <1>3 DEF RecInv

LEMMA RecordNext == IInv /\ RecInv /\ [Next]_vars => RecInv'
  <1> SUFFICES ASSUME IInv, RecInv, [Next]_vars
               PROVE  RecInv'
    OBVIOUS
  <1>1. CASE UNCHANGED vars
    <2>1. CopiesInv'
      BY <1>1 DEF vars, RecInv, CopiesInv
    <2>2. StoreInv' /\ OriginInv'
      BY <1>1 DEF vars, RecInv, StoreInv, OriginInv
    <2> QED  BY <2>1, <2>2 DEF RecInv
  <1>2. ASSUME NEW c \in Copies,
               \/ \E data \in Forms : Create(c, data)
               \/ \E e \in Commands : Command(c, e)
               \/ \E e \in Commands : Raises(c, e)
               \/ \E v \in Versions : TouchArgument(c, v)
               \/ TouchRecord(c) \/ Save(c) \/ SaveFails(c) \/ Drop(c) \/ Load(c)
        PROVE  RecInv'
    <2>1. CASE Save(c)
      BY <2>1, SaveKeeps, SaveSound
    <2> QED  BY <1>2, <2>1, CreateSound, CommandSound, RaisesSound, TouchArgumentSound,
                TouchRecordSound, SaveFailsSound, DropSound, LoadSound
  <1> QED  BY <1>1, <1>2 DEF Next

LEMMA RecordsFollow == Spec => [](IInv /\ RecInv)
  BY InvInit, InvNext, RecordInit, RecordNext, PTL DEF Spec

\* Type correctness; in particular the head, the history and the changelog of a page name
\* nodes of its provenance graph, whatever the copies do and whatever is replayed.
THEOREM TypeCorrect == Spec => []TypeOK
  <1>1. IInv /\ RecInv => TypeOK
    <2> SUFFICES ASSUME IInv, RecInv
                 PROVE  TypeOK
      OBVIOUS
    <2>1. creation \in Creations /\ stored \in [Versions -> Event \cup {None}]
      BY DEF IInv, ShapeInv
    <2>2. snap \in [Versions -> Record \cup {None}]
      BY DEF RecInv, StoreInv
    <2>3. copy \in [Copies -> Copy] /\ \A c \in Copies : WellFormed(copy[c].record)
      BY DEF RecInv, CopiesInv, Sound
    <2>4. OriginInv
      BY DEF RecInv
    <2> QED  BY <2>1, <2>2, <2>3, <2>4 DEF TypeOK, OriginInv
  <1> QED  BY RecordsFollow, <1>1, PTL

\* What a copy has seen and made, and what the store keeps of it.
LEMMA KeptHistory ==
    ASSUME NEW h \in Seq(Event), Len(h) >= 1, Fit(h, Len(h)), NEW kept,
           \A u \in 1..Len(h) : kept[u] = Recorded(h[u])
    PROVE  /\ AsJson(Replayed(kept, Len(h))) = AsJson(Replayed(h, Len(h)))
           /\ JsonOnly(h, Len(h)) => Replayed(kept, Len(h)) = Replayed(h, Len(h))
  <1> DEFINE n == Len(h)
  <1>1. n \in Nat /\ n >= 1 /\ Fit(h, n) /\ \A u \in 1..n : kept[u] = Recorded(h[u])
    OBVIOUS
  <1> HIDE DEF n
  <1>2. \A u \in 1..n : h[u] \in Event /\ h[u] \in Fitting(u)
    BY <1>1, FitEvents DEF Fit
  <1>3. \A u \in 1..n : /\ AllPlain(kept[u]) = AllPlain(h[u])
                        /\ kept[u] \in Event /\ kept[u].kind = h[u].kind /\ kept[u].id = h[u].id
    BY <1>1, <1>2, AllPlainEvent, RecordedEvent
  <1>4. Fit(kept, n)
    BY <1>2, <1>3 DEF Fit, Fitting, First, Later
  <1>5. AsJson(Replayed(kept, n)) = AsJson(Replayed(h, n))
    BY <1>1, <1>3, <1>4, ReplayedJson
  <1>6. ASSUME JsonOnly(h, n) PROVE Replayed(kept, n) = Replayed(h, n)
    <2>1. \A u \in 1..n : Recorded(h[u]) = h[u]
      BY <1>1, <1>2, <1>6, JsonOnlyEvents
    <2>2. \A u \in 1..n : kept[u] = h[u]
      BY <1>1, <2>1
    <2> QED  BY <1>1, <2>2, ReplayedAgrees
  <1> QED  BY <1>5, <1>6 DEF n

\* What memory holds and what a reload would give are one: whatever the commands, the
\* saves, the snapshots and the other copies, the record of a copy nobody changed behind
\* the events' back is, as JSON, the replay of its history as the store keeps it, and in
\* every value when its arguments were such as JSON gives back; and what it loaded and
\* saved is what is stored, unless a save of its failed.
THEOREM MemoryIsReplay == Spec => []MemoryAgreesWithReplay
  <1>1. IInv /\ RecInv => RecordIsReplay
    <2> SUFFICES ASSUME RecInv, NEW c \in Copies,
                        copy[c].live, copy[c].spoilt \subseteq {"save"}
                 PROVE  LET n == Len(copy[c].events)
                            kept == [u \in 1..n |-> Recorded(copy[c].events[u])]
                        IN  /\ AsJson(copy[c].record) = AsJson(Replayed(kept, n))
                            /\ JsonOnly(copy[c].events, n) => copy[c].record = Replayed(kept, n)
      BY DEF RecordIsReplay
    <2> DEFINE h == copy[c].events  n == Len(h)  kept == [u \in 1..n |-> Recorded(h[u])]
    <2>1. /\ h \in Seq(Event) /\ n >= 1 /\ Fit(h, n)
          /\ AsJson(copy[c].record) = AsJson(Replayed(h, n))
          /\ JsonOnly(h, n) => copy[c].record = Replayed(h, n)
      BY CopySound DEF Sound, Copy, FollowsFrom
    <2>2. \A u \in 1..n : kept[u] = Recorded(h[u])
      OBVIOUS
    <2> HIDE DEF h, kept
    <2>3. /\ AsJson(Replayed(kept, n)) = AsJson(Replayed(h, n))
          /\ JsonOnly(h, n) => Replayed(kept, n) = Replayed(h, n)
      BY <2>1, <2>2, KeptHistory
    <2> QED  BY <2>1, <2>3 DEF h, kept
  <1>2. IInv => SavedIsStored
    BY DEF IInv, SavedInv, SavedIsStored
  <1> QED  BY RecordsFollow, <1>1, <1>2, PTL DEF MemoryAgreesWithReplay

\* A load gives, as JSON, the replay of all events from the first, whatever snapshots lie
\* between; and in every value when the events hold nothing that a snapshot changes.
THEOREM LoadsAreReplays == Spec => []LoadsAgreeWithReplay
  <1>1. IInv /\ RecInv => LoadsAgreeWithReplay
    <2> DEFINE n == Newest(stored)
    <2> SUFFICES ASSUME IInv, RecInv, Readable(stored, snap, n)
                 PROVE  /\ AsJson(Read(stored, snap, n)) = AsJson(Replayed(stored, n))
                        /\ JsonOnly(stored, n) => Read(stored, snap, n) = Replayed(stored, n)
      BY DEF LoadsAgreeWithReplay
    <2>0. n \in 0..MaxVersion /\ MaxVersion \in Nat
      BY NewestStored, PageAssumption DEF IInv, ShapeInv, Stored, Versions
    <2> HIDE DEF n
    <2>1. n \in Versions /\ \A u \in 1..n : u \in Versions
      BY <2>0 DEF Readable, Versions
    <2>2. \A u \in 1..n : stored[u] # None
      <3>1. \A u \in Versions : snap[u] # None => \A w \in 1..u : stored[w] # None
        BY DEF IInv, SnapInv, Stored
      <3> QED  BY <2>0, <3>1, ReadableHasNoGap
    <2>3. Fit(stored, n)
      BY <2>1, <2>2 DEF RecInv, StoreInv, Fit
    <2>4. \A u \in 1..n : snap[u] # None => snap[u] = AsJson(Replayed(stored, u))
      BY <2>1 DEF RecInv, StoreInv
    <2> QED  BY <2>1, <2>3, <2>4, ReadIsReplay
  <1> QED  BY RecordsFollow, <1>1, PTL

\* A copy nobody spoilt, with nothing pending and with no newer version in the store, is
\* what get_page and get_project would give, and they would give it: as JSON always, and
\* in every value when its arguments were such as JSON gives back.
SavedCopyReloads ==
    LET n == Newest(stored) IN
    \A c \in Copies :
        copy[c].live /\ copy[c].spoilt = {} /\ Pending(c) = {} /\ Len(copy[c].events) = n
        => /\ Readable(stored, snap, n)
           /\ AsJson(copy[c].record) = AsJson(Read(stored, snap, n))
           /\ JsonOnly(copy[c].events, n) => copy[c].record = Read(stored, snap, n)

\* A request that has saved its page, and nobody after it, may go on with its copy or
\* load the page again: it finds the same record (save_page, get_page), up to what JSON
\* makes of tuples, datetimes and UUIDs in it.
THEOREM SavedIsReloaded == Spec => []SavedCopyReloads
  <1>1. IInv /\ RecInv => SavedCopyReloads
    <2> DEFINE n == Newest(stored)
    <2> SUFFICES ASSUME IInv, RecInv, NEW c \in Copies,
                        copy[c].live, copy[c].spoilt = {}, Pending(c) = {},
                        Len(copy[c].events) = n
                 PROVE  /\ Readable(stored, snap, n)
                        /\ AsJson(copy[c].record) = AsJson(Read(stored, snap, n))
                        /\ JsonOnly(copy[c].events, n) => copy[c].record = Read(stored, snap, n)
      BY DEF SavedCopyReloads
    <2> HIDE DEF n
    <2> DEFINE h == copy[c].events
    <2>1. Sound(copy[c]) /\ copy[c].drained \in 0..n /\ n \in Nat /\ n <= MaxVersion
      BY CopySound, CopyShape DEF Fits
    <2>2. /\ n >= 1 /\ Len(h) = n /\ Fit(h, n) /\ h \in Seq(Event)
          /\ AsJson(copy[c].record) = AsJson(Replayed(h, n))
          /\ JsonOnly(h, n) => copy[c].record = Replayed(h, n)
      BY <2>1 DEF Sound, FollowsFrom, Copy
    <2>3. copy[c].drained = n
      <3>1. n \notin copy[c].drained + 1 .. n
        BY DEF Pending
      <3> QED  BY <2>1, <2>2, <3>1
    <2>4. \A u \in 1..n : stored[u] # None /\ stored[u] = Recorded(h[u])
      BY <2>3, CopyShape DEF Saved
    <2> HIDE DEF h
    <2>5. n \in Versions /\ n \in 0..MaxVersion /\ \A u \in 1..n : u \in Versions
      BY <2>1, <2>2, PageAssumption DEF Versions
    <2>6. Readable(stored, snap, n)
      <3>1. Base(snap, n) \in 0..n
        BY <2>5, BaseIsSnapshot
      <3>2. \A u \in Base(snap, n) + 1 .. n : u \in 1..n
        BY <2>1, <3>1
      <3> QED  BY <2>2, <2>4, <3>2 DEF Readable
    <2>7. /\ AsJson(Read(stored, snap, n)) = AsJson(Replayed(stored, n))
          /\ JsonOnly(stored, n) => Read(stored, snap, n) = Replayed(stored, n)
      <3>1. \A u \in 1..n : snap[u] # None => snap[u] = AsJson(Replayed(stored, u))
        BY <2>5 DEF RecInv, StoreInv
      <3>2. Fit(stored, n)
        BY <2>4, <2>5 DEF RecInv, StoreInv, Fit
      <3> QED  BY <2>5, <3>1, <3>2, ReadIsReplay
    <2>8. /\ AsJson(Replayed(stored, n)) = AsJson(Replayed(h, n))
          /\ JsonOnly(h, n) => Replayed(stored, n) = Replayed(h, n)
      BY <2>2, <2>4, KeptHistory
    <2>9. JsonOnly(h, n) => JsonOnly(stored, n)
      <3>1. \A u \in 1..n : h[u] \in Event
        BY <2>1, <2>2, FitEvents
      <3> QED  BY <2>4, <3>1, RecordedEvent DEF JsonOnly
    <2>10. AsJson(copy[c].record) = AsJson(Read(stored, snap, n))
      BY <2>2, <2>7, <2>8
    <2>11. JsonOnly(h, n) => copy[c].record = Read(stored, snap, n)
      BY <2>2, <2>7, <2>8, <2>9
    <2> QED  BY <2>6, <2>10, <2>11 DEF h
  <1> QED  BY RecordsFollow, <1>1, PTL
===============================================================================
