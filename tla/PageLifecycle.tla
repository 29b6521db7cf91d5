---------------------------- MODULE PageLifecycle -----------------------------
(***************************************************************************)
(* One event-sourced aggregate, a page or a project (page_aggregate.py),   *)
(* the store of its events and snapshots, and the copies of it that        *)
(* requests hold in memory (LocalPageStore of page_server.py).             *)
(*                                                                         *)
(* A command builds an event that holds its arguments by reference,        *)
(* applies it to the copy and leaves it pending.  A save takes the pending *)
(* events out of the copy, inserts them in one transaction, and takes      *)
(* snapshots.  The insert fails when a version is there already: that is   *)
(* how a writer learns of another one.  Whether a save fails or not, the   *)
(* copy keeps its state and its version and loses its pending events: a    *)
(* copy that is used on after a failed save builds on events nobody has.   *)
(*                                                                         *)
(* Save, get and the versions belong to the eventsourcing library and are  *)
(* modelled from how the code uses them.  Events and snapshots are stored  *)
(* as JSON.  Of a provenance node the model keeps the id, where its        *)
(* blob_refs come from, and whether JSON gives its config and extra back   *)
(* as they were; the events have the code's names.                         *)
(***************************************************************************)
EXTENDS Integers, FiniteSetsExt, SequencesExt

CONSTANTS
    Copies,      \* aggregate objects in memory
    Uses,        \* the kinds of commands the holder of each copy uses
    Passes,      \* the forms of the values it passes to them
    Ids,         \* ids of provenance nodes (page), of pages (project)
    Interval,    \* the snapshotting interval, 20 in the code
    MaxVersion,  \* bound on the versions of the aggregate
    MaxPending,  \* bound on the events a copy has not saved yet
    MaxFaults,   \* bound on failed saves and misuses
    None

VARIABLES
    creation, \* ImageIngested or ProjectCreated: what kind of aggregate it is
    stored,   \* the events in the store, by version
    snap,     \* the snapshots in the store, by version
    copy,
    origin,   \* history variable: what the writer of each stored event had seen before
              \* it, and whether a save of its had failed
    faults    \* failed saves and misuses so far

vars == <<creation, stored, snap, copy, origin, faults>>

Versions == 1..MaxVersion

Lesser(a, b) == IF a < b THEN a ELSE b

\* The commands that backfill the blob_refs of a node that has none.  exported() does to
\* the record what gt_mapped() does, and is not told apart.
Backfilling == {"ImagePreprocessed", "OcrCompleted"}
NodeKinds == Backfilling \cup {"GtMapped", "LabelerEdited"}
Creations == {"ImageIngested", "ProjectCreated"}

\* An argument: absent, as the caller passed it, or as the caller changed it afterwards.
\* Blob references may also be those of the command's blob_refs.
Values == {"none", "given", "late"}
Refs == Values \cup {"command"}

\* What an argument or a field of type dict[str, Any] holds: values JSON gives back as
\* they are, or others too (tuples, datetimes, UUIDs), which come back as lists and strings.
Forms == {"plain", "typed"}

Orders == {<<>>} \cup {<<i>> : i \in Ids} \cup {<<i, j>> : i, j \in Ids}

Event == [kind : NodeKinds \cup Creations
                 \cup {"RotationUpdated", "ExtensionSet", "PageAdded", "PageReordered",
                       "PageRemoved", "ProjectExported"},
          id : Ids \cup {None}, value : Values, order : Orders,
          data : Forms,      \* of the node, or of the extension
          changes : Forms]   \* of labeler_edited

Plain(kind) == [kind |-> kind, id |-> None, value |-> "none", order |-> <<>>,
                data |-> "plain", changes |-> "plain"]

\* A node with blob_refs of its own.
NodeEvent(kind, id, form) ==
    [Plain(kind) EXCEPT !.id = id, !.value = "given", !.data = form,
                        !.changes = IF kind = "LabelerEdited" THEN form ELSE @]

PageCommands ==
    {NodeEvent(k, i, f) : k \in NodeKinds, i \in Ids, f \in Forms}
    \cup {[Plain(k) EXCEPT !.id = i] : k \in Backfilling, i \in Ids}
    \cup {Plain("RotationUpdated"), [Plain("ExtensionSet") EXCEPT !.value = "given"]}

ProjectCommands ==
    {[Plain(k) EXCEPT !.id = i] : k \in {"PageAdded", "PageRemoved"}, i \in Ids}
    \cup {[Plain("PageReordered") EXCEPT !.order = o] : o \in Orders}
    \cup {Plain("ProjectExported")}

Commands == IF creation = "ImageIngested" THEN PageCommands ELSE ProjectCommands

Node == [refs : Refs, data : Forms]
Extension == [value : Values, data : Forms]
Entry == [id : Ids, changes : Forms]      \* PageChangeEntry

Record == [failed : BOOLEAN, rotated : BOOLEAN, extension : Extension,
           nodes : [Ids -> Node \cup {None}],
           history : Seq(Ids), changelog : Seq(Entry), pages : Seq(Ids)]

ASSUME PageAssumption ==
    /\ Interval \in Nat \ {0} /\ MaxVersion \in Nat \ {0}
    /\ MaxPending \in Nat /\ MaxFaults \in Nat
    /\ None \notin Ids \cup Event \cup Node \cup Record 
    /\ Uses \in [Copies -> SUBSET STRING] /\ Passes \in [Copies -> SUBSET Forms]

\* The head, the history and the changelog name nodes of the graph.
WellFormed(record) ==
    /\ \A i \in ToSet(record.history) : record.nodes[i] # None
    /\ \A x \in ToSet(record.changelog) : x.id \in ToSet(record.history)

Causes == {"save", "argument", "direct", "rejected"}

Copy == [live : BOOLEAN,
         events : Seq(Event),           \* the history the copy has seen and made
         loaded : 0..MaxVersion,        \* how much of it came from the store
         drained : 0..MaxVersion,       \* how much of it is no longer pending
         record : Record,
         shared : [Ids -> 0..MaxVersion], \* the event whose argument the node in the graph
                                          \* is, 0 when it is an object of its own
         spoilt : SUBSET Causes]        \* history variable: what was done to the copy

TypeOK ==
    /\ creation \in Creations
    /\ stored \in [Versions -> Event \cup {None}]
    /\ snap \in [Versions -> Record \cup {None}]
    /\ copy \in [Copies -> Copy]
    /\ \A c \in Copies : WellFormed(copy[c].record)
    /\ \A v \in Versions :
          /\ origin[v].lost \in BOOLEAN
          /\ origin[v].seen \in Seq(Event) /\ Len(origin[v].seen) < MaxVersion
    /\ faults \in 0..MaxFaults

-------------------------------------------------------------------------------
(* The records and how they follow from the events.  Op_Something is a     *)
(* plausible bug in Op, used by no specification.                          *)

EmptyRecord ==
    [failed |-> FALSE, rotated |-> FALSE, extension |-> [value |-> "none", data |-> "plain"],
     nodes |-> [i \in Ids |-> None], history |-> <<>>, changelog |-> <<>>, pages |-> <<>>]

\* __init__: a copy of the record it is given, whose page may have failed OCR before.
Initial(e) == [EmptyRecord EXCEPT !.failed = e.kind = "ImageIngested",
                                  !.extension = [value |-> e.value, data |-> e.data],
                                  !.pages = e.order]

Backfilled(e) == e.kind \in Backfilling /\ e.value = "none"

\* _with_blob_refs: the node, with the command's blob_refs if it has none.
WithBlobRefs(e) == [refs |-> IF Backfilled(e) THEN "command" ELSE e.value, data |-> e.data]

WithNode_HeadFirst(record, id, node) ==     \* the head advances before the node is there
    [record EXCEPT !.history = Append(@, id)]

\* _apply_node and add_node: over a node of the same id, and to the end of the history,
\* whose last element is the head.
WithNode(record, id, node) ==
    [record EXCEPT !.nodes[id] = node, !.history = Append(@, id)]

\* The body of the command, which a replay runs again.
Applied(record, e) ==
    CASE e.kind \in NodeKinds ->
            [WithNode(record, e.id, WithBlobRefs(e)) EXCEPT
                !.failed = @ /\ e.kind # "OcrCompleted",
                !.changelog = IF e.kind = "LabelerEdited"
                              THEN Append(@, [id |-> e.id, changes |-> e.changes]) ELSE @]
      [] e.kind = "RotationUpdated" -> [record EXCEPT !.rotated = TRUE]
      [] e.kind = "ExtensionSet"    -> [record EXCEPT !.extension = [value |-> e.value,
                                                                     data |-> e.data]]
      [] e.kind = "PageAdded"       -> [record EXCEPT !.pages = Append(@, e.id)]
      [] e.kind = "PageReordered"   -> [record EXCEPT !.pages = e.order]
      [] e.kind = "PageRemoved"     -> [record EXCEPT !.pages = RemoveFirst(@, e.id)]
      [] e.kind = "ProjectExported" -> record

\* What the body has done where it raises: ocr_completed clears the flag before the
\* backfill fails on the arguments, labeler_edited puts the node in before the changes do.
HalfApplied(record, e) ==
    IF e.kind = "OcrCompleted" THEN [record EXCEPT !.failed = FALSE]
    ELSE WithNode(record, e.id, WithBlobRefs(e))

\* What the events after version base, up to version v, make of the record r.
After(base, r, events, v) ==
    LET record[u \in base..v] ==
          IF u = base THEN r ELSE Applied(record[u - 1], events[u])
    IN  record[v]

\* The record after the first v events, read from a store.
Replayed(events, v) == After(1, Initial(events[1]), events, v)

\* An event in the store: the transcodings dump the record or the node in it to JSON; the
\* changes are left to the library's encoder, which gives tuples, datetimes and UUIDs back.
Recorded(e) == [e EXCEPT !.data = "plain"]

\* A record in a snapshot: its transcoding dumps the whole of it to JSON.
AsJson(record) ==
    [record EXCEPT
        !.extension = [@ EXCEPT !.data = "plain"],
        !.nodes = [i \in Ids |-> IF @[i] = None THEN None ELSE [@[i] EXCEPT !.data = "plain"]],
        !.changelog = [k \in DOMAIN @ |-> [@[k] EXCEPT !.changes = "plain"]]]

-------------------------------------------------------------------------------
(* The store.                                                              *)

Stored(events) == {v \in Versions : events[v] # None}
Upto(events, v) == [u \in 1..v |-> events[u]]
Newest(events) == Max({0} \cup Stored(events))

\* The newest snapshot up to version v, 0 without one.
Base(snaps, v) == Max({0} \cup {u \in 1..v : snaps[u] # None})

\* repository.get(id, version) goes through: the newest snapshot up to v and the events
\* after it, each of which must be the next version.
Readable(events, snaps, v) ==
    v > 0 /\ \A u \in Base(snaps, v) + 1 .. v : events[u] # None

Read(events, snaps, v) ==
    LET base == Base(snaps, v) IN
    IF base = 0 THEN Replayed(events, v) ELSE After(base, snaps[base], events, v)

SnapshotOf_Memory(events, snaps, c, v) == AsJson(copy[c].record)    \* of the object just saved

\* take_snapshot, from what a versioned get returns.
SnapshotOf(events, snaps, c, v) == AsJson(Read(events, snaps, v))

\* The snapshots after the events of c were inserted, taken one after another until one of
\* the gets fails.  A get reads on from the newest snapshot, also from one just taken;
\* as JSON that is what the events give anyhow, and when one of the gets fails the later
\* ones would fail as well: the same versions are readable without the ones just taken.
Snapshots(events, c) ==
    LET due == {v \in copy[c].drained + 1 .. Len(copy[c].events) : v % Interval = 0} IN
    [v \in Versions |-> IF v \in due /\ Readable(events, snap, v)
                        THEN SnapshotOf(events, snap, c, v) ELSE snap[v]]

-------------------------------------------------------------------------------
(* The steps of the copies.                                                *)

Gone == [live |-> FALSE, events |-> <<>>, loaded |-> 0, drained |-> 0,
         record |-> EmptyRecord, shared |-> [i \in Ids |-> 0], spoilt |-> {}]

Pending(c) == copy[c].drained + 1 .. Len(copy[c].events)

Fault == faults < MaxFaults /\ faults' = faults + 1

\* PageAggregate(record) or ProjectAggregate(record); the id of the record is new, and a
\* page may come with an extension.
Create(c, data) ==
    LET e == [Plain(creation) EXCEPT !.data = data] IN
    /\ data \in Passes[c] /\ (data = "typed" => creation = "ImageIngested")
    /\ Stored(stored) = {} /\ \A d \in Copies : ~copy[d].live
    /\ copy' = [copy EXCEPT ![c] = [Gone EXCEPT !.live = TRUE, !.events = <<e>>,
                                                !.record = Initial(e)]]
    /\ UNCHANGED <<creation, stored, snap, origin, faults>>

Command_Silent(c, e) ==      \* set_extension writes into the record and records no event
    /\ copy[c].live /\ Len(copy[c].events) < Lesser(MaxVersion, copy[c].drained + MaxPending)
    /\ e.kind \in Uses[c] /\ e.data \in Passes[c]
    /\ copy' = [copy EXCEPT ![c].record = Applied(@, e)]
    /\ UNCHANGED <<creation, stored, snap, origin, faults>>

\* A command that goes through.  The graph holds the very node of the event, unless the
\* backfill made a copy of it.
Command(c, e) ==
    /\ copy[c].live /\ Len(copy[c].events) < Lesser(MaxVersion, copy[c].drained + MaxPending)
    /\ e.kind \in Uses[c] /\ e.data \in Passes[c]
    /\ copy' = [copy EXCEPT
                  ![c].events = Append(@, e),
                  ![c].record = Applied(@, e),
                  ![c].shared = IF e.kind \in NodeKinds
                                THEN [@ EXCEPT ![e.id] = IF Backfilled(e) THEN 0
                                                         ELSE Len(copy[c].events) + 1]
                                ELSE @]
    /\ UNCHANGED <<creation, stored, snap, origin, faults>>

\* ocr_completed or labeler_edited raises half-way: no event, but a changed record.
Raises(c, e) ==
    /\ copy[c].live /\ Fault
    /\ e.kind \in Uses[c] \cap {"OcrCompleted", "LabelerEdited"} /\ e.data \in Passes[c]
    /\ copy' = [copy EXCEPT ![c].record = HalfApplied(@, e),
                            ![c].shared = IF e.kind = "LabelerEdited" THEN [@ EXCEPT ![e.id] = 0]
                                          ELSE @,
                            ![c].spoilt = @ \cup {"rejected"}]
    /\ UNCHANGED <<creation, stored, snap, origin>>

\* The caller changes the argument of event v after the command: the event while it is
\* pending, and the record wherever it holds the same object.
TouchArgument(c, v) ==
    LET e == copy[c].events[v] IN
    /\ copy[c].live /\ v \in copy[c].loaded + 1 .. Len(copy[c].events)
    /\ e.kind \in NodeKinds \cup Creations \cup {"PageReordered"} /\ Fault
    /\ \E late \in {[e EXCEPT !.value = "late"]} \cup {[e EXCEPT !.order = o] : o \in Orders} :
          /\ late # e
          /\ (late.value # e.value) <=> e.kind \in NodeKinds \cup {"ImageIngested"}
          /\ copy' = [copy EXCEPT
                  ![c].events[v] = IF v \in Pending(c) THEN late ELSE @,
                  ![c].record.nodes = [i \in Ids |-> IF @[i] # None /\ copy[c].shared[i] = v
                                                     THEN [@[i] EXCEPT !.refs = "late"] ELSE @[i]],
                  ![c].spoilt = @ \cup {"argument"}]
    /\ UNCHANGED <<creation, stored, snap, origin>>

\* The free set_extension() on the record of the copy.
TouchRecord(c) ==
    /\ copy[c].live /\ creation = "ImageIngested" /\ Fault
    /\ copy' = [copy EXCEPT ![c].record.extension.value = "late", ![c].spoilt = @ \cup {"direct"}]
    /\ UNCHANGED <<creation, stored, snap, origin>>

Insertable_Replace(c) == TRUE      \* INSERT OR REPLACE

\* app.save(): all pending events are inserted, or none.
Insertable(c) == \A v \in Pending(c) : stored[v] = None

\* The events are inserted; then the snapshots are taken, or an error of the database
\* keeps them from being taken.
Save(c) ==
    LET inserted == [v \in Versions |-> IF v \in Pending(c) THEN Recorded(copy[c].events[v])
                                        ELSE stored[v]]
    IN
    /\ copy[c].live /\ Pending(c) # {} /\ Insertable(c)
    /\ stored' = inserted
    /\ origin' = [v \in Versions |->
                    IF v \in Pending(c)
                    THEN [seen |-> [u \in 1..(v - 1) |-> Recorded(copy[c].events[u])],
                          lost |-> "save" \in copy[c].spoilt]
                    ELSE origin[v]]
    /\ copy' = [copy EXCEPT ![c].drained = Len(copy[c].events)]
    /\ UNCHANGED creation
    /\ \/ snap' = Snapshots(inserted, c) /\ UNCHANGED faults
       \/ snap' = snap /\ Snapshots(inserted, c) # snap /\ Fault

\* A version is taken (IntegrityError), the database fails, or an argument holds what no
\* encoder takes: the events are lost.
SaveFails(c) ==
    /\ copy[c].live /\ Pending(c) # {}
    /\ copy' = [copy EXCEPT ![c].drained = Len(copy[c].events), ![c].spoilt = @ \cup {"save"}]
    /\ \/ ~Insertable(c) /\ UNCHANGED faults
       \/ Insertable(c) /\ Fault
    /\ UNCHANGED <<creation, stored, snap, origin>>

\* The copy is dropped, at the end of a request or in a crash.
Drop(c) ==
    /\ copy[c].live
    /\ copy' = [copy EXCEPT ![c] = Gone]
    /\ UNCHANGED <<creation, stored, snap, origin, faults>>

\* get_page, get_project.
Load(c) ==
    LET v == Newest(stored) IN
    /\ ~copy[c].live /\ Readable(stored, snap, v)
    /\ copy' = [copy EXCEPT ![c] = [Gone EXCEPT
                  !.live = TRUE, !.events = Upto(stored, v), !.loaded = v, !.drained = v,
                  !.record = Read(stored, snap, v)]]
    /\ UNCHANGED <<creation, stored, snap, origin, faults>>

Init ==
    /\ creation \in Creations
    /\ stored = [v \in Versions |-> None]
    /\ snap = [v \in Versions |-> None]
    /\ copy = [c \in Copies |-> Gone]
    /\ origin = [v \in Versions |-> [seen |-> <<>>, lost |-> FALSE]]
    /\ faults = 0

Next ==
    \E c \in Copies :
       \/ \E data \in Forms : Create(c, data)
       \/ \E e \in Commands : Command(c, e)
       \/ \E e \in Commands : Raises(c, e)
       \/ \E v \in Versions : TouchArgument(c, v)
       \/ TouchRecord(c) \/ Save(c) \/ SaveFails(c) \/ Drop(c) \/ Load(c)

Spec == Init /\ [][Next]_vars

-------------------------------------------------------------------------------
(* Properties.                                                             *)

\* All arguments up to version v were such as JSON gives back.
JsonOnly(events, v) ==
    \A u \in 1..v : events[u].data = "plain" /\ events[u].changes = "plain"

\* A copy whose arguments and record nobody changed behind the events' back and that had no
\* command rejected half-way agrees, as JSON, with the replay of its history as the store
\* keeps it; in every value when the arguments were such as JSON gives back.
RecordIsReplay ==
    \A c \in Copies :
        LET n == Len(copy[c].events)
            kept == [u \in 1..n |-> Recorded(copy[c].events[u])]
        IN  copy[c].live /\ copy[c].spoilt \subseteq {"save"}
            => /\ AsJson(copy[c].record) = AsJson(Replayed(kept, n))
               /\ JsonOnly(copy[c].events, n) => copy[c].record = Replayed(kept, n)

\* Unless a save of its failed, what a copy no longer has pending is what the store has.
SavedIsStored ==
    \A c \in Copies :
        copy[c].live /\ "save" \notin copy[c].spoilt
        => \A v \in 1..copy[c].drained : Recorded(copy[c].events[v]) = stored[v]

\* What memory holds and what a reload would give are one.
MemoryAgreesWithReplay == RecordIsReplay /\ SavedIsStored

\* A load gives, as JSON, the record that all events from the first give, whatever
\* snapshots were taken on the way and whatever state the objects were in when they were
\* saved; in every value unless some labeler_edited had changes JSON does not give back.
LoadsAgreeWithReplay ==
    LET n == Newest(stored) IN
    Readable(stored, snap, n) =>
        /\ AsJson(Read(stored, snap, n)) = AsJson(Replayed(stored, n))
        /\ JsonOnly(stored, n) => Read(stored, snap, n) = Replayed(stored, n)

\* No lost update and no gap: what a writer stores follows on the very events it had
\* seen, all of which are stored, unless it was used on after a failed save.  A history
\* that cannot be loaded (one with a gap) is the work of such a writer.
WritersSawTheHistory ==
    /\ \A v \in Stored(stored) :
          ~origin[v].lost => /\ 1..v \subseteq Stored(stored)
                             /\ origin[v].seen = Upto(stored, v - 1)
    /\ Stored(stored) # {} /\ ~Readable(stored, snap, Newest(stored))
       => \E v \in Stored(stored) : origin[v].lost
===============================================================================
