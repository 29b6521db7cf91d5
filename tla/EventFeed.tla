------------------------------- MODULE EventFeed ------------------------------
(***************************************************************************)
(* What LongJobRunner.stream_events promises (pdomain_ops/gpu/             *)
(* protocols.py: "Stream events for a job until terminal state"), without  *)
(* saying how: each topic has a log that only grows until the topic is     *)
(* closed, and a reader that follows a topic gets the log in order and     *)
(* ends when it has all of a closed one.                                   *)
(***************************************************************************)
EXTENDS Naturals, Sequences

CONSTANTS
    Topics,   \* the jobs
    Readers,  \* the streams
    Events,   \* what is published
    Nothing   \* the topic of a reader that follows none

VARIABLES
    log,     \* the events of each topic
    closed,  \* whether the topic is closed: nothing will be published any more
    topic,   \* the topic a reader follows
    got,     \* what a reader has received
    ended    \* whether a reader was told that it has everything

vars == <<log, closed, topic, got, ended>>

Init ==
    /\ log = [t \in Topics |-> <<>>]
    /\ closed = [t \in Topics |-> FALSE]
    /\ topic = [r \in Readers |-> Nothing]
    /\ got = [r \in Readers |-> <<>>]
    /\ ended = [r \in Readers |-> FALSE]

\* An event is published on an open topic.
Publish(t) ==
    /\ ~closed[t]
    /\ \E e \in Events : log' = [log EXCEPT ![t] = Append(@, e)]
    /\ UNCHANGED <<closed, topic, got, ended>>

Close(t) ==
    /\ ~closed[t]
    /\ closed' = [closed EXCEPT ![t] = TRUE]
    /\ UNCHANGED <<log, topic, got, ended>>

Follow(r, t) ==
    /\ topic[r] = Nothing
    /\ topic' = [topic EXCEPT ![r] = t]
    /\ UNCHANGED <<log, closed, got, ended>>

\* A reader catches up with the log, and ends if the topic is closed.
Deliver(r) ==
    /\ topic[r] # Nothing
    /\ got' = [got EXCEPT ![r] = log[topic[r]]]
    /\ ended' = [ended EXCEPT ![r] = closed[topic[r]]]
    /\ UNCHANGED <<log, closed, topic>>

Next ==
    \/ \E t \in Topics : Publish(t) \/ Close(t)
    \/ \E r \in Readers, t \in Topics : Follow(r, t)
    \/ \E r \in Readers : Deliver(r)

Spec == Init /\ [][Next]_vars

\* A reader of a closed topic is served: it gets the rest of the log, and ends.
LastDelivery(r) ==
    /\ topic[r] # Nothing
    /\ closed[topic[r]]
    /\ Deliver(r)

FairSpec == Spec /\ \A r \in Readers : WF_vars(LastDelivery(r))
===============================================================================
