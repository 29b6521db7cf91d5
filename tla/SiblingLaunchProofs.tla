------------------------- MODULE SiblingLaunchProofs --------------------------
(***************************************************************************)
(* Proofs about SiblingLaunch, for any number of apps, requests, processes *)
(* and ports: one process per app unless one of the named causes occurred, *)
(* and rows that lead to the live port.                                    *)
(***************************************************************************)
EXTENDS SiblingLaunch, FiniteSetTheorems, TLAPS

(***************************************************************************)
(* The inductive invariant.  For an app nothing troubled, a request that   *)
(* is on its way knows all there is: while it asks, only a process it will *)
(* find; once it was refused, none at all.                                 *)
(***************************************************************************)

\* What the fields of a process hold at each point of its main.
ProcInv ==
    \A p \in Procs :
        /\ proc[p].pc # "off" => proc[p].app \in Apps /\ proc[p].port \in Ports
        /\ proc[p].pc \in {"off", "start", "register"} => ~proc[p].registered
        /\ proc[p].registered => proc[p].app \in Apps
        /\ proc[p].pc = "serving" => held[proc[p].port] = p

RequestInv ==
    \A r \in Requests :
        request[r].pc \in InFlight => request[r].app \in Apps /\ request[r].port \in Ports

\* An app whose binary is away may lose its row at any time.
GoneInv == gone \subseteq atRisk

\* The row of an app with a registered process is the one a process wrote last, or lost.
RowInv ==
    \A p \in Procs : proc[p].registered =>
        /\ row[proc[p].app] = NoRow => proc[p].app \in atRisk
        /\ row[proc[p].app] # NoRow =>
              \E q \in Procs : /\ proc[q].app = proc[p].app /\ proc[q].registered
                               /\ proc[q].port = row[proc[p].app].port

\* A process that nothing troubled and that is past its registration is in the row,
\* if there is one.
UntroubledRow ==
    \A p \in Procs :
        /\ proc[p].pc \in {"bind", "serving"} /\ proc[p].app \notin troubled
        /\ row[proc[p].app] # NoRow
        => row[proc[p].app].port = proc[p].port

AtMostOneProcess ==
    \A p, q \in Procs :
        /\ proc[p].pc \notin {"off", "exited"} /\ proc[q].pc \notin {"off", "exited"}
        /\ proc[p].app = proc[q].app /\ proc[p].app \notin troubled
        => p = q

AtMostOneRequest ==
    \A r, s \in Requests :
        /\ request[r].pc \in InFlight /\ request[s].pc \in InFlight
        /\ request[r].app = request[s].app /\ request[r].app \notin troubled
        => r = s

RequestKnows ==
    \A r \in Requests, p \in Procs :
        /\ request[r].app \notin troubled
        /\ proc[p].pc \notin {"off", "exited"} /\ proc[p].app = request[r].app
        => /\ request[r].pc = "probe" => /\ proc[p].pc = "serving"
                                         /\ proc[p].port = request[r].port
           /\ request[r].pc # "spawn"

IInv == /\ TypeOK /\ GoneInv /\ ProcInv /\ RequestInv /\ RowInv
        /\ UntroubledRow /\ AtMostOneProcess /\ AtMostOneRequest /\ RequestKnows

-------------------------------------------------------------------------------
(* The steps of a request.                                                 *)

\* What must be known of a request that goes on.
Knows(r, rec) ==
    rec.pc \in InFlight =>
        /\ rec.app \in Apps /\ rec.port \in Ports
        /\ rec.app \notin troubled' =>
              /\ \A s \in Requests \ {r} : ~(request[s].pc \in InFlight /\ request[s].app = rec.app)
              /\ \A p \in Procs : proc[p].pc \notin {"off", "exited"} /\ proc[p].app = rec.app =>
                    /\ rec.pc = "probe" => proc[p].pc = "serving" /\ proc[p].port = rec.port
                    /\ rec.pc # "spawn"

LEMMA RequestMoves ==
    ASSUME IInv, NEW r \in Requests, NEW rec \in Request,
           request' = [request EXCEPT ![r] = rec], UNCHANGED <<row, gone, held, proc, atRisk>>,
           troubled \subseteq troubled', troubled' \in SUBSET Apps, faults' \in 0..MaxFaults,
           Knows(r, rec)
    PROVE  IInv'
  <1>1. request \in [Requests -> Request]
    BY DEF IInv, TypeOK
  <1>2. request'[r] = rec /\ \A s \in Requests \ {r} : request'[s] = request[s]
    BY <1>1
  <1>3. TypeOK' /\ GoneInv'
    BY <1>1 DEF IInv, TypeOK, GoneInv
  <1>4. ProcInv' /\ RowInv' /\ GoneInv'
    BY DEF IInv, ProcInv, RowInv, GoneInv
  <1>5. UntroubledRow'
    BY DEF IInv, UntroubledRow
  <1>6. AtMostOneProcess'
    BY DEF IInv, AtMostOneProcess
  <1>7. RequestInv'
    BY <1>2 DEF IInv, RequestInv, Knows
  <1>8. AtMostOneRequest'
    BY <1>2 DEF IInv, AtMostOneRequest, Knows
  <1>9. RequestKnows'
    BY <1>2 DEF IInv, RequestKnows, Knows, InFlight
  <1> QED  BY <1>3, <1>4, <1>5, <1>6, <1>7, <1>8, <1>9 DEF IInv

\* A request that is answered.
LEMMA AnswerKeeps ==
    ASSUME IInv, NEW r \in Requests, Answers(r),
           UNCHANGED <<row, gone, held, proc, troubled, atRisk>>, faults' \in 0..MaxFaults
    PROVE  IInv'
  <1> DEFINE rec == [pc |-> "done", app |-> None, port |-> None]
  <1>1. request[r] \in Request /\ troubled \in SUBSET Apps
    BY DEF IInv, TypeOK
  <1>2. rec \in Request /\ rec.pc = "done"
    BY <1>1 DEF Request
  <1>3. request' = [request EXCEPT ![r] = rec]
    BY DEF Answers
  <1>4. Knows(r, rec)
    BY <1>2 DEF Knows, InFlight
  <1> HIDE DEF rec
  <1> QED  BY <1>1, <1>2, <1>3, <1>4, RequestMoves

LEMMA FaultType ==
    ASSUME TypeOK, Fault
    PROVE  faults' \in 0..MaxFaults
  BY LaunchAssumption DEF TypeOK, Fault

\* A request that reads an enabled row: unless it runs beside another or beside a start,
\* all there is of the app is a process that serves, on the port of the row.
LEMMA ReadRowKeeps ==
    ASSUME IInv, NEW r \in Requests, NEW a \in Apps, ReadRow(r, a)
    PROVE  IInv'
  <1> DEFINE rec == [request[r] EXCEPT !.pc = "probe", !.app = a, !.port = row[a].port]
  <1>1. request[r] \in Request /\ troubled \in SUBSET Apps /\ faults \in 0..MaxFaults
        /\ row[a] # NoRow /\ row[a] \in [port : Ports, enabled : BOOLEAN]
    BY DEF IInv, TypeOK, ReadRow, Listed
  <1>2. rec \in Request /\ rec.pc = "probe" /\ rec.app = a /\ rec.port = row[a].port
    BY <1>1 DEF Request, InFlight
  <1>3. request' = [request EXCEPT ![r] = rec]
    BY DEF ReadRow, LaunchPort
  <1>4. troubled' = (IF Launching(a) \cup Starting(a) # {} THEN troubled \cup {a} ELSE troubled)
        /\ UNCHANGED <<row, gone, held, proc, atRisk, faults>>
    BY DEF ReadRow, Troubled
  <1>5. troubled \subseteq troubled' /\ troubled' \in SUBSET Apps /\ faults' \in 0..MaxFaults
    BY <1>1, <1>4
  <1> HIDE DEF rec
  <1>6. ASSUME a \notin troubled'
        PROVE  /\ a \notin troubled
               /\ \A s \in Requests : ~(request[s].pc \in InFlight /\ request[s].app = a)
               /\ \A p \in Procs : proc[p].pc \notin {"off", "exited"} /\ proc[p].app = a
                                  => proc[p].pc = "serving"
    <2>1. Launching(a) = {} /\ Starting(a) = {} /\ a \notin troubled
      BY <1>4, <1>6
    <2> QED  BY <2>1 DEF Launching, Starting, Running
  <1>7. Knows(r, rec)
    BY <1>1, <1>2, <1>6 DEF Knows, IInv, UntroubledRow
  <1> QED  BY <1>2, <1>3, <1>4, <1>5, <1>7, RequestMoves

\* A probe that is refused: a process the request knows would have answered.
LEMMA ProbeRefusedKeeps ==
    ASSUME IInv, NEW r \in Requests, ProbeRefused(r)
    PROVE  IInv'
  <1> DEFINE rec == [request[r] EXCEPT !.pc = "spawn"]
  <1>1. request[r] \in Request /\ troubled \in SUBSET Apps /\ faults \in 0..MaxFaults
        /\ request[r].pc = "probe" /\ held[request[r].port] \in {None, Stranger}
    BY DEF IInv, TypeOK, ProbeRefused
  <1>2. rec \in Request /\ rec.pc = "spawn" /\ rec.app = request[r].app /\ rec.port = request[r].port
    BY <1>1 DEF Request, InFlight
  <1>3. request' = [request EXCEPT ![r] = rec] /\ UNCHANGED <<row, gone, held, proc, troubled, atRisk, faults>>
    BY DEF ProbeRefused
  <1> HIDE DEF rec
  <1>4. ASSUME request[r].app \notin troubled, NEW p \in Procs
        PROVE  ~(proc[p].pc \notin {"off", "exited"} /\ proc[p].app = request[r].app)
    <2> SUFFICES ASSUME proc[p].pc \notin {"off", "exited"}, proc[p].app = request[r].app
                 PROVE  FALSE
      OBVIOUS
    <2>1. proc[p].pc = "serving" /\ proc[p].port = request[r].port
      BY <1>1, <1>4 DEF IInv, RequestKnows
    <2>2. held[request[r].port] = p
      BY <2>1 DEF IInv, ProcInv
    <2> QED  BY <1>1, <2>2, LaunchAssumption
  <1>5. Knows(r, rec)
    BY <1>1, <1>2, <1>3, <1>4 DEF Knows, IInv, AtMostOneRequest, RequestInv, InFlight
  <1> QED  BY <1>1, <1>2, <1>3, <1>5, RequestMoves

LEMMA ProbeTimesOutKeeps ==
    ASSUME IInv, NEW r \in Requests, ProbeTimesOut(r)
    PROVE  IInv'
  <1> DEFINE rec == [request[r] EXCEPT !.pc = "spawn"]
  <1>1. request[r] \in Request /\ troubled \in SUBSET Apps /\ faults' \in 0..MaxFaults
        /\ request[r].pc = "probe"
    BY FaultType DEF IInv, TypeOK, ProbeTimesOut
  <1>2. rec \in Request /\ rec.pc = "spawn" /\ rec.app = request[r].app /\ rec.port = request[r].port
    BY <1>1 DEF Request, InFlight
  <1>3. request' = [request EXCEPT ![r] = rec] /\ UNCHANGED <<row, gone, held, proc, atRisk>>
        /\ troubled' = troubled \cup {request[r].app}
    BY DEF ProbeTimesOut, Troubled
  <1> HIDE DEF rec
  <1>4. request[r].app \in Apps /\ request[r].port \in Ports
    BY <1>1 DEF IInv, RequestInv, InFlight
  <1>5. Knows(r, rec)
    BY <1>2, <1>3, <1>4 DEF Knows
  <1> QED  BY <1>1, <1>2, <1>3, <1>4, <1>5, RequestMoves

-------------------------------------------------------------------------------
(* The steps of a process.                                                 *)

\* The process exits, or goes on before it serves.
Continues(p, rec) ==
    \/ rec.pc = "exited"
    \/ /\ proc[p].pc \in {"start", "register", "bind"} /\ rec.pc # "off"
       /\ rec.app = proc[p].app

LEMMA ProcMoves ==
    ASSUME IInv, NEW p \in Procs, NEW rec \in Process, proc' = [proc EXCEPT ![p] = rec],
           UNCHANGED request, troubled \subseteq troubled', Continues(p, rec)
    PROVE  /\ proc' \in [Procs -> Process]
           /\ proc'[p] = rec /\ \A q \in Procs \ {p} : proc'[q] = proc[q]
           /\ RequestInv' /\ AtMostOneProcess' /\ AtMostOneRequest' /\ RequestKnows'
  <1>1. proc \in [Procs -> Process]
    BY DEF IInv, TypeOK
  <1>2. proc'[p] = rec /\ \A q \in Procs \ {p} : proc'[q] = proc[q]
    BY <1>1
  <1>3. proc' \in [Procs -> Process]
    BY <1>1
  <1>4. RequestInv'
    BY DEF IInv, RequestInv
  <1>5. AtMostOneProcess'
    BY <1>2 DEF IInv, AtMostOneProcess, Continues
  <1>6. AtMostOneRequest'
    BY DEF IInv, AtMostOneRequest
  <1>7. RequestKnows'
    BY <1>2 DEF IInv, RequestKnows, Continues
  <1> QED  BY <1>2, <1>3, <1>4, <1>5, <1>6, <1>7

LEMMA ProcFacts ==
    ASSUME IInv, NEW p \in Procs, proc[p].pc # "off"
    PROVE  proc[p] \in Process /\ proc[p].app \in Apps /\ proc[p].port \in Ports
  BY DEF IInv, TypeOK, ProcInv

\* A process that registered goes on being the one its row, or another's, follows.
LEMMA RegistrationsStay ==
    ASSUME IInv, NEW p \in Procs, NEW rec \in Process, proc' = [proc EXCEPT ![p] = rec],
           UNCHANGED <<row, atRisk>>, rec.registered = proc[p].registered,
           proc[p].registered => rec.app = proc[p].app /\ rec.port = proc[p].port
    PROVE  RowInv'
  <1>1. proc \in [Procs -> Process]
    BY DEF IInv, TypeOK
  <1>2. \A q \in Procs : /\ proc'[q].registered = proc[q].registered
                         /\ proc[q].registered => /\ proc'[q].app = proc[q].app
                                                   /\ proc'[q].port = proc[q].port
    BY <1>1
  <1> QED  BY <1>2 DEF IInv, RowInv

LEMMA FindPortKeeps ==
    ASSUME IInv, NEW p \in Procs, FindPort(p)
    PROVE  IInv'
  <1>1. PICK n : n \in Ports /\ proc' = [proc EXCEPT ![p] = [@ EXCEPT !.pc = "register", !.port = n]]
    <2>1. PICK n \in FirstPort..(LastPort + 1) :
              FreePort(n, proc[p].port)
              /\ proc' = [proc EXCEPT ![p] = [@ EXCEPT !.pc = "register", !.port = n]]
      BY DEF FindPort
    <2>2. n \in proc[p].port .. LastPort
      BY <2>1 DEF FreePort
    <2>3. proc[p].port \in Ports
      BY ProcFacts DEF FindPort
    <2>4. n \in Ports
      BY <2>1, <2>2, <2>3, LaunchAssumption DEF Ports
    <2> QED  BY <2>1, <2>4
  <1> DEFINE rec == [proc[p] EXCEPT !.pc = "register", !.port = n]
  <1>2. proc[p].pc = "start" /\ proc[p] \in Process /\ proc[p].app \in Apps
        /\ UNCHANGED <<row, gone, held, request, troubled, atRisk, faults>>
    BY ProcFacts DEF FindPort
  <1>3. rec \in Process /\ rec.pc = "register" /\ rec.port = n /\ rec.app = proc[p].app
        /\ rec.registered = proc[p].registered
    BY <1>1, <1>2 DEF Process
  <1>4. proc' = [proc EXCEPT ![p] = rec]
    BY <1>1
  <1> HIDE DEF rec
  <1>5. Continues(p, rec)
    BY <1>2, <1>3 DEF Continues
  <1>6. /\ proc' \in [Procs -> Process]
        /\ proc'[p] = rec /\ \A q \in Procs \ {p} : proc'[q] = proc[q]
        /\ RequestInv' /\ AtMostOneProcess' /\ AtMostOneRequest' /\ RequestKnows'
    BY <1>2, <1>3, <1>4, <1>5, ProcMoves
  <1>7. ~proc[p].registered
    BY <1>2 DEF IInv, ProcInv
  <1>8. TypeOK' /\ GoneInv'
    BY <1>2, <1>6 DEF IInv, TypeOK, GoneInv
  <1>9. ProcInv'
    BY <1>1, <1>2, <1>3, <1>6, <1>7 DEF IInv, ProcInv
  <1>10. RowInv'
    BY <1>2, <1>3, <1>4, <1>7, RegistrationsStay
  <1>11. UntroubledRow'
    BY <1>2, <1>3, <1>6 DEF IInv, UntroubledRow
  <1> QED  BY <1>6, <1>8, <1>9, <1>10, <1>11 DEF IInv

\* A process that ends leaves everything but its port.
LEMMA ExitedKeeps ==
    ASSUME IInv, NEW p \in Procs, proc[p].pc # "off",
           proc' = [proc EXCEPT ![p].pc = "exited"],
           held' \in [Ports -> Procs \cup {Stranger, None}],
           \A n \in Ports : held[n] # p => held'[n] = held[n],
           UNCHANGED <<row, gone, request, troubled, atRisk, faults>>
    PROVE  IInv'
  <1> DEFINE rec == [proc[p] EXCEPT !.pc = "exited"]
  <1>1. proc[p] \in Process /\ proc[p].app \in Apps /\ proc[p].port \in Ports
    BY ProcFacts
  <1>2. rec \in Process /\ rec.pc = "exited" /\ rec.port = proc[p].port /\ rec.app = proc[p].app
        /\ rec.registered = proc[p].registered
    BY <1>1 DEF Process
  <1>3. proc' = [proc EXCEPT ![p] = rec]
    OBVIOUS
  <1> HIDE DEF rec
  <1>4. Continues(p, rec)
    BY <1>2 DEF Continues
  <1>5. /\ proc' \in [Procs -> Process]
        /\ proc'[p] = rec /\ \A q \in Procs \ {p} : proc'[q] = proc[q]
        /\ RequestInv' /\ AtMostOneProcess' /\ AtMostOneRequest' /\ RequestKnows'
    BY <1>2, <1>3, <1>4, ProcMoves
  <1>6. TypeOK' /\ GoneInv'
    BY <1>5 DEF IInv, TypeOK, GoneInv
  <1>7. ProcInv'
    <2> SUFFICES ASSUME NEW q \in Procs
                 PROVE  /\ proc'[q].pc # "off" => proc'[q].app \in Apps /\ proc'[q].port \in Ports
                        /\ proc'[q].pc \in {"off", "start", "register"} => ~proc'[q].registered
                        /\ proc'[q].registered => proc'[q].app \in Apps
                        /\ proc'[q].pc = "serving" => held'[proc'[q].port] = q
      BY DEF ProcInv
    <2>1. CASE q = p
      BY <1>1, <1>2, <1>5, <2>1
    <2>2. CASE q # p
      <3>1. proc'[q] = proc[q]
        BY <1>5, <2>2
      <3>2. proc[q].pc = "serving" => proc[q].port \in Ports /\ held[proc[q].port] = q
        BY DEF IInv, ProcInv
      <3> QED  BY <2>2, <3>1, <3>2 DEF IInv, ProcInv
    <2> QED  BY <2>1, <2>2
  <1>8. RowInv'
    BY <1>2, <1>3, RegistrationsStay
  <1>9. UntroubledRow'
    BY <1>2, <1>5 DEF IInv, UntroubledRow
  <1> QED  BY <1>5, <1>6, <1>7, <1>8, <1>9 DEF IInv

(***************************************************************************)
(* What the three ways a registration can go have in common: the row of    *)
(* the app is its own, or lost with the process that wrote it; those of    *)
(* others stay or are lost, and every loss is one that atRisk names.       *)
(***************************************************************************)
LEMMA TableWritten ==
    ASSUME IInv, NEW p \in Procs, NEW rec \in Process, proc[p].pc = "register",
           proc' = [proc EXCEPT ![p] = rec], rec.app = proc[p].app, rec.port = proc[p].port,
           \/ rec.pc = "exited"
           \/ rec.pc = "bind" /\ rec.registered,
           row' \in [Apps -> [port : Ports, enabled : BOOLEAN] \cup {NoRow}],
           IF rec.registered
           THEN row'[proc[p].app] # NoRow /\ row'[proc[p].app].port = proc[p].port
           ELSE row'[proc[p].app] = NoRow /\ proc[p].app \in atRisk',
           \A b \in Apps \ {proc[p].app} :
              row'[b] = row[b] \/ (row'[b] = NoRow /\ b \in atRisk'),
           atRisk' \in SUBSET Apps, gone \subseteq atRisk', atRisk \ {proc[p].app} \subseteq atRisk',
           UNCHANGED <<gone, held, request, troubled>>, faults' \in 0..MaxFaults
    PROVE  IInv'
  <1> DEFINE a == proc[p].app  n == proc[p].port
  <1>1. proc[p] \in Process /\ a \in Apps /\ n \in Ports
    BY ProcFacts
  <1>2. Continues(p, rec)
    BY DEF Continues
  <1>3. /\ proc' \in [Procs -> Process]
        /\ proc'[p] = rec /\ \A q \in Procs \ {p} : proc'[q] = proc[q]
        /\ RequestInv' /\ AtMostOneProcess' /\ AtMostOneRequest' /\ RequestKnows'
    BY <1>2, ProcMoves
  <1>4. TypeOK' /\ GoneInv'
    BY <1>3 DEF IInv, TypeOK, GoneInv
  <1>5. ProcInv'
    BY <1>1, <1>3 DEF IInv, ProcInv
  <1>6. RowInv'
    <2> SUFFICES ASSUME NEW q \in Procs, proc'[q].registered
                 PROVE  /\ row'[proc'[q].app] = NoRow => proc'[q].app \in atRisk'
                        /\ row'[proc'[q].app] # NoRow =>
                              \E s \in Procs : /\ proc'[s].app = proc'[q].app /\ proc'[s].registered
                                               /\ proc'[s].port = row'[proc'[q].app].port
      BY DEF RowInv
    <2>1. CASE proc'[q].app = a
      BY <1>3, <2>1
    <2>2. CASE proc'[q].app # a
      <3>1. q # p /\ proc'[q] = proc[q] /\ proc[q].app \in Apps \ {a}
        BY <1>3, <2>2 DEF IInv, ProcInv
      <3>2. CASE row'[proc[q].app] = row[proc[q].app]
        <4>1. row[proc[q].app] = NoRow => proc[q].app \in atRisk'
          BY <3>1 DEF IInv, RowInv
        <4>2. ASSUME row[proc[q].app] # NoRow
              PROVE  \E s \in Procs : /\ proc'[s].app = proc[q].app /\ proc'[s].registered
                                      /\ proc'[s].port = row[proc[q].app].port
          <5>1. PICK s \in Procs : /\ proc[s].app = proc[q].app /\ proc[s].registered
                                   /\ proc[s].port = row[proc[q].app].port
            BY <3>1, <4>2 DEF IInv, RowInv
          <5>2. s # p
            BY <3>1, <5>1
          <5> QED  BY <1>3, <5>1, <5>2
        <4> QED  BY <3>1, <3>2, <4>1, <4>2
      <3> QED  BY <3>1, <3>2
    <2> QED  BY <2>1, <2>2
  <1>7. UntroubledRow'
    <2> SUFFICES ASSUME NEW q \in Procs, proc'[q].pc \in {"bind", "serving"},
                        proc'[q].app \notin troubled, row'[proc'[q].app] # NoRow
                 PROVE  row'[proc'[q].app].port = proc'[q].port
      BY DEF UntroubledRow
    <2>1. CASE q = p
      BY <1>3, <2>1
    <2>2. CASE q # p
      <3>1. proc'[q] = proc[q]
        BY <1>3, <2>2
      <3>2. proc[q].app \in Apps \ {a}
        BY <2>2, <3>1 DEF IInv, AtMostOneProcess, ProcInv
      <3>3. row'[proc[q].app] = row[proc[q].app]
        BY <3>1, <3>2
      <3> QED  BY <3>1, <3>3 DEF IInv, UntroubledRow
    <2> QED  BY <2>1, <2>2
  <1> QED  BY <1>3, <1>4, <1>5, <1>6, <1>7 DEF IInv

\* What Registration makes of a table.
LEMMA RegistrationIs ==
    ASSUME IInv, NEW p \in Procs, proc[p].pc = "register",
           NEW read \in [Apps -> [port : Ports, enabled : BOOLEAN] \cup {NoRow}]
    PROVE  /\ Registration(p, read) \in [Apps -> [port : Ports, enabled : BOOLEAN] \cup {NoRow}]
           /\ Registration(p, read)[proc[p].app] # NoRow
           /\ Registration(p, read)[proc[p].app].port = proc[p].port
           /\ \A b \in Apps \ {proc[p].app} : Registration(p, read)[b] = read[b]
  <1> DEFINE a == proc[p].app  n == proc[p].port  new == [port |-> n, enabled |-> TRUE]
  <1>1. a \in Apps /\ n \in Ports
    BY ProcFacts
  <1>2. Registration(p, read) = [read EXCEPT ![a] = new]
    BY DEF Registration, RegisteredRow
  <1> HIDE DEF a, n
  <1>3. new \in [port : Ports, enabled : BOOLEAN] /\ new.port = n
    BY <1>1
  <1> HIDE DEF new
  <1>4. new # NoRow
    BY <1>3, LaunchAssumption
  <1>5. Registration(p, read) \in [Apps -> [port : Ports, enabled : BOOLEAN] \cup {NoRow}]
        /\ Registration(p, read)[a] = new
        /\ \A b \in Apps \ {a} : Registration(p, read)[b] = read[b]
    BY <1>1, <1>2, <1>3
  <1> QED  BY <1>3, <1>4, <1>5 DEF a, n

LEMMA PrunedIs ==
    ASSUME IInv, NEW a \in Apps
    PROVE  /\ Pruned(a) \in [Apps -> [port : Ports, enabled : BOOLEAN] \cup {NoRow}]
           /\ \A b \in Apps : Pruned(a)[b] = row[b] \/ (Pruned(a)[b] = NoRow /\ b \in gone)
  BY DEF IInv, TypeOK, Pruned

\* A process that has registered: what its record is.
LEMMA RegisteredProcess ==
    ASSUME IInv, NEW p \in Procs, proc[p].pc = "register",
           proc' = [proc EXCEPT ![p] = [@ EXCEPT !.pc = "bind", !.registered = TRUE]]
    PROVE  \E rec \in Process : /\ proc' = [proc EXCEPT ![p] = rec]
                                /\ rec.app = proc[p].app /\ rec.port = proc[p].port
                                /\ rec.pc = "bind" /\ rec.registered
  <1> DEFINE rec == [proc[p] EXCEPT !.pc = "bind", !.registered = TRUE]
  <1>1. proc[p] \in Process
    BY ProcFacts
  <1>2. rec \in Process /\ rec.pc = "bind" /\ rec.port = proc[p].port /\ rec.app = proc[p].app
    BY <1>1 DEF Process
  <1>3. rec.registered
    BY <1>1 DEF Process
  <1> QED  BY <1>2, <1>3

LEMMA RegisterKeeps ==
    ASSUME IInv, NEW p \in Procs, Register(p)
    PROVE  IInv'
  <1> DEFINE a == proc[p].app  read == Pruned(a)
  <1>1. /\ proc[p].pc = "register" /\ row' = Registration(p, read)
        /\ proc' = [proc EXCEPT ![p] = [@ EXCEPT !.pc = "bind", !.registered = TRUE]]
        /\ atRisk' = atRisk \ ({a} \ gone) /\ UNCHANGED <<gone, held, request, troubled, faults>>
    BY DEF Register
  <1>2. a \in Apps
    BY <1>1, ProcFacts
  <1>3. gone \subseteq atRisk /\ atRisk \in SUBSET Apps /\ faults \in 0..MaxFaults
    BY DEF IInv, GoneInv, TypeOK
  <1>4. read \in [Apps -> [port : Ports, enabled : BOOLEAN] \cup {NoRow}]
        /\ \A b \in Apps : read[b] = row[b] \/ (read[b] = NoRow /\ b \in gone)
    BY <1>2, PrunedIs
  <1> HIDE DEF read
  <1>5. /\ row' \in [Apps -> [port : Ports, enabled : BOOLEAN] \cup {NoRow}]
        /\ row'[a] # NoRow /\ row'[a].port = proc[p].port
        /\ \A b \in Apps \ {a} : row'[b] = read[b]
    BY <1>1, <1>4, RegistrationIs
  <1>6. PICK rec \in Process : /\ proc' = [proc EXCEPT ![p] = rec]
                               /\ rec.app = a /\ rec.port = proc[p].port
                               /\ rec.pc = "bind" /\ rec.registered
    BY <1>1, RegisteredProcess
  <1>7. atRisk' \in SUBSET Apps /\ gone \subseteq atRisk' /\ atRisk \ {a} \subseteq atRisk'
    BY <1>1, <1>3
  <1>8. \A b \in Apps \ {a} : row'[b] = row[b] \/ (row'[b] = NoRow /\ b \in atRisk')
    BY <1>4, <1>5, <1>7
  <1> QED  BY <1>1, <1>3, <1>5, <1>6, <1>7, <1>8, TableWritten

LEMMA RegisterUnreadKeeps ==
    ASSUME IInv, NEW p \in Procs, RegisterUnread(p)
    PROVE  IInv'
  <1> DEFINE a == proc[p].app  read == [b \in Apps |-> NoRow]
  <1>1. /\ proc[p].pc = "register" /\ row' = Registration(p, read)
        /\ proc' = [proc EXCEPT ![p] = [@ EXCEPT !.pc = "bind", !.registered = TRUE]]
        /\ atRisk' = Apps \ ({a} \ gone) /\ UNCHANGED <<gone, held, request, troubled>>
    BY DEF RegisterUnread
  <1>2. faults' \in 0..MaxFaults
    BY FaultType DEF RegisterUnread, IInv
  <1>3. gone \in SUBSET Apps /\ atRisk \in SUBSET Apps
    BY DEF IInv, TypeOK
  <1>4. read \in [Apps -> [port : Ports, enabled : BOOLEAN] \cup {NoRow}]
        /\ \A b \in Apps : read[b] = NoRow
    OBVIOUS
  <1> HIDE DEF read
  <1>5. /\ row' \in [Apps -> [port : Ports, enabled : BOOLEAN] \cup {NoRow}]
        /\ row'[a] # NoRow /\ row'[a].port = proc[p].port
        /\ \A b \in Apps \ {a} : row'[b] = read[b]
    BY <1>1, <1>4, RegistrationIs
  <1>6. PICK rec \in Process : /\ proc' = [proc EXCEPT ![p] = rec]
                               /\ rec.app = a /\ rec.port = proc[p].port
                               /\ rec.pc = "bind" /\ rec.registered
    BY <1>1, RegisteredProcess
  <1>7. atRisk' \in SUBSET Apps /\ gone \subseteq atRisk' /\ atRisk \ {a} \subseteq atRisk'
    BY <1>1, <1>3
  <1>8. \A b \in Apps \ {a} : row'[b] = row[b] \/ (row'[b] = NoRow /\ b \in atRisk')
    BY <1>1, <1>4, <1>5
  <1> QED  BY <1>1, <1>2, <1>5, <1>6, <1>7, <1>8, TableWritten

LEMMA KilledInRegisterKeeps ==
    ASSUME IInv, NEW p \in Procs, KilledInRegister(p)
    PROVE  IInv'
  <1> DEFINE a == proc[p].app  read == Pruned(a)  written == Registration(p, read)
  <1>1. /\ proc[p].pc = "register" /\ atRisk' = Apps
        /\ UNCHANGED <<gone, held, request, troubled>>
    BY DEF KilledInRegister
  <1>2. faults' \in 0..MaxFaults
    BY FaultType DEF KilledInRegister, IInv
  <1>3. PICK kept \in SUBSET Apps :
          /\ row' = [b \in Apps |-> IF b \in kept THEN written[b] ELSE NoRow]
          /\ proc' = [proc EXCEPT ![p] = [@ EXCEPT !.pc = "exited", !.registered = a \in kept]]
    BY DEF KilledInRegister
  <1>4. proc[p] \in Process /\ a \in Apps
    BY <1>1, ProcFacts
  <1>5. gone \in SUBSET Apps /\ atRisk \in SUBSET Apps
    BY DEF IInv, TypeOK
  <1>6. read \in [Apps -> [port : Ports, enabled : BOOLEAN] \cup {NoRow}]
        /\ \A b \in Apps : read[b] = row[b] \/ read[b] = NoRow
    BY <1>4, PrunedIs
  <1> HIDE DEF read
  <1>7. /\ written \in [Apps -> [port : Ports, enabled : BOOLEAN] \cup {NoRow}]
        /\ written[a] # NoRow /\ written[a].port = proc[p].port
        /\ \A b \in Apps \ {a} : written[b] = read[b]
    BY <1>1, <1>6, RegistrationIs
  <1> HIDE DEF written
  <1>8. PICK own \in BOOLEAN : own = (a \in kept)
    <2>1. (a \in kept) \in BOOLEAN
      <3> HIDE DEF a
      <3> QED  OBVIOUS
    <2> HIDE DEF a
    <2> QED  BY <2>1, Zenon
  <1> DEFINE rec == [proc[p] EXCEPT !.pc = "exited", !.registered = own]
  <1>9. rec \in Process /\ rec.pc = "exited" /\ rec.app = a /\ rec.port = proc[p].port
    BY <1>4 DEF Process
  <1>10. rec.registered <=> a \in kept
    <2>1. rec.registered = own
      BY <1>4 DEF Process
    <2> HIDE DEF rec
    <2> QED  BY <1>8, <2>1
  <1>11. proc' = [proc EXCEPT ![p] = rec]
    BY <1>3, <1>8
  <1> HIDE DEF rec
  <1>12. row' \in [Apps -> [port : Ports, enabled : BOOLEAN] \cup {NoRow}]
    BY <1>3, <1>7
  <1>13. IF rec.registered THEN row'[a] # NoRow /\ row'[a].port = proc[p].port
                           ELSE row'[a] = NoRow /\ a \in atRisk'
    BY <1>1, <1>3, <1>4, <1>7, <1>10
  <1>14. \A b \in Apps \ {a} : row'[b] = row[b] \/ (row'[b] = NoRow /\ b \in atRisk')
    BY <1>1, <1>3, <1>6, <1>7
  <1> QED  BY <1>1, <1>2, <1>5, <1>9, <1>11, <1>12, <1>13, <1>14, TableWritten

LEMMA RegisterFailsKeeps ==
    ASSUME IInv, NEW p \in Procs, RegisterFails(p)
    PROVE  IInv'
  <1> DEFINE rec == [proc[p] EXCEPT !.pc = "bind"]
  <1>1. proc[p].pc = "register" /\ proc[p] \in Process /\ proc[p].app \in Apps
        /\ proc[p].port \in Ports /\ troubled' = troubled \cup {proc[p].app}
        /\ faults' \in 0..MaxFaults /\ UNCHANGED <<row, gone, held, request, atRisk>>
    BY ProcFacts, FaultType DEF RegisterFails, Troubled, IInv
  <1>2. rec \in Process /\ rec.pc = "bind" /\ rec.port = proc[p].port /\ rec.app = proc[p].app
        /\ rec.registered = proc[p].registered
    BY <1>1 DEF Process
  <1>3. proc' = [proc EXCEPT ![p] = rec]
    BY DEF RegisterFails
  <1> HIDE DEF rec
  <1>4. Continues(p, rec)
    BY <1>1, <1>2 DEF Continues
  <1>5. /\ proc' \in [Procs -> Process]
        /\ proc'[p] = rec /\ \A q \in Procs \ {p} : proc'[q] = proc[q]
        /\ RequestInv' /\ AtMostOneProcess' /\ AtMostOneRequest' /\ RequestKnows'
    BY <1>1, <1>2, <1>3, <1>4, ProcMoves
  <1>6. TypeOK' /\ GoneInv'
    BY <1>1, <1>5 DEF IInv, TypeOK, GoneInv
  <1>7. ProcInv'
    BY <1>1, <1>2, <1>5 DEF IInv, ProcInv
  <1>8. RowInv'
    BY <1>1, <1>2, <1>3, RegistrationsStay
  <1>9. UntroubledRow'
    BY <1>1, <1>2, <1>5 DEF IInv, UntroubledRow
  <1> QED  BY <1>5, <1>6, <1>7, <1>8, <1>9 DEF IInv

LEMMA BindKeeps ==
    ASSUME IInv, NEW p \in Procs, Bind(p)
    PROVE  IInv'
  <1> DEFINE rec == [proc[p] EXCEPT !.pc = "serving"]  n == proc[p].port
  <1>1. proc[p].pc = "bind" /\ proc[p] \in Process /\ proc[p].app \in Apps
        /\ n \in Ports /\ held[n] = None /\ held' = [held EXCEPT ![n] = p]
        /\ UNCHANGED <<row, gone, request, troubled, atRisk, faults>>
    BY ProcFacts DEF Bind
  <1>2. rec \in Process /\ rec.pc = "serving" /\ rec.port = n /\ rec.app = proc[p].app
        /\ rec.registered = proc[p].registered
    BY <1>1 DEF Process
  <1>3. proc' = [proc EXCEPT ![p] = rec]
    BY DEF Bind
  <1> HIDE DEF rec
  <1>4. Continues(p, rec)
    BY <1>1, <1>2 DEF Continues
  <1>5. /\ proc' \in [Procs -> Process]
        /\ proc'[p] = rec /\ \A q \in Procs \ {p} : proc'[q] = proc[q]
        /\ RequestInv' /\ AtMostOneProcess' /\ AtMostOneRequest' /\ RequestKnows'
    BY <1>1, <1>2, <1>3, <1>4, ProcMoves
  <1>6. held' \in [Ports -> Procs \cup {Stranger, None}]
        /\ held'[n] = p /\ \A m \in Ports \ {n} : held'[m] = held[m]
    BY <1>1 DEF IInv, TypeOK
  <1>7. TypeOK' /\ GoneInv'
    BY <1>1, <1>5, <1>6 DEF IInv, TypeOK, GoneInv
  <1>8. ProcInv'
    <2> SUFFICES ASSUME NEW q \in Procs
                 PROVE  /\ proc'[q].pc # "off" => proc'[q].app \in Apps /\ proc'[q].port \in Ports
                        /\ proc'[q].pc \in {"off", "start", "register"} => ~proc'[q].registered
                        /\ proc'[q].registered => proc'[q].app \in Apps
                        /\ proc'[q].pc = "serving" => held'[proc'[q].port] = q
      BY DEF ProcInv
    <2>1. CASE q = p
      BY <1>1, <1>2, <1>5, <1>6, <2>1
    <2>2. CASE q # p
      <3>1. proc'[q] = proc[q]
        BY <1>5, <2>2
      <3>2. proc[q].pc = "serving" => proc[q].port \in Ports \ {n} /\ held[proc[q].port] = q
        BY <1>1, LaunchAssumption DEF IInv, ProcInv
      <3> QED  BY <1>6, <3>1, <3>2 DEF IInv, ProcInv
    <2> QED  BY <2>1, <2>2
  <1>9. RowInv'
    BY <1>1, <1>2, <1>3, RegistrationsStay
  <1>10. UntroubledRow'
    BY <1>1, <1>2, <1>5 DEF IInv, UntroubledRow
  <1> QED  BY <1>5, <1>7, <1>8, <1>9, <1>10 DEF IInv

-------------------------------------------------------------------------------
(* The steps that start a process, and those of the environment.           *)

\* A process starts; its request, if it has one, goes on to poll.
Started(p, a, n) ==
    /\ a \in Apps /\ n \in Ports /\ proc[p].pc = "off"
    /\ proc' = [proc EXCEPT ![p] = [@ EXCEPT !.pc = "start", !.app = a, !.port = n]]

LEMMA StartedProcess ==
    ASSUME IInv, NEW p \in Procs, NEW a, NEW n, Started(p, a, n),
           UNCHANGED <<row, gone, held, atRisk>>, troubled \subseteq troubled'
    PROVE  /\ proc' \in [Procs -> Process]
           /\ proc'[p].pc = "start" /\ proc'[p].app = a
           /\ \A q \in Procs \ {p} : proc'[q] = proc[q]
           /\ ProcInv' /\ RowInv' /\ UntroubledRow'
  <1> DEFINE rec == [proc[p] EXCEPT !.pc = "start", !.app = a, !.port = n]
  <1>1. proc \in [Procs -> Process] /\ proc[p] \in Process
    BY DEF IInv, TypeOK
  <1>2. rec \in Process /\ rec.pc = "start" /\ rec.app = a /\ rec.port = n
        /\ rec.registered = proc[p].registered
    BY <1>1 DEF Process, Started
  <1>3. proc' = [proc EXCEPT ![p] = rec] /\ a \in Apps /\ n \in Ports /\ proc[p].pc = "off"
    BY DEF Started
  <1> HIDE DEF rec
  <1>4. proc' \in [Procs -> Process] /\ proc'[p] = rec /\ \A q \in Procs \ {p} : proc'[q] = proc[q]
    BY <1>1, <1>2, <1>3
  <1>5. ~proc[p].registered
    BY <1>3 DEF IInv, ProcInv
  <1>6. ProcInv'
    BY <1>2, <1>3, <1>4, <1>5 DEF IInv, ProcInv
  <1>7. RowInv'
    BY <1>2, <1>3, <1>5, RegistrationsStay
  <1>8. UntroubledRow'
    BY <1>2, <1>4 DEF IInv, UntroubledRow
  <1> QED  BY <1>2, <1>4, <1>6, <1>7, <1>8

\* The request that spawns knew of no process, and goes on alone.
LEMMA SpawnKeeps ==
    ASSUME IInv, NEW r \in Requests, NEW p \in Procs, Spawn(r, p)
    PROVE  IInv'
  <1> DEFINE a == request[r].app
             rec == [request[r] EXCEPT !.pc = "poll"]
  <1>1. request[r] \in Request /\ request \in [Requests -> Request] /\ request[r].pc = "spawn"
        /\ UNCHANGED <<row, gone, held, troubled, atRisk, faults>>
    BY DEF IInv, TypeOK, Spawn
  <1>2. a \in Apps /\ request[r].port \in Ports
    BY <1>1 DEF IInv, RequestInv, InFlight
  <1>3. PICK n : Started(p, a, n)
    BY <1>2, LaunchAssumption DEF Spawn, Started
  <1>4. rec \in Request /\ rec.pc = "poll" /\ rec.app = a /\ rec.port = request[r].port
    BY <1>1 DEF Request, InFlight
  <1>5. request' = [request EXCEPT ![r] = rec]
    BY DEF Spawn
  <1> HIDE DEF rec
  <1>6. request' \in [Requests -> Request] /\ request'[r] = rec
        /\ \A s \in Requests \ {r} : request'[s] = request[s]
    BY <1>1, <1>4, <1>5
  <1>7. /\ proc' \in [Procs -> Process]
        /\ proc'[p].pc = "start" /\ proc'[p].app = a
        /\ \A q \in Procs \ {p} : proc'[q] = proc[q]
        /\ ProcInv' /\ RowInv' /\ UntroubledRow'
    BY <1>1, <1>3, StartedProcess
  <1>8. TypeOK' /\ GoneInv'
    BY <1>1, <1>6, <1>7 DEF IInv, TypeOK, GoneInv
  <1>9. RequestInv'
    BY <1>2, <1>4, <1>6 DEF IInv, RequestInv
  <1>10. ASSUME a \notin troubled
         PROVE  /\ \A q \in Procs : proc[q].pc \in {"off", "exited"} \/ proc[q].app # a
                /\ \A s \in Requests \ {r} : request[s].pc \notin InFlight \/ request[s].app # a
    BY <1>1, <1>10 DEF IInv, RequestKnows, AtMostOneRequest, InFlight
  <1>11. AtMostOneProcess'
    BY <1>1, <1>7, <1>10 DEF IInv, AtMostOneProcess
  <1>12. AtMostOneRequest'
    BY <1>1, <1>4, <1>6 DEF IInv, AtMostOneRequest, InFlight
  <1>13. RequestKnows'
    BY <1>1, <1>4, <1>6, <1>7, <1>10 DEF IInv, RequestKnows, InFlight
  <1> QED  BY <1>7, <1>8, <1>9, <1>11, <1>12, <1>13 DEF IInv

LEMMA StartByHandKeeps ==
    ASSUME IInv, NEW p \in Procs, NEW a \in Apps, StartByHand(p, a)
    PROVE  IInv'
  <1>1. Started(p, a, Preferred[a]) /\ UNCHANGED <<row, gone, held, request, atRisk, faults>>
    BY LaunchAssumption DEF StartByHand, Started
  <1>2. troubled' = (IF Launching(a) \cup Running(a) # {} THEN troubled \cup {a} ELSE troubled)
    BY DEF StartByHand, Troubled
  <1>3. troubled \subseteq troubled' /\ troubled' \in SUBSET Apps
    BY <1>2 DEF IInv, TypeOK
  <1>4. /\ proc' \in [Procs -> Process]
        /\ proc'[p].pc = "start" /\ proc'[p].app = a
        /\ \A q \in Procs \ {p} : proc'[q] = proc[q]
        /\ ProcInv' /\ RowInv' /\ UntroubledRow'
    BY <1>1, <1>3, StartedProcess
  <1>5. ASSUME a \notin troubled'
        PROVE  /\ \A q \in Procs : proc[q].pc \in {"off", "exited"} \/ proc[q].app # a
               /\ \A s \in Requests : request[s].pc \notin InFlight \/ request[s].app # a
    <2>1. Launching(a) = {} /\ Running(a) = {}
      BY <1>2, <1>5
    <2> QED  BY <2>1 DEF Launching, Running
  <1>6. TypeOK' /\ GoneInv'
    BY <1>1, <1>3, <1>4 DEF IInv, TypeOK, GoneInv
  <1>7. RequestInv' /\ AtMostOneRequest'
    BY <1>1, <1>3 DEF IInv, RequestInv, AtMostOneRequest
  <1>8. AtMostOneProcess'
    BY <1>3, <1>4, <1>5 DEF IInv, AtMostOneProcess
  <1>9. RequestKnows'
    BY <1>1, <1>3, <1>4, <1>5 DEF IInv, RequestKnows, InFlight
  <1> QED  BY <1>4, <1>6, <1>7, <1>8, <1>9 DEF IInv

\* Neither a stranger nor an edit of the flag touches a port that a process serves.
LEMMA EnvironmentKeeps ==
    ASSUME IInv, UNCHANGED <<request, proc, troubled>>, faults' \in 0..MaxFaults,
           gone' \in SUBSET Apps, atRisk' \in SUBSET Apps, gone' \subseteq atRisk',
           atRisk \subseteq atRisk',
           held' \in [Ports -> Procs \cup {Stranger, None}],
           \A n \in Ports : held[n] \in Procs => held'[n] = held[n],
           row' \in [Apps -> [port : Ports, enabled : BOOLEAN] \cup {NoRow}],
           \A a \in Apps : IF row[a] = NoRow THEN row'[a] = NoRow
                           ELSE row'[a] # NoRow /\ row'[a].port = row[a].port
    PROVE  IInv'
  <1>1. TypeOK' /\ GoneInv'
    BY DEF IInv, TypeOK, GoneInv
  <1>2. ProcInv'
    BY DEF IInv, ProcInv
  <1>3. RowInv'
    BY DEF IInv, RowInv, ProcInv
  <1>4. UntroubledRow'
    BY DEF IInv, UntroubledRow, ProcInv
  <1>5. RequestInv' /\ AtMostOneProcess' /\ AtMostOneRequest' /\ RequestKnows'
    BY DEF IInv, RequestInv, AtMostOneProcess, AtMostOneRequest, RequestKnows
  <1> QED  BY <1>1, <1>2, <1>3, <1>4, <1>5 DEF IInv

LEMMA StrangersKeep ==
    ASSUME IInv, NEW n \in Ports, StrangerBinds(n) \/ StrangerLeaves(n)
    PROVE  IInv'
  <1>1. TypeOK /\ held[n] \in {None, Stranger} /\ UNCHANGED <<row, gone, request, proc, troubled, atRisk>>
    BY DEF IInv, StrangerBinds, StrangerLeaves
  <1>2. faults' \in 0..MaxFaults
    BY <1>1, FaultType DEF StrangerBinds, StrangerLeaves, TypeOK
  <1>3. \E x \in {None, Stranger} : held' = [held EXCEPT ![n] = x]
    BY DEF StrangerBinds, StrangerLeaves
  <1>4. held' \in [Ports -> Procs \cup {Stranger, None}]
        /\ \A m \in Ports : held[m] \in Procs => held'[m] = held[m]
    BY <1>1, <1>3, LaunchAssumption DEF TypeOK
  <1>5. row' \in [Apps -> [port : Ports, enabled : BOOLEAN] \cup {NoRow}]
        /\ \A a \in Apps : row'[a] = row[a]
    BY <1>1 DEF TypeOK
  <1>6. gone' \in SUBSET Apps /\ atRisk' \in SUBSET Apps /\ gone' \subseteq atRisk'
        /\ atRisk \subseteq atRisk'
    BY <1>1 DEF IInv, TypeOK, GoneInv
  <1> QED  BY <1>1, <1>2, <1>4, <1>5, <1>6, EnvironmentKeeps

LEMMA BinariesKeep ==
    ASSUME IInv, NEW a \in Apps, BinaryGoes(a) \/ BinaryReturns(a)
    PROVE  IInv'
  <1>1. TypeOK /\ gone \subseteq atRisk /\ UNCHANGED <<row, held, request, proc, troubled>>
    BY DEF IInv, GoneInv, BinaryGoes, BinaryReturns
  <1>2. faults' \in 0..MaxFaults
    BY <1>1, FaultType DEF BinaryGoes, BinaryReturns, TypeOK
  <1>3. gone' \in SUBSET Apps /\ atRisk' \in SUBSET Apps /\ gone' \subseteq atRisk'
        /\ atRisk \subseteq atRisk'
    BY <1>1 DEF BinaryGoes, BinaryReturns, TypeOK
  <1>4. /\ held' \in [Ports -> Procs \cup {Stranger, None}]
        /\ row' \in [Apps -> [port : Ports, enabled : BOOLEAN] \cup {NoRow}]
        /\ \A n \in Ports : held'[n] = held[n]
        /\ \A b \in Apps : row'[b] = row[b]
    BY <1>1 DEF TypeOK
  <1> QED  BY <1>1, <1>2, <1>3, <1>4, EnvironmentKeeps

LEMMA DisableKeeps ==
    ASSUME IInv, NEW a \in Apps, Disable(a)
    PROVE  IInv'
  <1> DEFINE new == [row[a] EXCEPT !.enabled = FALSE]
  <1>1. TypeOK /\ row[a] # NoRow /\ UNCHANGED <<gone, held, request, proc, troubled, atRisk>>
        /\ row' = [row EXCEPT ![a] = new]
    BY DEF IInv, Disable
  <1>2. faults' \in 0..MaxFaults
    BY <1>1, FaultType DEF Disable
  <1>3. new \in [port : Ports, enabled : BOOLEAN] /\ new.port = row[a].port
    BY <1>1 DEF TypeOK
  <1>4. new # NoRow
    BY <1>3, LaunchAssumption
  <1> HIDE DEF new
  <1>5. row' \in [Apps -> [port : Ports, enabled : BOOLEAN] \cup {NoRow}]
        /\ \A b \in Apps : IF row[b] = NoRow THEN row'[b] = NoRow
                            ELSE row'[b] # NoRow /\ row'[b].port = row[b].port
    BY <1>1, <1>3, <1>4 DEF TypeOK
  <1>6. held' \in [Ports -> Procs \cup {Stranger, None}]
        /\ gone' \in SUBSET Apps /\ atRisk' \in SUBSET Apps /\ gone' \subseteq atRisk'
    BY <1>1 DEF IInv, TypeOK, GoneInv
  <1> QED  BY <1>1, <1>2, <1>5, <1>6, EnvironmentKeeps

-------------------------------------------------------------------------------
(* The invariant and what it says.                                         *)

LEMMA InvInit == Init => IInv
  <1> SUFFICES ASSUME Init
               PROVE  IInv
    OBVIOUS
  <1>1. /\ \A r \in Requests : request[r].pc = "idle" /\ request[r].app = None
        /\ \A p \in Procs : proc[p].pc = "off" /\ ~proc[p].registered
    BY DEF Init
  <1>2. TypeOK
    <2>1. row \in [Apps -> [port : Ports, enabled : BOOLEAN] \cup {NoRow}]
      BY DEF Init
    <2>2. request \in [Requests -> Request]
      BY DEF Init, Request
    <2>3. proc \in [Procs -> Process]
      BY DEF Init, Process
    <2>4. held \in [Ports -> Procs \cup {Stranger, None}] /\ troubled \in SUBSET Apps
          /\ gone \in SUBSET Apps /\ atRisk \in SUBSET Apps
          /\ faults \in 0..MaxFaults
      BY LaunchAssumption DEF Init
    <2> QED  BY <2>1, <2>2, <2>3, <2>4 DEF TypeOK
  <1>3. GoneInv /\ ProcInv /\ RequestInv /\ RowInv /\ UntroubledRow
    BY <1>1 DEF Init, GoneInv, ProcInv, RequestInv, RowInv, UntroubledRow, InFlight
  <1>4. AtMostOneProcess /\ AtMostOneRequest /\ RequestKnows
    BY <1>1 DEF AtMostOneProcess, AtMostOneRequest, RequestKnows, InFlight
  <1> QED  BY <1>2, <1>3, <1>4 DEF IInv

LEMMA RequestStepKeeps ==
    ASSUME IInv, NEW r \in Requests, RequestStep(r)
    PROVE  IInv'
  <1>1. faults \in 0..MaxFaults /\ TypeOK
    BY DEF IInv, TypeOK
  <1>2. CASE ProbeAnswered(r) \/ PollAnswered(r) \/ Deadline(r)
    BY <1>1, <1>2, AnswerKeeps DEF ProbeAnswered, PollAnswered, Deadline
  <1>3. CASE SpawnFails(r)
    <2>1. faults' \in 0..MaxFaults
      BY <1>1, <1>3, FaultType DEF SpawnFails
    <2> QED  BY <1>3, <2>1, AnswerKeeps DEF SpawnFails
  <1> QED  BY <1>2, <1>3, ProbeRefusedKeeps, ProbeTimesOutKeeps, SpawnKeeps DEF RequestStep

LEMMA ProcStepKeeps ==
    ASSUME IInv, NEW p \in Procs, ProcStep(p)
    PROVE  IInv'
  <1>1. CASE NoPort(p) \/ BindFails(p) \/ Exit(p)
    <2>1. proc[p].pc # "off" /\ proc' = [proc EXCEPT ![p].pc = "exited"]
          /\ UNCHANGED <<row, gone, request, troubled, atRisk, faults>>
      BY <1>1 DEF NoPort, BindFails, Exit
    <2>2. held \in [Ports -> Procs \cup {Stranger, None}]
      BY DEF IInv, TypeOK
    <2>3. held' = held \/ held' = [n \in Ports |-> IF held[n] = p THEN None ELSE held[n]]
      BY <1>1 DEF NoPort, BindFails, Exit
    <2> QED  BY <2>1, <2>2, <2>3, ExitedKeeps
  <1> QED  BY <1>1, FindPortKeeps, RegisterKeeps, RegisterUnreadKeeps,
       KilledInRegisterKeeps, RegisterFailsKeeps, BindKeeps
    DEF ProcStep

LEMMA InvNext == IInv /\ [Next]_vars => IInv'
  <1> SUFFICES ASSUME IInv, [Next]_vars
               PROVE  IInv'
    OBVIOUS
  <1>1. CASE UNCHANGED vars
    BY <1>1 DEF vars, IInv, TypeOK, GoneInv, ProcInv, RequestInv, RowInv, UntroubledRow,
       AtMostOneProcess, AtMostOneRequest, RequestKnows
  <1>2. ASSUME NEW r \in Requests, NEW a \in Apps, Unknown(r, a) \/ Disabled(r, a) \/ ReadRow(r, a)
        PROVE  IInv'
    <2>1. faults \in 0..MaxFaults
      BY DEF IInv, TypeOK
    <2>2. CASE Unknown(r, a) \/ Disabled(r, a)
      BY <2>1, <2>2, AnswerKeeps DEF Unknown, Disabled
    <2> QED  BY <1>2, <2>2, ReadRowKeeps
  <1> QED
    BY <1>1, <1>2, RequestStepKeeps, ProcStepKeeps, StartByHandKeeps, StrangersKeep,
       BinariesKeep, DisableKeeps
    DEF Next

LEMMA Invariant == Spec => []IInv
  BY InvInit, InvNext, PTL DEF Spec

\* Types, for any number of apps, requests, processes and ports.
THEOREM TypeCorrect == Spec => []TypeOK
  <1>1. IInv => TypeOK
    BY DEF IInv
  <1> QED  BY Invariant, <1>1, PTL

\* However requests, starts, moved ports, deadlines, exits and strangers interleave,
\* an app has a second process only after one of the named causes: another launch or
\* start beside a launch, a start by hand beside a process, a slow answer, a failed
\* registration.
THEOREM OneProcess == Spec => []OneProcessUntroubled
  <1>1. ASSUME IInv, NEW a \in Apps \ troubled
        PROVE  Cardinality(Running(a)) <= 1
    <2>1. \A p, q \in Running(a) : p = q
      BY <1>1 DEF Running, IInv, AtMostOneProcess
    <2>2. CASE Running(a) = {}
      BY <2>2, FS_EmptySet
    <2>3. ASSUME NEW p \in Running(a)
          PROVE  Cardinality(Running(a)) = 1
      <3>1. Running(a) = {p}
        BY <2>1, <2>3
      <3> QED  BY <3>1, FS_Singleton
    <2> QED  BY <2>2, <2>3
  <1>2. IInv => OneProcessUntroubled
    BY <1>1 DEF OneProcessUntroubled
  <1> QED  BY Invariant, <1>2, PTL

\* "The recorded value must match the live port": a registered process that serves is
\* found by its row, unless a later process of its app has put its own port there; it
\* has no row only if its binary was away, or the file was lost, since it registered.
THEOREM RowsAreLive == Spec => []RowNamesLivePort
  <1>1. IInv => RowNamesLivePort
    BY DEF IInv, RowInv, RowNamesLivePort
  <1> QED  BY Invariant, <1>1, PTL
===============================================================================
