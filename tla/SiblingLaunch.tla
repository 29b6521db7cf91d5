---------------------------- MODULE SiblingLaunch ----------------------------
(***************************************************************************)
(* POST /api/suite/launch (suite/routes.py) with LocalSpawnLauncher        *)
(* (suite/sibling_spawn.py), and the start-up of the sibling it spawns:    *)
(* bootstrap_spa (suite/bootstrap.py), find_available_port, register_self. *)
(*                                                                         *)
(* A request is one call of the handler: it reads the app's row, awaits an *)
(* answer of /healthz on the row's port, spawns, and polls that port until *)
(* it answers or the deadline passes.  Requests interleave at the awaits.  *)
(* A process is one run of a sibling's main, which probes a port, puts the *)
(* port in its row and only then binds it.  The registry file itself, its  *)
(* lock and its timing are in SuiteFiles: here rows are read and written   *)
(* in one step, and rows that cannot be read any more count as none.       *)
(***************************************************************************)
EXTENDS Naturals, FiniteSets

CONSTANTS
    Apps,                 \* app ids
    Requests,             \* calls of launch_app
    Procs,                \* runs of a sibling's main
    FirstPort, LastPort,  \* the ports there are
    Preferred,            \* an app's preferred port
    MaxFaults,            \* bound on strangers, failures and slow answers
    None, Stranger, NoRow

Ports == FirstPort..LastPort

ASSUME LaunchAssumption ==
    /\ FirstPort \in Nat /\ LastPort \in Nat /\ FirstPort <= LastPort
    /\ Preferred \in [Apps -> Ports]
    /\ MaxFaults \in Nat
    /\ None \notin Procs \cup Ports \cup Apps /\ Stranger \notin Procs \cup {None}
    /\ NoRow \notin [port : Ports, enabled : BOOLEAN]

VARIABLES
    row,       \* installed.toml
    gone,      \* apps whose binary is not on disk
    held,      \* who listens on a port; a stranger may answer /healthz or not
    request,   \* where a call of launch_app is
    proc,      \* where a sibling process is
    troubled,  \* history: apps for which a cause of a second process occurred
    atRisk,    \* history: apps that may have lost their row since they registered
    faults

vars == <<row, gone, held, request, proc, troubled, atRisk, faults>>

InFlight == {"probe", "spawn", "poll"}

Request == [pc : {"idle", "done"} \cup InFlight,
            app : Apps \cup {None}, port : Ports \cup {None}]

Process == [pc : {"off", "start", "register", "bind", "serving", "exited"},
            app : Apps \cup {None}, port : Ports \cup {None}, registered : BOOLEAN]

TypeOK ==
    /\ row \in [Apps -> [port : Ports, enabled : BOOLEAN] \cup {NoRow}]
    /\ gone \in SUBSET Apps
    /\ held \in [Ports -> Procs \cup {Stranger, None}]
    /\ request \in [Requests -> Request]
    /\ proc \in [Procs -> Process]
    /\ troubled \in SUBSET Apps
    /\ atRisk \in SUBSET Apps
    /\ faults \in 0..MaxFaults

-------------------------------------------------------------------------------
(* Helpers.  Op_Something is a plausible bug in Op, used by no             *)
(* specification.                                                          *)

Running(a) == {p \in Procs : proc[p].app = a /\ proc[p].pc \notin {"off", "exited"}}

Launching(a) == {r \in Requests : request[r].app = a /\ request[r].pc \in InFlight}

Starting(a) == {p \in Running(a) : proc[p].pc # "serving"}

\* /healthz on port n: every app answers 200, and so may a stranger; nobody reads
\* the app_id in the answer.
MayAnswer(n) == held[n] # None

Troubled(a, cond) == troubled' = IF cond THEN troubled \cup {a} ELSE troubled

LaunchPort_Preferred(a) == Preferred[a]    \* the fragment's port, not the row's

\* The port a launch asks and passes on: default_port of the row.
LaunchPort(a) == row[a].port

FreePort_OneMore(n, start) ==    \* range(max_attempts + 1)
    \/ n \in start..LastPort /\ held[n] = None /\ \A m \in start..(n - 1) : held[m] # None
    \/ n = LastPort + 1 /\ \A m \in start..LastPort : held[m] # None

\* find_available_port, in a window that ends where the ports do.
FreePort(n, start) ==
    n \in start..LastPort /\ held[n] = None /\ \A m \in start..(n - 1) : held[m] # None

\* list_installed: a row whose binary is missing is left out of the answer.
Listed(a) == row[a] # NoRow /\ a \notin gone

\* register_self: actual_port wins over the fragment's default_port, and
\* enabled is its default again, whatever the row held.
RegisteredRow(a, n) == [port |-> n, enabled |-> TRUE]

Pruned_Others(a) == [b \in Apps |-> IF b # a THEN NoRow ELSE row[b]]   \* binary or not

\* The rows a registration of a keeps: those of other apps only if their binary is there.
Pruned(a) == [b \in Apps |-> IF b # a /\ b \in gone THEN NoRow ELSE row[b]]

\* The table that the registration of p writes over the one it read.
Registration(p, read) ==
    [read EXCEPT ![proc[p].app] = RegisteredRow(proc[p].app, proc[p].port)]

\* The handler returns or raises; what it answers, its action's name says.
Answers(r) == request' = [request EXCEPT ![r] = [pc |-> "done", app |-> None, port |-> None]]

Fault == /\ faults < MaxFaults
         /\ faults' = faults + 1

-------------------------------------------------------------------------------
(* A call of launch_app.                                                   *)

\* 404, also for an app whose binary is away or whose row is lost.
Unknown(r, a) ==
    /\ request[r].pc = "idle"
    /\ ~Listed(a)
    /\ Answers(r)
    /\ UNCHANGED <<row, gone, held, proc, troubled, atRisk, faults>>

\* 409.
Disabled(r, a) ==
    /\ request[r].pc = "idle"
    /\ Listed(a)
    /\ ~row[a].enabled
    /\ Answers(r)
    /\ UNCHANGED <<row, gone, held, proc, troubled, atRisk, faults>>

\* The row is read once, before the first await.
ReadRow(r, a) ==
    /\ request[r].pc = "idle"
    /\ Listed(a)
    /\ row[a].enabled
    /\ request' = [request EXCEPT ![r] =
                     [@ EXCEPT !.pc = "probe", !.app = a, !.port = LaunchPort(a)]]
    /\ Troubled(a, Launching(a) \cup Starting(a) # {})
    /\ UNCHANGED <<row, gone, held, proc, atRisk, faults>>

\* Any 200 on the port is taken for the sibling.
ProbeAnswered(r) ==
    /\ request[r].pc = "probe" /\ MayAnswer(request[r].port)
    /\ Answers(r)
    /\ UNCHANGED <<row, gone, held, proc, troubled, atRisk, faults>>

\* Refused, or a stranger that answers something else.
ProbeRefused(r) ==
    /\ request[r].pc = "probe"
    /\ held[request[r].port] \in {None, Stranger}
    /\ request' = [request EXCEPT ![r].pc = "spawn"]
    /\ UNCHANGED <<row, gone, held, proc, troubled, atRisk, faults>>

\* A server that takes longer than 0.5 s for its answer.
ProbeTimesOut(r) ==
    /\ request[r].pc = "probe"
    /\ held[request[r].port] \in Procs
    /\ Fault
    /\ request' = [request EXCEPT ![r].pc = "spawn"]
    /\ Troubled(request[r].app, TRUE)
    /\ UNCHANGED <<row, gone, held, proc, atRisk>>

Spawn(r, p) ==
    /\ request[r].pc = "spawn" /\ proc[p].pc = "off"
    /\ request[r].app \notin gone
    /\ request' = [request EXCEPT ![r].pc = "poll"]
    /\ \E start \in {request[r].port, Preferred[request[r].app]} :
          proc' = [proc EXCEPT ![p] =
                     [@ EXCEPT !.pc = "start", !.app = request[r].app, !.port = start]]
    /\ UNCHANGED <<row, gone, held, troubled, atRisk, faults>>

\* Popen raises: the binary has gone since the row was read, or the system has no
\* process to give.
SpawnFails(r) ==
    /\ request[r].pc = "spawn"
    /\ \/ request[r].app \in gone /\ UNCHANGED faults
       \/ Fault
    /\ Answers(r)
    /\ UNCHANGED <<row, gone, held, proc, troubled, atRisk>>

PollAnswered(r) ==
    /\ request[r].pc = "poll" /\ MayAnswer(request[r].port)
    /\ Answers(r)
    /\ UNCHANGED <<row, gone, held, proc, troubled, atRisk, faults>>

\* LaunchTimeoutError: the loop looks at the clock alone, never at the process,
\* and leaves the process as it is.
Deadline(r) ==
    /\ request[r].pc = "poll"
    /\ Answers(r)
    /\ UNCHANGED <<row, gone, held, proc, troubled, atRisk, faults>>

RequestStep(r) ==
    \/ ProbeAnswered(r) \/ ProbeRefused(r) \/ ProbeTimesOut(r)
    \/ \E p \in Procs : Spawn(r, p)
    \/ SpawnFails(r) \/ PollAnswered(r) \/ Deadline(r)

-------------------------------------------------------------------------------
(* A sibling's main: bootstrap_spa, then uvicorn.run on the port returned. *)

\* A user's start, which no launch waits for.
StartByHand(p, a) ==
    /\ proc[p].pc = "off"
    /\ proc' = [proc EXCEPT ![p] = [@ EXCEPT !.pc = "start", !.app = a, !.port = Preferred[a]]]
    /\ Troubled(a, Launching(a) \cup Running(a) # {})
    /\ UNCHANGED <<row, gone, held, request, atRisk, faults>>

FindPort(p) ==
    /\ proc[p].pc = "start"
    /\ \E n \in FirstPort..(LastPort + 1) :
          /\ FreePort(n, proc[p].port)
          /\ proc' = [proc EXCEPT ![p] = [@ EXCEPT !.pc = "register", !.port = n]]
    /\ UNCHANGED <<row, gone, held, request, troubled, atRisk, faults>>

\* RuntimeError, which bootstrap_spa lets through.
NoPort(p) ==
    /\ proc[p].pc = "start"
    /\ \A n \in proc[p].port..LastPort : held[n] # None
    /\ proc' = [proc EXCEPT ![p].pc = "exited"]
    /\ UNCHANGED <<row, gone, held, request, troubled, atRisk, faults>>

\* The app's own row is written, and rows of others whose binary is missing go.
Register(p) ==
    /\ proc[p].pc = "register"
    /\ row' = Registration(p, Pruned(proc[p].app))
    /\ proc' = [proc EXCEPT ![p] = [@ EXCEPT !.pc = "bind", !.registered = TRUE]]
    /\ atRisk' = atRisk \ ({proc[p].app} \ gone)
    /\ UNCHANGED <<gone, held, request, troubled, faults>>

\* The file cannot be read, which _read_raw takes for an empty one: every other row goes.
RegisterUnread(p) ==
    /\ proc[p].pc = "register"
    /\ Fault
    /\ row' = Registration(p, [b \in Apps |-> NoRow])
    /\ proc' = [proc EXCEPT ![p] = [@ EXCEPT !.pc = "bind", !.registered = TRUE]]
    /\ atRisk' = Apps \ ({proc[p].app} \ gone)
    /\ UNCHANGED <<gone, held, request, troubled>>

\* Killed in _write_raw, which opens the file empty and fills it: what it leaves is read
\* as the first rows of the table or, cut within one, as none.
KilledInRegister(p) ==
    /\ proc[p].pc = "register"
    /\ Fault
    /\ \E kept \in SUBSET Apps :
          /\ row' = [b \in Apps |-> IF b \in kept THEN Registration(p, Pruned(proc[p].app))[b]
                                                ELSE NoRow]
          /\ proc' = [proc EXCEPT ![p] = [@ EXCEPT !.pc = "exited",
                                                   !.registered = proc[p].app \in kept]]
    /\ atRisk' = Apps
    /\ UNCHANGED <<gone, held, request, troubled>>

\* register_self raises: a warning, and the start goes on.
RegisterFails(p) ==
    /\ proc[p].pc = "register"
    /\ Fault
    /\ proc' = [proc EXCEPT ![p].pc = "bind"]
    /\ Troubled(proc[p].app, TRUE)
    /\ UNCHANGED <<row, gone, held, request, atRisk>>

Bind(p) ==
    /\ proc[p].pc = "bind" /\ held[proc[p].port] = None
    /\ held' = [held EXCEPT ![proc[p].port] = p]
    /\ proc' = [proc EXCEPT ![p].pc = "serving"]
    /\ UNCHANGED <<row, gone, request, troubled, atRisk, faults>>

\* EADDRINUSE: the port went between the probe and the bind.
BindFails(p) ==
    /\ proc[p].pc = "bind" /\ held[proc[p].port] # None
    /\ proc' = [proc EXCEPT ![p].pc = "exited"]
    /\ UNCHANGED <<row, gone, held, request, troubled, atRisk, faults>>

\* Its row stays: nothing calls unregister.
Exit(p) ==
    /\ proc[p].pc \in {"start", "register", "bind", "serving"}
    /\ held' = [n \in Ports |-> IF held[n] = p THEN None ELSE held[n]]
    /\ proc' = [proc EXCEPT ![p].pc = "exited"]
    /\ UNCHANGED <<row, gone, request, troubled, atRisk, faults>>

-------------------------------------------------------------------------------
(* The environment.                                                        *)

StrangerBinds(n) ==
    /\ held[n] = None /\ Fault
    /\ held' = [held EXCEPT ![n] = Stranger]
    /\ UNCHANGED <<row, gone, request, proc, troubled, atRisk>>

StrangerLeaves(n) ==
    /\ held[n] = Stranger
    /\ held' = [held EXCEPT ![n] = None]
    /\ UNCHANGED <<row, gone, request, proc, troubled, atRisk, faults>>

\* An app is uninstalled or replaced, while it may be running.
BinaryGoes(a) ==
    /\ a \notin gone /\ Fault
    /\ gone' = gone \cup {a}
    /\ atRisk' = atRisk \cup {a}
    /\ UNCHANGED <<row, held, request, proc, troubled>>

BinaryReturns(a) ==
    /\ a \in gone
    /\ gone' = gone \ {a}
    /\ UNCHANGED <<row, held, request, proc, troubled, atRisk, faults>>

\* A user's edit of installed.toml: no code of the package clears the flag.
Disable(a) ==
    /\ row[a] # NoRow
    /\ row[a].enabled
    /\ Fault
    /\ row' = [row EXCEPT ![a].enabled = FALSE]
    /\ UNCHANGED <<gone, held, request, proc, troubled, atRisk>>

Init ==
    /\ row \in [Apps -> {NoRow} \cup [port : Ports, enabled : {TRUE}]]
    /\ \A a \in Apps : row[a] # NoRow => row[a].port = Preferred[a]
    /\ gone = {}
    /\ held = [n \in Ports |-> None]
    /\ request = [r \in Requests |-> [pc |-> "idle", app |-> None, port |-> None]]
    /\ proc = [p \in Procs |-> [pc |-> "off", app |-> None, port |-> None,
                                registered |-> FALSE]]
    /\ troubled = {}
    /\ atRisk = {}
    /\ faults = 0

ProcStep(p) ==
    \/ FindPort(p) \/ NoPort(p) \/ Register(p) \/ RegisterUnread(p) \/ RegisterFails(p)
    \/ KilledInRegister(p) \/ Bind(p) \/ BindFails(p) \/ Exit(p)

Next ==
    \/ \E r \in Requests : RequestStep(r)
    \/ \E r \in Requests, a \in Apps : Unknown(r, a) \/ Disabled(r, a) \/ ReadRow(r, a)
    \/ \E p \in Procs : ProcStep(p)
    \/ \E p \in Procs, a \in Apps : StartByHand(p, a)
    \/ \E n \in Ports : StrangerBinds(n) \/ StrangerLeaves(n)
    \/ \E a \in Apps : BinaryGoes(a) \/ BinaryReturns(a) \/ Disable(a)

Spec == Init /\ [][Next]_vars

-------------------------------------------------------------------------------
(* Properties.                                                             *)

\* Launching finds a running sibling again, wherever it had to move, whoever
\* started it, and after launches that timed out or were answered by another server:
\* an app has a second process only after one of the causes the code does not guard
\* against, which are a launch beside another launch or start that is not finished, a
\* start by hand beside a launch or a process, an answer slower than 0.5 s, and a
\* failed registration.
OneProcessUntroubled ==
    \A a \in Apps \ troubled : Cardinality(Running(a)) <= 1

\* "The recorded value must match the live port" (register_self): however siblings move,
\* register, are pruned by one another and die in the registry's write, the row of a
\* registered sibling that serves names its port, unless a later process of the same
\* app has put its own port there; and the row is missing only if, since the app
\* registered, its binary was away for a while or a registration lost the file.
RowNamesLivePort ==
    \A p \in Procs : proc[p].pc = "serving" /\ proc[p].registered =>
        LET a == proc[p].app IN
        /\ row[a] = NoRow => a \in atRisk
        /\ row[a] # NoRow /\ row[a].port # proc[p].port =>
              \E q \in Procs \ {p} : /\ proc[q].app = a /\ proc[q].registered
                                     /\ proc[q].port = row[a].port

===============================================================================
