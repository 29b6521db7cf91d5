----------------------------- MODULE DesktopShell -----------------------------
(***************************************************************************)
(* run_windowed (pdomain_ops/desktop.py) with its default seams: the       *)
(* single-instance pidfile (suite/single_instance.py), the port probe      *)
(* (suite/ports.py), the server thread, the health poll, tray, window and  *)
(* teardown, and restart().                                                *)
(*                                                                         *)
(* A shell is one launch of run_windowed in a process of its own.  The     *)
(* pidfile functions run under a FileLock, which keeps other launches out, *)
(* but not the rest of the machine: read_live looks for the process and    *)
(* reaps the pidfile in two steps.  Between the check, the port probe and  *)
(* the acquire other launches interleave.                                  *)
(* Every app of the suite uses the same pidfile ("pd-suite").  Process ids *)
(* and ports are the operating system's: strangers hold some of them, and  *)
(* an id is given out again once its process is gone.                      *)
(***************************************************************************)
EXTENDS Naturals

CONSTANTS
    Shells,               \* launches of run_windowed
    Pids,                 \* process ids
    FirstPort, LastPort,  \* the window find_available_port probes
    MaxFaults,            \* bound on kills, raising seams, dying servers, strangers
    MaxRestarts,          \* bound on restart() per shell
    None, Stranger,
    Absent, Corrupt       \* a pidfile that is not there, or not JSON

Ports == FirstPort..LastPort

ASSUME ShellAssumption ==
    /\ FirstPort \in Nat /\ LastPort \in Nat /\ FirstPort <= LastPort
    /\ MaxFaults \in Nat /\ MaxRestarts \in Nat
    /\ None \notin Shells \cup Pids \cup Ports /\ Stranger \notin Shells \cup {None}
    /\ Absent # Corrupt /\ {Absent, Corrupt} \cap [pid : Pids, port : Ports] = {}

VARIABLES
    pidfile,    \* locks/pd-suite.json
    pid,        \* the process id of a shell, None when it has no process
    strangers,  \* process ids of processes that are no shells
    held,       \* who listens on a port
    shell,      \* where run_windowed is, and its server thread, tray and quit_event
    raced,      \* history: two launches overlapped between check and acquire
    faults

vars == <<pidfile, pid, strangers, held, shell, raced, faults>>

Checking == {"check", "reap"}                      \* in read_live
Entering == {"port", "acquire"}                    \* checked, not yet acquired
Guarded == {"health", "tray", "open", "window"}    \* inside the try
Teardown == {"stop", "join", "untray"}
Acquired == {"start"} \cup Guarded \cup Teardown

Shell == [pc : {"off", "exited"} \cup Checking \cup Entering \cup Acquired,
          port : Ports \cup {None},
          server : {"none", "starting", "up", "failed", "dead", "stopped"},
          quit : BOOLEAN, tray : BOOLEAN, restarts : 0..MaxRestarts,
          outcome : {"none", "focused", "raised", "closed", "killed"}]

TypeOK ==
    /\ pidfile \in {Absent, Corrupt} \cup [pid : Pids, port : Ports]
    /\ pid \in [Shells -> Pids \cup {None}]
    /\ strangers \in SUBSET Pids
    /\ held \in [Ports -> Shells \cup {Stranger, None}]
    /\ shell \in [Shells -> Shell]
    /\ raced \in BOOLEAN
    /\ faults \in 0..MaxFaults

-------------------------------------------------------------------------------
(* Helpers.  Op_Something is a plausible bug in Op, used by no             *)
(* specification.                                                          *)

Live(p) == pid[p] # None

PidInUse(x) == x \in strangers \/ \E p \in Shells : pid[p] = x

PidAlive_Serving(x) == \/ x \in strangers              \* probes the server instead
                       \/ \E p \in Shells : pid[p] = x /\ shell[p].server = "up"

\* _pid_alive: os.kill(pid, 0), where a refused signal means alive.
PidAlive(x) == PidInUse(x)

FreePort_OneMore(n) ==     \* range(max_attempts + 1)
    \/ n \in Ports /\ held[n] = None /\ \A m \in FirstPort..(n - 1) : held[m] # None
    \/ n = LastPort + 1 /\ \A m \in Ports : held[m] # None

\* find_available_port: the first port whose probe bind succeeds.
FreePort(n) ==
    n \in Ports /\ held[n] = None /\ \A m \in FirstPort..(n - 1) : held[m] # None

PidfileEntry_Preferred(p) == [pid |-> pid[p], port |-> FirstPort]

\* acquire: what is written over whatever the pidfile held.
PidfileEntry(p) == [pid |-> pid[p], port |-> shell[p].port]

LockFree_Ignored == TRUE     \* the reap outside of the lock

\* The FileLock of acquire and read_live; all they do under it in one step leaves it free.
LockFree == \A p \in Shells : shell[p].pc # "reap"

\* What read_live returns.
Existing == pidfile \notin {Absent, Corrupt} /\ PidAlive(pidfile.pid)

Goto(p, pc) == shell' = [shell EXCEPT ![p].pc = pc]

\* The process of p ends: its id, its daemon threads and its port are gone.
EndProcess(p, outcome) ==
    /\ pid' = [pid EXCEPT ![p] = None]
    /\ held' = [n \in Ports |-> IF held[n] = p THEN None ELSE held[n]]
    /\ shell' = [shell EXCEPT ![p] =
                   [@ EXCEPT !.pc = "exited", !.outcome = outcome, !.server = "none",
                             !.tray = FALSE, !.quit = FALSE]]

Fault == /\ faults < MaxFaults
         /\ faults' = faults + 1

-------------------------------------------------------------------------------
(* The main thread.                                                        *)

Launch(p, x) ==
    /\ shell[p].pc = "off" /\ ~PidInUse(x)
    /\ pid' = [pid EXCEPT ![p] = x]
    /\ Goto(p, "check")
    /\ UNCHANGED <<pidfile, strangers, held, raced, faults>>

\* read_live finds a live process: focus it and return.
FocusExisting(p) ==
    /\ shell[p].pc = "check" /\ LockFree /\ Existing
    /\ EndProcess(p, "focused")
    /\ UNCHANGED <<pidfile, strangers, raced, faults>>

\* read_live returns None.
Passes(p) ==
    /\ raced' = (raced \/ \E q \in Shells \ {p} : shell[q].pc \in Entering)
    /\ Goto(p, "port")
    /\ UNCHANGED <<pid, strangers, held, faults>>

NoExisting(p) ==
    /\ shell[p].pc = "check" /\ LockFree /\ pidfile = Absent
    /\ Passes(p)
    /\ UNCHANGED pidfile

\* The pidfile is unreadable, or nobody has its process id.
FindStale(p) ==
    /\ shell[p].pc = "check" /\ LockFree /\ pidfile # Absent /\ ~Existing
    /\ Goto(p, "reap")
    /\ UNCHANGED <<pidfile, pid, strangers, held, raced, faults>>

\* It is unlinked; the id may have been given out again meanwhile.
Reap(p) ==
    /\ shell[p].pc = "reap"
    /\ pidfile' = Absent
    /\ Passes(p)

\* resolve_port: the probe socket is closed again.
ResolvePort(p) ==
    /\ shell[p].pc = "port"
    /\ \E n \in FirstPort..(LastPort + 1) :
          /\ FreePort(n)
          /\ shell' = [shell EXCEPT ![p] = [@ EXCEPT !.pc = "acquire", !.port = n]]
    /\ UNCHANGED <<pidfile, pid, strangers, held, raced, faults>>

NoPort(p) ==
    /\ shell[p].pc = "port"
    /\ \A n \in Ports : held[n] # None
    /\ EndProcess(p, "raised")
    /\ UNCHANGED <<pidfile, strangers, raced, faults>>

Acquire(p) ==
    /\ shell[p].pc = "acquire" /\ LockFree
    /\ pidfile' = PidfileEntry(p)
    /\ Goto(p, "start")
    /\ UNCHANGED <<pid, strangers, held, raced, faults>>

\* The process dies between the truncation and the write of write_text.
KilledInAcquire(p) ==
    /\ shell[p].pc = "acquire" /\ LockFree /\ Fault
    /\ pidfile' = Corrupt
    /\ EndProcess(p, "killed")
    /\ UNCHANGED <<strangers, raced>>

StartServer(p) ==
    /\ shell[p].pc = "start"
    /\ shell' = [shell EXCEPT ![p] = [@ EXCEPT !.pc = "health", !.server = "starting"]]
    /\ UNCHANGED <<pidfile, pid, strangers, held, raced, faults>>

\* The poll gets a 200 from whoever listens on the port.
Healthy(p) ==
    /\ shell[p].pc = "health" /\ held[shell[p].port] # None
    /\ Goto(p, "tray")
    /\ UNCHANGED <<pidfile, pid, strangers, held, raced, faults>>

HealthTimeout_Never(p) ==     \* no deadline
    FALSE /\ UNCHANGED vars

\* The 30 seconds are over: RuntimeError, and the finally clause.
HealthTimeout(p) ==
    /\ shell[p].pc = "health"
    /\ shell' = [shell EXCEPT ![p] = [@ EXCEPT !.pc = "stop", !.outcome = "raised"]]
    /\ UNCHANGED <<pidfile, pid, strangers, held, raced, faults>>

\* The tray icon's and the watchdog's threads are started.
RunTray(p) ==
    /\ shell[p].pc = "tray"
    /\ shell' = [shell EXCEPT ![p] = [@ EXCEPT !.pc = "open", !.tray = TRUE]]
    /\ UNCHANGED <<pidfile, pid, strangers, held, raced, faults>>

OpenWindow(p) ==
    /\ shell[p].pc = "open"
    /\ Goto(p, "window")
    /\ UNCHANGED <<pidfile, pid, strangers, held, raced, faults>>

\* A seam raises: no tray, no display, no webview.
SeamRaises(p) ==
    /\ shell[p].pc \in {"tray", "open"} /\ Fault
    /\ shell' = [shell EXCEPT ![p] = [@ EXCEPT !.pc = "stop", !.outcome = "raised"]]
    /\ UNCHANGED <<pidfile, pid, strangers, held, raced>>

\* The user closes the window, or the thread of _destroy_on_quit does: start()
\* returns and sets quit_event.
WindowCloses(p) ==
    /\ shell[p].pc = "window"
    /\ shell' = [shell EXCEPT ![p] = [@ EXCEPT !.pc = "stop", !.quit = TRUE,
                                              !.outcome = "closed"]]
    /\ UNCHANGED <<pidfile, pid, strangers, held, raced, faults>>

\* stop_server: should_exit is set; then the join.
StopServer(p) ==
    /\ shell[p].pc = "stop"
    /\ Goto(p, "join")
    /\ UNCHANGED <<pidfile, pid, strangers, held, raced, faults>>

JoinEnds_NoTimeout(p) ==     \* join() instead of join(timeout=5.0)
    /\ shell[p].pc = "join" /\ shell[p].server \notin {"starting", "up"}
    /\ Goto(p, "untray")
    /\ UNCHANGED <<pidfile, pid, strangers, held, raced, faults>>

\* The server thread has ended, or 5 seconds are over.
JoinEnds(p) ==
    /\ shell[p].pc = "join"
    /\ Goto(p, "untray")
    /\ UNCHANGED <<pidfile, pid, strangers, held, raced, faults>>

\* stop_tray; run_windowed returns or raises, and its process ends.  The pidfile
\* stays.
StopTray(p) ==
    /\ shell[p].pc = "untray"
    /\ EndProcess(p, shell[p].outcome)
    /\ UNCHANGED <<pidfile, strangers, raced, faults>>

-------------------------------------------------------------------------------
(* The server thread, the tray, restart() and the rest of the machine.     *)

\* uvicorn binds the port, or raises EADDRINUSE in its thread, which nobody sees.
ServerBinds(p) ==
    /\ shell[p].server = "starting"
    /\ \/ /\ held[shell[p].port] = None
          /\ held' = [held EXCEPT ![shell[p].port] = p]
          /\ shell' = [shell EXCEPT ![p].server = "up"]
       \/ /\ held[shell[p].port] # None
          /\ shell' = [shell EXCEPT ![p].server = "failed"]
          /\ UNCHANGED held
    /\ UNCHANGED <<pidfile, pid, strangers, raced, faults>>

ServerEnds(p, how) ==
    /\ shell[p].server = "up"
    /\ shell' = [shell EXCEPT ![p].server = how]
    /\ held' = [held EXCEPT ![shell[p].port] = None]
    /\ UNCHANGED <<pidfile, pid, strangers, raced>>

\* The server sees should_exit and has no request left to finish.
ServerStops(p) ==
    /\ shell[p].pc \in {"join", "untray"}
    /\ ServerEnds(p, "stopped")
    /\ UNCHANGED faults

\* The server thread dies under the window.
ServerDies(p) ==
    /\ shell[p].pc \in Guarded /\ Fault
    /\ ServerEnds(p, "dead")

\* Quit in the tray menu: on_quit sets quit_event.
TrayQuit(p) ==
    /\ shell[p].tray /\ shell[p].pc \in Guarded /\ ~shell[p].quit
    /\ shell' = [shell EXCEPT ![p].quit = TRUE]
    /\ UNCHANGED <<pidfile, pid, strangers, held, raced, faults>>

\* os.execv from the server thread: the same process id, the same arguments, no
\* thread, window or (close-on-exec) socket left.
Restart(p) ==
    /\ shell[p].server = "up"
    /\ shell[p].restarts < MaxRestarts
    /\ held' = [held EXCEPT ![shell[p].port] = None]
    /\ shell' = [shell EXCEPT ![p] =
                   [pc |-> "check", port |-> None, server |-> "none", quit |-> FALSE,
                    tray |-> FALSE, restarts |-> shell[p].restarts + 1, outcome |-> "none"]]
    /\ UNCHANGED <<pidfile, pid, strangers, raced, faults>>

Killed(p) ==
    /\ Live(p) /\ Fault
    /\ EndProcess(p, "killed")
    /\ UNCHANGED <<pidfile, strangers, raced>>

\* A process that is no shell takes an id or a port, or leaves its port.  One
\* that takes a port of the window is taken for another pd-* app: it has /healthz.
StrangerStarts(x) ==
    /\ ~PidInUse(x) /\ Fault
    /\ strangers' = strangers \cup {x}
    /\ UNCHANGED <<pidfile, pid, held, shell, raced>>

StrangerBinds(n) ==
    /\ held[n] = None /\ Fault
    /\ held' = [held EXCEPT ![n] = Stranger]
    /\ UNCHANGED <<pidfile, pid, strangers, shell, raced>>

StrangerLeaves(n) ==
    /\ held[n] = Stranger
    /\ held' = [held EXCEPT ![n] = None]
    /\ UNCHANGED <<pidfile, pid, strangers, shell, raced, faults>>

-------------------------------------------------------------------------------

\* A predecessor may have left its pidfile.
Init ==
    /\ pidfile \in {Absent, Corrupt} \cup [pid : Pids, port : Ports]
    /\ pid = [p \in Shells |-> None]
    /\ strangers = {}
    /\ held = [n \in Ports |-> None]
    /\ shell = [p \in Shells |-> [pc |-> "off", port |-> None, server |-> "none",
                                  quit |-> FALSE, tray |-> FALSE, restarts |-> 0,
                                  outcome |-> "none"]]
    /\ raced = FALSE
    /\ faults = 0

\* What the main thread does without waiting for anybody.
MainThread(p) ==
    \/ FocusExisting(p) \/ NoExisting(p) \/ FindStale(p) \/ Reap(p)
    \/ ResolvePort(p) \/ NoPort(p) \/ Acquire(p) \/ StartServer(p) \/ Healthy(p) \/ HealthTimeout(p) \/ RunTray(p) \/ OpenWindow(p)
    \/ StopServer(p) \/ JoinEnds(p) \/ StopTray(p)

Next ==
    \/ \E p \in Shells, x \in Pids : Launch(p, x)
    \/ \E p \in Shells : \/ MainThread(p) \/ WindowCloses(p) \/ ServerBinds(p)
                         \/ ServerStops(p) \/ ServerDies(p) \/ TrayQuit(p) \/ Restart(p)
                         \/ KilledInAcquire(p) \/ SeamRaises(p) \/ Killed(p)
    \/ \E x \in Pids : StrangerStarts(x)
    \/ \E n \in Ports : StrangerBinds(n) \/ StrangerLeaves(n)

Spec == Init /\ [][Next]_vars

\* Fairness: threads run, the poll and the join have deadlines, and a set
\* quit_event destroys the window.  A server may take for ever to stop, a user to
\* close the window.
Fairness ==
    \A p \in Shells : /\ WF_vars(MainThread(p))
                      /\ WF_vars(ServerBinds(p))
                      /\ WF_vars(shell[p].quit /\ WindowCloses(p))

FairSpec == Spec /\ Fairness

-------------------------------------------------------------------------------
(* Properties.                                                             *)

\* Two shells past acquire at the same time are always the work of two launches
\* that overlapped between the check and the acquire: dead owners, reused ids,
\* unreadable pidfiles, restarts and stolen ports never let a second one in.
DuplicatesComeFromRaces ==
    (\E p, q \in Shells : /\ p # q /\ Live(p) /\ Live(q)
                          /\ shell[p].pc \in Acquired /\ shell[q].pc \in Acquired)
    => raced

\* Unless launches raced, the pidfile leads to the running shell, under the port
\* it really chose, for as long as its process lives.
Discoverable ==
    \A p \in Shells :
        Live(p) /\ shell[p].pc \in Acquired /\ ~raced
        => pidfile = [pid |-> pid[p], port |-> shell[p].port]

\* "preventing a race where a concurrent acquire call could have its freshly written
\* pidfile deleted by a stale-reap": the pidfile of a running shell is never unlinked, also
\* when launches raced, and when the shell was given the process id of its dead
\* predecessor after read_live had looked for that one; only an acquire writes over it.
AcquiredPidfileStays ==
    [][\A p \in Shells : shell[p].pc \in Acquired /\ pidfile = PidfileEntry(p)
                            => pidfile' # Absent]_vars

\* Every launch gets somewhere: a window, a focused instance or an error,
\* whatever happens to the port, the pidfile and the other launches.
LaunchSettles ==
    \A p \in Shells : shell[p].pc = "check" ~> shell[p].pc \in {"window", "exited"}

\* A shell that was told to quit ends (or is restarted): the window goes, the
\* teardown runs to its end even when the server does not stop.
ClosedShellsLeave ==
    \A p \in Shells : shell[p].quit ~> shell[p].pc \in {"exited", "check"}

\* restart() re-execs the app "to restart the app after a successful upgrade".  The
\* new image has the process id that the pidfile names, takes itself for a running
\* instance, focuses it and returns.
RestartComesBack ==
    \A p \in Shells :
        shell[p].pc = "check" /\ shell[p].restarts > 0
        ~> shell[p].pc = "window" \/ shell[p].outcome \in {"raised", "killed"}
===============================================================================
