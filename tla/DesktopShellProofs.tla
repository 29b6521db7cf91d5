-------------------------- MODULE DesktopShellProofs --------------------------
(***************************************************************************)
(* Proofs about DesktopShell, for any number of shells, process ids and    *)
(* ports: two running shells need overlapping launches, the pidfile leads  *)
(* to the running shell, and nobody reaps the pidfile of a running shell.  *)
(***************************************************************************)
EXTENDS DesktopShell, TLAPS

(***************************************************************************)
(* The inductive invariant.  One shell at a time is past its check unless  *)
(* launches raced: another one's check finds the pidfile of an acquired    *)
(* shell, whose process id is its own as long as it lives.                 *)
(***************************************************************************)

Inside == Entering \cup Acquired      \* past the check, and its process is there

PidInv ==
    /\ \A p \in Shells : shell[p].pc \notin {"off", "exited"} <=> pid[p] # None
    /\ \A p, q \in Shells : pid[p] # None /\ pid[p] = pid[q] => p = q
    /\ \A p \in Shells : pid[p] \notin strangers

\* A shell that is not there runs no server; one that runs a server has a port.
ServerInv ==
    \A p \in Shells :
        /\ shell[p].server \in {"starting", "up"} => shell[p].pc \in Acquired
        /\ shell[p].pc \in {"acquire"} \cup Acquired => shell[p].port \in Ports

OneInside ==
    ~raced => \A p, q \in Shells :
        shell[p].pc \in Inside /\ shell[q].pc \in Inside => p = q

PidfileInv ==
    ~raced => \A p \in Shells :
        shell[p].pc \in Acquired => pidfile = [pid |-> pid[p], port |-> shell[p].port]

\* Whoever is about to reap holds the lock, so that no shell has acquired since.
ReapInv ==
    \A q \in Shells : shell[q].pc = "reap" =>
        \A p \in Shells : shell[p].pc \in Acquired => pidfile # PidfileEntry(p)

IInv == TypeOK /\ PidInv /\ ServerInv /\ OneInside /\ PidfileInv /\ ReapInv

-------------------------------------------------------------------------------
(* Types and single moves.                                                 *)

Pidfiles == {Absent, Corrupt} \cup [pid : Pids, port : Ports]

LEMMA FaultType ==
    ASSUME TypeOK, Fault
    PROVE  faults' \in 0..MaxFaults
  BY ShellAssumption DEF TypeOK, Fault

LEMMA ShellFacts ==
    ASSUME IInv, NEW p \in Shells
    PROVE  /\ shell[p] \in Shell /\ raced \in BOOLEAN /\ faults \in 0..MaxFaults
           /\ held \in [Ports -> Shells \cup {Stranger, None}]
           /\ pidfile \in Pidfiles
           /\ shell[p].pc \in {"acquire"} \cup Acquired => shell[p].port \in Ports
           /\ shell[p].server \in {"starting", "up"} => shell[p].pc \in Acquired
  BY DEF IInv, TypeOK, ServerInv, Pidfiles

\* A move that brings no shell past its check or its acquire.
Moves(p, rec) ==
    /\ rec \in Shell
    /\ rec.pc \notin {"off", "exited"} /\ shell[p].pc \notin {"off", "exited"}
    /\ rec.server \in {"starting", "up"} => rec.pc \in Acquired
    /\ rec.pc \in {"acquire"} \cup Acquired => rec.port \in Ports
    /\ rec.pc \in Inside => shell[p].pc \in Inside
    /\ rec.pc \in Acquired => shell[p].pc \in Acquired /\ rec.port = shell[p].port
    /\ rec.pc # "reap"

LEMMA MovesKeep ==
    ASSUME IInv, NEW p \in Shells, NEW rec, Moves(p, rec), shell' = [shell EXCEPT ![p] = rec],
           UNCHANGED <<pidfile, pid, strangers, raced>>, faults' \in 0..MaxFaults,
           held' \in [Ports -> Shells \cup {Stranger, None}]
    PROVE  IInv'
  <1>1. shell \in [Shells -> Shell]
    BY DEF IInv, TypeOK
  <1>2. shell'[p] = rec /\ \A q \in Shells \ {p} : shell'[q] = shell[q]
    BY <1>1
  <1>3. TypeOK'
    BY <1>1 DEF IInv, TypeOK, Moves
  <1>4. PidInv'
    BY <1>2 DEF IInv, PidInv, Moves
  <1>5. ServerInv'
    BY <1>2 DEF IInv, ServerInv, Moves
  <1>6. OneInside'
    BY <1>2 DEF IInv, OneInside, Moves
  <1>7. PidfileInv'
    BY <1>2 DEF IInv, PidfileInv, Moves
  <1>8. ReapInv'
    BY <1>2 DEF IInv, ReapInv, Moves, PidfileEntry
  <1> QED  BY <1>3, <1>4, <1>5, <1>6, <1>7, <1>8 DEF IInv

\* A process that ends takes nothing of the others with it.
LEMMA EndKeeps ==
    ASSUME IInv, NEW p \in Shells, NEW outcome \in {"none", "focused", "raised", "closed", "killed"},
           EndProcess(p, outcome), UNCHANGED <<strangers, raced>>, faults' \in 0..MaxFaults,
           pidfile' = pidfile \/ (shell[p].pc = "acquire" /\ LockFree /\ pidfile' = Corrupt)
    PROVE  IInv'
  <1> DEFINE rec == [shell[p] EXCEPT !.pc = "exited", !.outcome = outcome, !.server = "none",
                                    !.tray = FALSE, !.quit = FALSE]
  <1>1. shell \in [Shells -> Shell] /\ pid \in [Shells -> Pids \cup {None}] /\ shell[p] \in Shell
    BY DEF IInv, TypeOK
  <1>2. rec \in Shell /\ rec.pc = "exited" /\ rec.server = "none"
    BY <1>1 DEF Shell
  <1>3. shell' = [shell EXCEPT ![p] = rec] /\ pid' = [pid EXCEPT ![p] = None]
        /\ held' = [n \in Ports |-> IF held[n] = p THEN None ELSE held[n]]
    BY DEF EndProcess
  <1> HIDE DEF rec
  <1>4. shell'[p] = rec /\ \A q \in Shells \ {p} : shell'[q] = shell[q]
    BY <1>1, <1>3
  <1>5. pid'[p] = None /\ \A q \in Shells \ {p} : pid'[q] = pid[q]
    BY <1>1, <1>3
  <1>6. TypeOK'
    BY <1>1, <1>2, <1>3 DEF IInv, TypeOK
  <1>7. PidInv'
    BY <1>2, <1>4, <1>5, ShellAssumption DEF IInv, PidInv, TypeOK
  <1>8. ServerInv'
    BY <1>2, <1>4 DEF IInv, ServerInv, Acquired, Guarded, Teardown
  <1>9. rec.pc \notin Inside /\ rec.pc \notin Acquired
    BY <1>2 DEF Inside, Entering, Acquired, Guarded, Teardown
  <1>10. OneInside'
    BY <1>4, <1>9 DEF IInv, OneInside
  <1>11. PidfileInv'
    <2> SUFFICES ASSUME ~raced, NEW q \in Shells \ {p}, shell[q].pc \in Acquired
                 PROVE  pidfile' = [pid |-> pid[q], port |-> shell[q].port]
      BY <1>4, <1>5, <1>9 DEF PidfileInv
    <2>1. shell[p].pc # "acquire"
      BY DEF IInv, OneInside, Inside, Entering
    <2> QED  BY <2>1 DEF IInv, PidfileInv
  <1>12. ReapInv'
    BY <1>2, <1>4, <1>5, <1>9 DEF IInv, ReapInv, LockFree, PidfileEntry
  <1> QED  BY <1>6, <1>7, <1>8, <1>10, <1>11, <1>12 DEF IInv

\* What the pidfile of a running shell names is a live process.
LEMMA EntryIsLive ==
    ASSUME IInv, NEW p \in Shells, shell[p].pc \in Acquired
    PROVE  /\ PidfileEntry(p) \in [pid : Pids, port : Ports]
           /\ PidfileEntry(p).pid = pid[p] /\ pid[p] # None
           /\ pidfile = PidfileEntry(p) => Existing
  <1>1. pid[p] \in Pids /\ pid[p] # None /\ shell[p].port \in Ports
    BY DEF IInv, PidInv, TypeOK, ServerInv, Acquired, Guarded, Teardown
  <1>2. PidfileEntry(p) \in [pid : Pids, port : Ports] /\ PidfileEntry(p).pid = pid[p]
    BY <1>1 DEF PidfileEntry
  <1> QED  BY <1>1, <1>2, ShellAssumption DEF Existing, PidAlive, PidInUse

\* A launch that gets past its check either finds nobody inside or makes a race.
LEMMA PassesKeeps ==
    ASSUME IInv, NEW p \in Shells, NoExisting(p) \/ Reap(p)
    PROVE  IInv'
  <1> DEFINE rec == [shell[p] EXCEPT !.pc = "port"]
  <1>1. shell \in [Shells -> Shell] /\ shell[p] \in Shell /\ shell[p].pc \in Checking
        /\ UNCHANGED <<pid, strangers, held, faults>> /\ pidfile' = Absent /\ Passes(p)
    BY DEF IInv, TypeOK, NoExisting, Reap, Passes, Checking
  <1>2. rec \in Shell /\ rec.pc = "port" /\ rec.server = shell[p].server
    BY <1>1 DEF Shell, Entering
  <1>3. shell' = [shell EXCEPT ![p] = rec]
        /\ raced' = (raced \/ \E q \in Shells \ {p} : shell[q].pc \in Entering)
    BY <1>1 DEF Passes, Goto
  <1> HIDE DEF rec
  <1>4. shell'[p] = rec /\ \A q \in Shells \ {p} : shell'[q] = shell[q]
    BY <1>1, <1>2, <1>3
  <1>5. ~raced' => ~raced /\ \A q \in Shells \ {p} : shell[q].pc \notin Entering
    BY <1>3
  <1>6. raced' \in BOOLEAN
    BY <1>3
  <1>7. TypeOK'
    BY <1>1, <1>2, <1>3, <1>6 DEF IInv, TypeOK
  <1>8. PidInv'
    BY <1>1, <1>2, <1>4 DEF IInv, PidInv, Checking
  <1>9. ServerInv'
    BY <1>1, <1>2, <1>4 DEF IInv, ServerInv, Acquired, Guarded, Teardown, Checking
  <1>10. ASSUME ~raced', NEW q \in Shells \ {p}
         PROVE  shell[q].pc \notin Inside
    <2>1. shell[q].pc \notin Entering /\ ~raced
      BY <1>5, <1>10
    <2>2. ASSUME shell[q].pc \in Acquired
          PROVE  FALSE
      <3>1. pidfile = PidfileEntry(q)
        BY <2>1, <2>2 DEF IInv, PidfileInv, PidfileEntry
      <3>2. pidfile # Absent
        BY <2>2, <3>1, EntryIsLive, ShellAssumption
      <3>3. CASE NoExisting(p)
        BY <3>2, <3>3 DEF NoExisting
      <3>4. CASE Reap(p)
        BY <2>2, <3>1, <3>4 DEF Reap, IInv, ReapInv
      <3> QED  BY <3>3, <3>4
    <2> QED  BY <2>1, <2>2 DEF Inside
  <1>11. OneInside'
    BY <1>4, <1>10 DEF OneInside
  <1>12. PidfileInv'
    BY <1>2, <1>4, <1>10 DEF PidfileInv, Inside, Acquired, Guarded, Teardown
  <1>13. ReapInv'
    <2> SUFFICES ASSUME NEW q \in Shells, shell'[q].pc \in Acquired
                 PROVE  PidfileEntry(q)' # Absent
      BY <1>1 DEF ReapInv
    <2>1. q # p /\ shell'[q] = shell[q]
      BY <1>2, <1>4 DEF Acquired, Guarded, Teardown
    <2>2. PidfileEntry(q)' = PidfileEntry(q)
      BY <1>1, <2>1 DEF PidfileEntry
    <2> QED  BY <2>1, <2>2, EntryIsLive, ShellAssumption
  <1> QED  BY <1>7, <1>8, <1>9, <1>11, <1>12, <1>13 DEF IInv

\* A launch that is about to reap has found a pidfile of no running shell.
LEMMA FindStaleKeeps ==
    ASSUME IInv, NEW p \in Shells, FindStale(p)
    PROVE  IInv'
  <1> DEFINE rec == [shell[p] EXCEPT !.pc = "reap"]
  <1>1. shell \in [Shells -> Shell] /\ shell[p] \in Shell /\ shell[p].pc = "check" /\ ~Existing
        /\ UNCHANGED <<pidfile, pid, strangers, held, raced, faults>>
    BY DEF IInv, TypeOK, FindStale
  <1>2. rec \in Shell /\ rec.pc = "reap" /\ rec.server = shell[p].server
    BY <1>1 DEF Shell, Checking
  <1>3. shell' = [shell EXCEPT ![p] = rec]
    BY DEF FindStale, Goto
  <1> HIDE DEF rec
  <1>4. shell'[p] = rec /\ \A q \in Shells \ {p} : shell'[q] = shell[q]
    BY <1>1, <1>3
  <1>5. TypeOK'
    BY <1>1, <1>2, <1>3 DEF IInv, TypeOK
  <1>6. PidInv' /\ ServerInv'
    BY <1>1, <1>2, <1>4 DEF IInv, PidInv, ServerInv, Acquired, Guarded, Teardown
  <1>7. rec.pc \notin Inside /\ rec.pc \notin Acquired
    BY <1>2 DEF Inside, Entering, Acquired, Guarded, Teardown
  <1>8. OneInside' /\ PidfileInv'
    BY <1>1, <1>4, <1>7 DEF IInv, OneInside, PidfileInv
  <1>9. ReapInv'
    <2> SUFFICES ASSUME NEW q \in Shells, shell'[q].pc \in Acquired
                 PROVE  pidfile # PidfileEntry(q)'
      BY <1>1 DEF ReapInv
    <2>1. shell'[q] = shell[q]
      BY <1>4, <1>7
    <2>2. PidfileEntry(q)' = PidfileEntry(q)
      BY <1>1, <2>1 DEF PidfileEntry
    <2> QED  BY <1>1, <2>1, <2>2, EntryIsLive
  <1> QED  BY <1>5, <1>6, <1>8, <1>9 DEF IInv

LEMMA AcquireKeeps ==
    ASSUME IInv, NEW p \in Shells, Acquire(p)
    PROVE  IInv'
  <1> DEFINE rec == [shell[p] EXCEPT !.pc = "start"]
  <1>1. shell \in [Shells -> Shell] /\ shell[p] \in Shell /\ shell[p].pc = "acquire"
        /\ LockFree /\ UNCHANGED <<pid, strangers, held, raced, faults>>
        /\ pidfile' = [pid |-> pid[p], port |-> shell[p].port]
    BY DEF IInv, TypeOK, Acquire, PidfileEntry
  <1>2. rec \in Shell /\ rec.pc = "start" /\ rec.server = shell[p].server /\ rec.port = shell[p].port
    BY <1>1 DEF Shell, Acquired
  <1>3. shell' = [shell EXCEPT ![p] = rec]
    BY DEF Acquire, Goto
  <1> HIDE DEF rec
  <1>4. shell'[p] = rec /\ \A q \in Shells \ {p} : shell'[q] = shell[q]
    BY <1>1, <1>3
  <1>5. pid[p] \in Pids /\ shell[p].port \in Ports
    BY <1>1 DEF IInv, TypeOK, PidInv, ServerInv
  <1>6. TypeOK'
    BY <1>1, <1>2, <1>3, <1>5 DEF IInv, TypeOK
  <1>7. PidInv'
    BY <1>1, <1>2, <1>4 DEF IInv, PidInv
  <1>8. ServerInv'
    BY <1>1, <1>2, <1>4, <1>5 DEF IInv, ServerInv, Acquired
  <1>9. shell[p].pc \in Inside
    BY <1>1 DEF Inside, Entering
  <1>10. OneInside'
    BY <1>1, <1>4, <1>9 DEF IInv, OneInside
  <1>11. PidfileInv'
    <2> SUFFICES ASSUME ~raced, NEW q \in Shells, shell'[q].pc \in Acquired
                 PROVE  pidfile' = [pid |-> pid[q], port |-> shell'[q].port]
      BY <1>1 DEF PidfileInv
    <2>1. q = p
      BY <1>4, <1>9 DEF IInv, OneInside, Inside
    <2> QED  BY <1>1, <1>2, <1>4, <2>1
  <1>12. ReapInv'
    BY <1>1, <1>2, <1>4 DEF ReapInv, LockFree
  <1> QED  BY <1>6, <1>7, <1>8, <1>10, <1>11, <1>12 DEF IInv

LEMMA LaunchKeeps ==
    ASSUME IInv, NEW p \in Shells, NEW x \in Pids, Launch(p, x)
    PROVE  IInv'
  <1> DEFINE rec == [shell[p] EXCEPT !.pc = "check"]
  <1>1. shell \in [Shells -> Shell] /\ pid \in [Shells -> Pids \cup {None}]
        /\ shell[p] \in Shell /\ shell[p].pc = "off" /\ ~PidInUse(x)
        /\ UNCHANGED <<pidfile, strangers, held, raced, faults>>
    BY DEF IInv, TypeOK, Launch
  <1>2. rec \in Shell /\ rec.pc = "check" /\ rec.server = shell[p].server /\ rec.port = shell[p].port
    BY <1>1 DEF Shell, Checking
  <1>3. shell' = [shell EXCEPT ![p] = rec] /\ pid' = [pid EXCEPT ![p] = x]
    BY DEF Launch, Goto
  <1> HIDE DEF rec
  <1>4. shell'[p] = rec /\ \A q \in Shells \ {p} : shell'[q] = shell[q]
    BY <1>1, <1>3
  <1>5. pid'[p] = x /\ \A q \in Shells \ {p} : pid'[q] = pid[q]
    BY <1>1, <1>3
  <1>6. TypeOK'
    BY <1>1, <1>2, <1>3 DEF IInv, TypeOK
  <1>7. PidInv'
    BY <1>1, <1>2, <1>4, <1>5, ShellAssumption DEF IInv, PidInv, PidInUse
  <1>8. ServerInv'
    BY <1>1, <1>2, <1>4 DEF IInv, ServerInv, Acquired, Guarded, Teardown
  <1>9. rec.pc \notin Inside /\ rec.pc \notin Acquired
    BY <1>2 DEF Inside, Entering, Acquired, Guarded, Teardown
  <1>10. OneInside'
    BY <1>1, <1>4, <1>9 DEF IInv, OneInside
  <1>11. PidfileInv'
    BY <1>1, <1>4, <1>5, <1>9 DEF IInv, PidfileInv
  <1>12. ReapInv'
    <2> SUFFICES ASSUME NEW q \in Shells, shell'[q].pc = "reap",
                        NEW e \in Shells, shell'[e].pc \in Acquired
                 PROVE  pidfile # PidfileEntry(e)'
      BY <1>1 DEF ReapInv
    <2>1. /\ q # p /\ shell[q].pc = "reap"
          /\ shell'[e] = shell[e] /\ pid'[e] = pid[e]
      BY <1>2, <1>4, <1>5, <1>9
    <2>2. PidfileEntry(e)' = PidfileEntry(e)
      BY <2>1 DEF PidfileEntry
    <2> QED  BY <2>1, <2>2 DEF IInv, ReapInv
  <1> QED  BY <1>6, <1>7, <1>8, <1>10, <1>11, <1>12 DEF IInv

-------------------------------------------------------------------------------
(* The moves of the main thread and of the other threads.                  *)

\* The record of a shell that has acquired, after a step that leaves it acquired.
AcquiredMove(p, rec) ==
    /\ rec \in Shell /\ rec.pc \in Acquired /\ rec.port = shell[p].port
    /\ shell' = [shell EXCEPT ![p] = rec]

LEMMA AcquiredKeeps ==
    ASSUME IInv, NEW p \in Shells, NEW rec, AcquiredMove(p, rec), shell[p].pc \in Acquired,
           UNCHANGED <<pidfile, pid, strangers, raced>>, faults' \in 0..MaxFaults,
           held' \in [Ports -> Shells \cup {Stranger, None}]
    PROVE  IInv'
  <1>1. shell[p].port \in Ports
    BY ShellFacts
  <1>2. rec.pc \notin {"off", "exited", "reap"} /\ shell[p].pc \notin {"off", "exited"}
    BY DEF Acquired, Guarded, Teardown, AcquiredMove
  <1>3. Moves(p, rec) /\ shell' = [shell EXCEPT ![p] = rec]
    BY <1>1, <1>2 DEF Moves, Inside, AcquiredMove
  <1> QED  BY <1>3, MovesKeep

\* The points of run_windowed from start to untray.
LEMMA MainMoves ==
    ASSUME IInv, NEW p \in Shells,
           \/ StartServer(p) \/ Healthy(p) \/ HealthTimeout(p) \/ RunTray(p) \/ OpenWindow(p)
           \/ SeamRaises(p) \/ WindowCloses(p) \/ StopServer(p) \/ JoinEnds(p)
    PROVE  IInv'
  <1>1. shell[p] \in Shell /\ held \in [Ports -> Shells \cup {Stranger, None}]
        /\ faults \in 0..MaxFaults /\ TypeOK
    BY ShellFacts DEF IInv
  <1>2. UNCHANGED <<pidfile, pid, strangers, held, raced>> /\ faults' \in 0..MaxFaults
    BY <1>1, FaultType DEF StartServer, Healthy, HealthTimeout, RunTray, OpenWindow, SeamRaises,
       WindowCloses, StopServer, JoinEnds
  <1>3. shell[p].pc \in Acquired
    BY DEF StartServer, Healthy, HealthTimeout, RunTray, OpenWindow, SeamRaises,
       WindowCloses, StopServer, JoinEnds, Acquired, Guarded, Teardown
  <1>4. \E rec : AcquiredMove(p, rec)
    <2>1. CASE StartServer(p)
      <3> DEFINE rec == [shell[p] EXCEPT !.pc = "health", !.server = "starting"]
      <3>1. rec \in Shell /\ rec.pc \in Acquired /\ rec.port = shell[p].port
        BY <1>1 DEF Shell, Acquired, Guarded, Teardown
      <3>2. shell' = [shell EXCEPT ![p] = rec]
        BY <2>1 DEF StartServer, Goto
      <3> QED  BY <3>1, <3>2 DEF AcquiredMove
    <2>2. CASE Healthy(p)
      <3> DEFINE rec == [shell[p] EXCEPT !.pc = "tray"]
      <3>1. rec \in Shell /\ rec.pc \in Acquired /\ rec.port = shell[p].port
        BY <1>1 DEF Shell, Acquired, Guarded, Teardown
      <3>2. shell' = [shell EXCEPT ![p] = rec]
        BY <2>2 DEF Healthy, Goto
      <3> QED  BY <3>1, <3>2 DEF AcquiredMove
    <2>3. CASE HealthTimeout(p)
      <3> DEFINE rec == [shell[p] EXCEPT !.pc = "stop", !.outcome = "raised"]
      <3>1. rec \in Shell /\ rec.pc \in Acquired /\ rec.port = shell[p].port
        BY <1>1 DEF Shell, Acquired, Guarded, Teardown
      <3>2. shell' = [shell EXCEPT ![p] = rec]
        BY <2>3 DEF HealthTimeout, Goto
      <3> QED  BY <3>1, <3>2 DEF AcquiredMove
    <2>4. CASE RunTray(p)
      <3> DEFINE rec == [shell[p] EXCEPT !.pc = "open", !.tray = TRUE]
      <3>1. rec \in Shell /\ rec.pc \in Acquired /\ rec.port = shell[p].port
        BY <1>1 DEF Shell, Acquired, Guarded, Teardown
      <3>2. shell' = [shell EXCEPT ![p] = rec]
        BY <2>4 DEF RunTray, Goto
      <3> QED  BY <3>1, <3>2 DEF AcquiredMove
    <2>5. CASE OpenWindow(p)
      <3> DEFINE rec == [shell[p] EXCEPT !.pc = "window"]
      <3>1. rec \in Shell /\ rec.pc \in Acquired /\ rec.port = shell[p].port
        BY <1>1 DEF Shell, Acquired, Guarded, Teardown
      <3>2. shell' = [shell EXCEPT ![p] = rec]
        BY <2>5 DEF OpenWindow, Goto
      <3> QED  BY <3>1, <3>2 DEF AcquiredMove
    <2>6. CASE WindowCloses(p)
      <3> DEFINE rec == [shell[p] EXCEPT !.pc = "stop", !.quit = TRUE, !.outcome = "closed"]
      <3>1. rec \in Shell /\ rec.pc \in Acquired /\ rec.port = shell[p].port
        BY <1>1 DEF Shell, Acquired, Guarded, Teardown
      <3>2. shell' = [shell EXCEPT ![p] = rec]
        BY <2>6 DEF WindowCloses, Goto
      <3> QED  BY <3>1, <3>2 DEF AcquiredMove
    <2>7. CASE StopServer(p)
      <3> DEFINE rec == [shell[p] EXCEPT !.pc = "join"]
      <3>1. rec \in Shell /\ rec.pc \in Acquired /\ rec.port = shell[p].port
        BY <1>1 DEF Shell, Acquired, Guarded, Teardown
      <3>2. shell' = [shell EXCEPT ![p] = rec]
        BY <2>7 DEF StopServer, Goto
      <3> QED  BY <3>1, <3>2 DEF AcquiredMove
    <2>8. CASE JoinEnds(p)
      <3> DEFINE rec == [shell[p] EXCEPT !.pc = "untray"]
      <3>1. rec \in Shell /\ rec.pc \in Acquired /\ rec.port = shell[p].port
        BY <1>1 DEF Shell, Acquired, Guarded, Teardown
      <3>2. shell' = [shell EXCEPT ![p] = rec]
        BY <2>8 DEF JoinEnds, Goto
      <3> QED  BY <3>1, <3>2 DEF AcquiredMove
    <2>9. CASE SeamRaises(p)
      <3> DEFINE rec == [shell[p] EXCEPT !.pc = "stop", !.outcome = "raised"]
      <3>1. rec \in Shell /\ rec.pc \in Acquired /\ rec.port = shell[p].port
        BY <1>1 DEF Shell, Acquired, Guarded, Teardown
      <3>2. shell' = [shell EXCEPT ![p] = rec]
        BY <2>9 DEF SeamRaises, Goto
      <3> QED  BY <3>1, <3>2 DEF AcquiredMove
    <2> QED  BY <2>1, <2>2, <2>3, <2>4, <2>5, <2>6, <2>7, <2>8, <2>9
  <1> QED  BY <1>1, <1>2, <1>3, <1>4, AcquiredKeeps

\* The server thread and the tray's.
LEMMA ThreadMoves ==
    ASSUME IInv, NEW p \in Shells,
           ServerBinds(p) \/ ServerStops(p) \/ ServerDies(p) \/ TrayQuit(p)
    PROVE  IInv'
  <1>1. shell[p] \in Shell /\ held \in [Ports -> Shells \cup {Stranger, None}]
        /\ faults \in 0..MaxFaults /\ TypeOK
        /\ (shell[p].server \in {"starting", "up"} => shell[p].pc \in Acquired)
    BY ShellFacts DEF IInv
  <1>2. shell[p].pc \in Acquired
    BY <1>1 DEF ServerBinds, ServerStops, ServerDies, ServerEnds, TrayQuit, Acquired
  <1>3. UNCHANGED <<pidfile, pid, strangers, raced>> /\ faults' \in 0..MaxFaults
    BY <1>1, FaultType DEF ServerBinds, ServerStops, ServerDies, ServerEnds, TrayQuit
  <1>4. held' \in [Ports -> Shells \cup {Stranger, None}]
    BY <1>1 DEF ServerBinds, ServerStops, ServerDies, ServerEnds, TrayQuit
  <1>5. CASE TrayQuit(p)
    <2> DEFINE rec == [shell[p] EXCEPT !.quit = TRUE]
    <2>1. rec \in Shell /\ rec.pc \in Acquired /\ rec.port = shell[p].port
      BY <1>1, <1>2 DEF Shell
    <2>2. shell' = [shell EXCEPT ![p] = rec]
      BY <1>5 DEF TrayQuit
    <2>3. AcquiredMove(p, rec)
      BY <2>1, <2>2 DEF AcquiredMove
    <2> HIDE DEF rec
    <2> QED  BY <1>2, <1>3, <1>4, <2>3, AcquiredKeeps
  <1>6. CASE ~TrayQuit(p)
    <2>1. PICK server \in {"up", "failed", "dead", "stopped"} :
              shell' = [shell EXCEPT ![p].server = server]
      BY <1>6 DEF ServerBinds, ServerStops, ServerDies, ServerEnds
    <2> DEFINE rec == [shell[p] EXCEPT !.server = server]
    <2>2. rec \in Shell /\ rec.pc \in Acquired /\ rec.port = shell[p].port
      BY <1>1, <1>2 DEF Shell
    <2>3. AcquiredMove(p, rec)
      BY <2>1, <2>2 DEF AcquiredMove
    <2> HIDE DEF rec
    <2> QED  BY <1>2, <1>3, <1>4, <2>3, AcquiredKeeps
  <1> QED  BY <1>5, <1>6

LEMMA ResolvePortKeeps ==
    ASSUME IInv, NEW p \in Shells, ResolvePort(p)
    PROVE  IInv'
  <1>1. PICK n \in Ports : shell' = [shell EXCEPT ![p] = [@ EXCEPT !.pc = "acquire", !.port = n]]
    BY DEF ResolvePort, FreePort
  <1> DEFINE rec == [shell[p] EXCEPT !.pc = "acquire", !.port = n]
  <1>2. shell[p] \in Shell /\ shell[p].pc = "port"
        /\ (shell[p].server \in {"starting", "up"} => shell[p].pc \in Acquired)
        /\ UNCHANGED <<pidfile, pid, strangers, held, raced, faults>>
    BY ShellFacts DEF ResolvePort
  <1>3. rec \in Shell /\ rec.pc = "acquire" /\ rec.port = n /\ rec.server = shell[p].server
    BY <1>2 DEF Shell, Entering
  <1>4. shell' = [shell EXCEPT ![p] = rec]
    BY <1>1
  <1> HIDE DEF rec
  <1>5. Moves(p, rec)
    BY <1>2, <1>3 DEF Moves, Inside, Entering, Acquired, Guarded, Teardown
  <1> QED  BY <1>2, <1>4, <1>5, ShellFacts, MovesKeep

\* restart() keeps the process id, and with it the claim of the pidfile.
LEMMA RestartKeeps ==
    ASSUME IInv, NEW p \in Shells, Restart(p)
    PROVE  IInv'
  <1> DEFINE rec == [pc |-> "check", port |-> None, server |-> "none", quit |-> FALSE,
                    tray |-> FALSE, restarts |-> shell[p].restarts + 1, outcome |-> "none"]
  <1>1. shell[p] \in Shell /\ shell[p].pc \in Acquired /\ shell[p].restarts < MaxRestarts
        /\ UNCHANGED <<pidfile, pid, strangers, raced, faults>>
    BY ShellFacts DEF Restart
  <1>2. shell[p].restarts + 1 \in 0..MaxRestarts
    BY <1>1, ShellAssumption DEF Shell
  <1>3. rec \in Shell /\ rec.pc = "check" /\ rec.server = "none"
    <2> DEFINE k == shell[p].restarts + 1
    <2> HIDE DEF k
    <2>1. [pc |-> "check", port |-> None, server |-> "none", quit |-> FALSE,
           tray |-> FALSE, restarts |-> k, outcome |-> "none"] \in Shell
      BY <1>2 DEF Shell, Checking, k
    <2> QED  BY <2>1 DEF k
  <1>4. shell' = [shell EXCEPT ![p] = rec]
    BY DEF Restart
  <1> HIDE DEF rec
  <1>5. shell[p].pc \notin {"off", "exited"}
    BY <1>1 DEF Acquired, Guarded, Teardown
  <1>6. Moves(p, rec)
    BY <1>3, <1>5 DEF Moves, Inside, Entering, Acquired, Guarded, Teardown
  <1>7. held' \in [Ports -> Shells \cup {Stranger, None}] /\ faults' \in 0..MaxFaults
    BY <1>1, ShellFacts DEF Restart
  <1> QED  BY <1>1, <1>4, <1>6, <1>7, MovesKeep

\* A stranger takes an id nobody has, or a port.
LEMMA StrangersKeep ==
    ASSUME IInv,
           \/ \E x \in Pids : StrangerStarts(x)
           \/ \E n \in Ports : StrangerBinds(n) \/ StrangerLeaves(n)
    PROVE  IInv'
  <1>1. TypeOK /\ UNCHANGED <<pidfile, pid, shell, raced>>
    BY DEF IInv, StrangerStarts, StrangerBinds, StrangerLeaves
  <1>2. faults' \in 0..MaxFaults
    BY <1>1, FaultType DEF StrangerStarts, StrangerBinds, StrangerLeaves, TypeOK
  <1>3. held' \in [Ports -> Shells \cup {Stranger, None}]
    BY <1>1 DEF TypeOK, StrangerStarts, StrangerBinds, StrangerLeaves
  <1>4. strangers' \in SUBSET Pids /\ \A p \in Shells : pid[p] \notin strangers'
    BY <1>1 DEF IInv, PidInv, TypeOK, StrangerStarts, StrangerBinds, StrangerLeaves, PidInUse
  <1>5. TypeOK'
    BY <1>1, <1>2, <1>3, <1>4 DEF TypeOK
  <1>6. PidInv' /\ ServerInv' /\ OneInside' /\ PidfileInv' /\ ReapInv'
    BY <1>1, <1>4 DEF IInv, PidInv, ServerInv, OneInside, PidfileInv, ReapInv, PidfileEntry
  <1> QED  BY <1>5, <1>6 DEF IInv

-------------------------------------------------------------------------------
(* The invariant and what it says.                                         *)

LEMMA InvInit == Init => IInv
  <1> SUFFICES ASSUME Init
               PROVE  IInv
    OBVIOUS
  <1>1. \A p \in Shells : pid[p] = None /\ shell[p].pc = "off" /\ shell[p].server = "none"
    BY DEF Init
  <1>2. TypeOK
    <2>1. shell \in [Shells -> Shell]
      BY ShellAssumption DEF Init, Shell
    <2>2. pid \in [Shells -> Pids \cup {None}] /\ held \in [Ports -> Shells \cup {Stranger, None}]
      BY DEF Init
    <2>3. pidfile \in {Absent, Corrupt} \cup [pid : Pids, port : Ports] /\ strangers \in SUBSET Pids
      BY DEF Init
    <2>4. raced \in BOOLEAN
      BY DEF Init
    <2>5. faults \in 0..MaxFaults
      BY ShellAssumption DEF Init
    <2> QED  BY <2>1, <2>2, <2>3, <2>4, <2>5 DEF TypeOK
  <1>3. PidInv
    BY <1>1 DEF PidInv, Init
  <1>4. ServerInv /\ OneInside /\ PidfileInv /\ ReapInv
    BY <1>1 DEF ServerInv, OneInside, PidfileInv, ReapInv, Inside, Entering, Acquired, Guarded,
       Teardown
  <1> QED  BY <1>2, <1>3, <1>4 DEF IInv

LEMMA EndsKeep ==
    ASSUME IInv, NEW p \in Shells,
           FocusExisting(p) \/ NoPort(p) \/ StopTray(p) \/ KilledInAcquire(p) \/ Killed(p)
    PROVE  IInv'
  <1>1. faults' \in 0..MaxFaults /\ UNCHANGED <<strangers, raced>>
    BY FaultType, ShellFacts DEF IInv, FocusExisting, NoPort, StopTray, KilledInAcquire, Killed
  <1>2. shell[p].outcome \in {"none", "focused", "raised", "closed", "killed"}
    BY ShellFacts DEF Shell
  <1>3. PICK outcome \in {"none", "focused", "raised", "closed", "killed"} : EndProcess(p, outcome)
    BY <1>2 DEF FocusExisting, NoPort, StopTray, KilledInAcquire, Killed
  <1>4. pidfile' = pidfile \/ (shell[p].pc = "acquire" /\ LockFree /\ pidfile' = Corrupt)
    BY DEF FocusExisting, NoPort, StopTray, KilledInAcquire, Killed
  <1> QED  BY <1>1, <1>3, <1>4, EndKeeps

LEMMA InvNext == IInv /\ [Next]_vars => IInv'
  <1> SUFFICES ASSUME IInv, [Next]_vars
               PROVE  IInv'
    OBVIOUS
  <1>1. CASE UNCHANGED vars
    BY <1>1 DEF vars, IInv, TypeOK, PidInv, ServerInv, OneInside, PidfileInv, ReapInv, PidfileEntry
  <1>2. ASSUME NEW p \in Shells, MainThread(p)
        PROVE  IInv'
    BY <1>2, EndsKeep, PassesKeeps, FindStaleKeeps, ResolvePortKeeps, AcquireKeeps, MainMoves
    DEF MainThread
  <1> QED
    BY <1>1, <1>2, LaunchKeeps, MainMoves, ThreadMoves, RestartKeeps, EndsKeep, StrangersKeep
    DEF Next

LEMMA Invariant == Spec => []IInv
  BY InvInit, InvNext, PTL DEF Spec

\* Types, for any number of shells, process ids and ports.
THEOREM TypeCorrect == Spec => []TypeOK
  <1>1. IInv => TypeOK
    BY DEF IInv
  <1> QED  BY Invariant, <1>1, PTL

\* Two shells past acquire at a time need two launches that overlapped between the check
\* and the acquire, whatever dies, restarts, loses its port or has its id reused.
THEOREM DuplicatesNeedRaces == Spec => []DuplicatesComeFromRaces
  <1>1. IInv => DuplicatesComeFromRaces
    BY DEF IInv, OneInside, Inside, DuplicatesComeFromRaces
  <1> QED  BY Invariant, <1>1, PTL

\* Without such a race the pidfile names the running shell and the port it chose.
THEOREM PidfileLeadsToTheShell == Spec => []Discoverable
  <1>1. IInv => Discoverable
    BY DEF IInv, PidfileInv, Discoverable
  <1> QED  BY Invariant, <1>1, PTL

\* No step unlinks the pidfile of a running shell: who does has the lock since it found
\* that nobody had the id in it, whoever is given that id meanwhile (read_live, acquire).
THEOREM RunningPidfilesStay == Spec => AcquiredPidfileStays
  <1> DEFINE Keeps == \A p \in Shells : shell[p].pc \in Acquired /\ pidfile = PidfileEntry(p)
                                           => pidfile' # Absent
  <1>1. ASSUME IInv, Next
        PROVE  Keeps
    <2> SUFFICES ASSUME NEW p \in Shells, shell[p].pc \in Acquired, pidfile = PidfileEntry(p),
                        pidfile' = Absent
                 PROVE  FALSE
      OBVIOUS
    <2>1. pidfile # Absent
      BY <1>1, EntryIsLive, ShellAssumption
    <2>2. ASSUME NEW q \in Shells, Reap(q)
          PROVE  FALSE
      BY <1>1, <2>2 DEF Reap, IInv, ReapInv
    <2>3. ASSUME NEW q \in Shells, Acquire(q)
          PROVE  FALSE
      <3>1. pid[q] \in Pids /\ shell[q].port \in Ports
        BY <1>1, <2>3 DEF IInv, TypeOK, PidInv, ServerInv, Acquire
      <3>2. pidfile' \in [pid : Pids, port : Ports]
        BY <2>3, <3>1 DEF Acquire, PidfileEntry
      <3> QED  BY <3>2, ShellAssumption
    <2>4. ASSUME NEW q \in Shells, KilledInAcquire(q)
          PROVE  FALSE
      BY <2>4, ShellAssumption DEF KilledInAcquire
    <2>5. \E q \in Shells : Reap(q) \/ Acquire(q) \/ KilledInAcquire(q)
      BY <1>1, <2>1 DEF Next, MainThread, Launch, FocusExisting, NoExisting, FindStale, ResolvePort,
         NoPort, StartServer, Healthy, HealthTimeout, RunTray, OpenWindow, StopServer, JoinEnds,
         StopTray, WindowCloses, ServerBinds, ServerStops, ServerDies, ServerEnds, TrayQuit,
         Restart, SeamRaises, Killed, StrangerStarts, StrangerBinds, StrangerLeaves
    <2> QED  BY <2>2, <2>3, <2>4, <2>5
  <1>2. IInv /\ [Next]_vars => [Keeps]_vars
    BY <1>1
  <1> QED  BY Invariant, <1>2, PTL DEF Spec, AcquiredPidfileStays
===============================================================================
