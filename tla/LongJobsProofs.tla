---------------------------- MODULE LongJobsProofs ----------------------------
(***************************************************************************)
(* Proofs about LongJobs, for every value of the constants: its types, its *)
(* inductive invariant and the safety properties that follow from it, and  *)
(* that what a runner does to the event logs and the streams are steps of  *)
(* the abstract EventFeed.                                                 *)
(*                                                                         *)
(* The lemmas named Who... say which actions can change one entry of a     *)
(* table.  Each part of the invariant is then shown to survive those few   *)
(* actions, instead of every disjunct of Next.                             *)
(***************************************************************************)
EXTENDS LongJobs, SequenceTheorems, TLAPS

(***************************************************************************)
(* Type correctness.                                                       *)
(***************************************************************************)

\* Every command's script and exit code are typed.
LEMMA CmdType == ASSUME NEW cmd \in Cmds
                 PROVE  cmd.script \in Seq(Ops) /\ cmd.rc \in {"zero", "nonzero"}
  BY JobsAssumption

\* A function keeps its type when one value is replaced by one of the range.
LEMMA FunType ==
    ASSUME NEW S, NEW T, NEW f \in [S -> T], NEW x \in S, NEW w \in T
    PROVE  [f EXCEPT ![x] = w] \in [S -> T]
  OBVIOUS

\* Records keep their type when fields get values of theirs.
LEMMA WorkerFields ==
    ASSUME NEW w \in Worker, NEW n \in Nat, NEW q \in Seq(Nat), NEW b \in BOOLEAN
    PROVE  /\ [w EXCEPT !.pos = n, !.stdout = q] \in Worker
           /\ \A m \in Nat : [w EXCEPT !.pos = n, !.stderr = m] \in Worker
           /\ [w EXCEPT !.pos = n, !.closed = b] \in Worker
           /\ [w EXCEPT !.status = "exited", !.rc = "nonzero"] \in Worker
           /\ [w EXCEPT !.status = "exited"] \in Worker
           /\ [w EXCEPT !.stdout = q] \in Worker
           /\ [w EXCEPT !.term = b] \in Worker
           /\ [w EXCEPT !.stdout = q, !.orphan = b] \in Worker
  BY DEF Worker

\* A spawned worker is typed (Popen in submit_with_process).
LEMMA WorkerSpawned ==
    ASSUME NEW w \in Worker, NEW cmd \in Cmds
    PROVE  [w EXCEPT !.status = "alive", !.script = cmd.script, !.rc = cmd.rc] \in Worker
  BY CmdType DEF Worker

\* A worker may be signalled, and a cancel goes on, without leaving their types.
LEMMA Signalled ==
    ASSUME NEW w \in Worker
    PROVE  [w EXCEPT !.term = TRUE] \in Worker
  BY DEF Worker

LEMMA CancelFields ==
    ASSUME NEW rec \in Cancel, NEW pc \in {"waiting", "done", "dead"}
    PROVE  [rec EXCEPT !.pc = pc] \in Cancel
  BY DEF Cancel

\* A row keeps its type under the updates of the jobs table.
LEMMA RowFields ==
    ASSUME NEW row \in Row, NEW st \in States, NEW p \in {0, 1},
           NEW a \in BOOLEAN, NEW b \in BOOLEAN, NEW e \in {"none", "exit", "exception"}
    PROVE  /\ [row EXCEPT !.state = st, !.progress = p, !.started = a, !.finished = b] \in Row
           /\ [row EXCEPT !.state = "failed", !.error = e, !.finished = TRUE] \in Row
           /\ [row EXCEPT !.state = st] \in Row
  BY DEF Row, States

\* A stream keeps its type when it is opened and when it polls.
LEMMA StreamFields ==
    ASSUME NEW s \in Stream, NEW j \in Jobs, NEW r \in Runners, NEW n \in Nat,
           NEW q \in Seq(Nat), NEW pc \in {"polling", "ended"}
    PROVE  /\ [s EXCEPT !.pc = "polling", !.job = j, !.runner = r] \in Stream
           /\ [s EXCEPT !.got = q, !.last_seq = n, !.pc = pc] \in Stream
  BY DEF Stream

\* The row updates keep the table typed.
LEMMA RowTypes ==
    ASSUME NEW j \in Jobs, TypeOK
    PROVE  /\ \A st \in States, p \in {0, 1} : SetState(j, st, p) => jobs' \in [Jobs -> Row]
           /\ \A e \in {"exit", "exception"} : SetFailed(j, e) => jobs' \in [Jobs -> Row]
           /\ InsertRow(j) => jobs' \in [Jobs -> Row]
           /\ \A n \in Nat : AppendEvent(j, n) => job_events' \in [Jobs -> Seq(Nat)]
  <1>1. jobs \in [Jobs -> Row] /\ job_events \in [Jobs -> Seq(Nat)]
    BY DEF TypeOK
  <1>2. ASSUME NEW st \in States, NEW p \in {0, 1}, SetState(j, st, p)
        PROVE  jobs' \in [Jobs -> Row]
    <2>1. jobs[j] \in Row /\ jobs[j].started \in BOOLEAN /\ jobs[j].finished \in BOOLEAN
      BY <1>1 DEF Row
    <2>2. [jobs[j] EXCEPT !.state = st, !.progress = p,
                          !.started = jobs[j].started \/ st = "running",
                          !.finished = jobs[j].finished \/ st \in TerminalStates] \in Row
      BY <2>1, RowFields
    <2>3. jobs' = [jobs EXCEPT ![j] =
                    [jobs[j] EXCEPT !.state = st, !.progress = p,
                                    !.started = jobs[j].started \/ st = "running",
                                    !.finished = jobs[j].finished \/ st \in TerminalStates]]
      BY <1>2 DEF SetState
    <2> QED  BY <1>1, <2>2, <2>3, FunType
  <1>3. ASSUME NEW e \in {"exit", "exception"}, SetFailed(j, e)
        PROVE  jobs' \in [Jobs -> Row]
    BY <1>1, <1>3, RowFields DEF SetFailed, States
  <1>4. InsertRow(j) => jobs' \in [Jobs -> Row]
    <2>1. [jobs[j] EXCEPT !.state = "queued"] \in Row
      BY <1>1, RowFields DEF States
    <2> QED  BY <1>1, <2>1 DEF InsertRow
  <1>5. ASSUME NEW n \in Nat, AppendEvent(j, n)
        PROVE  job_events' \in [Jobs -> Seq(Nat)]
    BY <1>1, <1>5 DEF AppendEvent
  <1> QED  BY <1>2, <1>3, <1>4, <1>5

\* The worker's own steps keep it typed.
LEMMA WorkerTypes ==
    ASSUME NEW j \in Jobs, TypeOK, WorkerStep(j)
    PROVE  worker' \in [Jobs -> Worker]
  <1>1. worker \in [Jobs -> Worker] /\ worker[j] \in Worker
    BY DEF TypeOK
  <1>2. CASE WorkerStdout(j)
    <2>1. worker[j].pos + 1 \in Nat /\ Append(worker[j].stdout, worker[j].pos + 1) \in Seq(Nat)
      BY <1>1 DEF Worker
    <2>2. worker[j].stdout \in Seq(Nat)
      BY <1>1 DEF Worker
    <2>3. PICK q \in Seq(Nat) :
            worker' = [worker EXCEPT ![j] = [worker[j] EXCEPT !.pos = worker[j].pos + 1, !.stdout = q]]
      BY <1>2, <2>1, <2>2 DEF WorkerStdout
    <2>4. [worker[j] EXCEPT !.pos = worker[j].pos + 1, !.stdout = q] \in Worker
      BY <1>1, <2>1, WorkerFields
    <2> QED  BY <1>1, <2>3, <2>4, FunType
  <1>3. CASE WorkerStderr(j)
    <2>1. worker[j].pos + 1 \in Nat /\ worker[j].stderr + 1 \in Nat
      BY <1>1 DEF Worker
    <2>2. [worker[j] EXCEPT !.pos = worker[j].pos + 1, !.stderr = worker[j].stderr + 1] \in Worker
      BY <1>1, <2>1 DEF Worker
    <2>3. worker' = [worker EXCEPT ![j] = [worker[j] EXCEPT !.pos = worker[j].pos + 1, !.stderr = worker[j].stderr + 1]]
      BY <1>3 DEF WorkerStderr
    <2> QED  BY <1>1, <2>2, <2>3, FunType
  <1>4. CASE WorkerClose(j)
    <2>1. worker[j].pos + 1 \in Nat
      BY <1>1 DEF Worker
    <2>2. [worker[j] EXCEPT !.pos = worker[j].pos + 1, !.closed = TRUE] \in Worker
      BY <1>1, <2>1 DEF Worker
    <2>3. worker' = [worker EXCEPT ![j] = [worker[j] EXCEPT !.pos = worker[j].pos + 1, !.closed = TRUE]]
      BY <1>4 DEF WorkerClose
    <2> QED  BY <1>1, <2>2, <2>3, FunType
  <1>5. CASE WorkerBrokenPipe(j)
    BY <1>1, <1>5 DEF WorkerBrokenPipe, Worker
  <1>6. CASE WorkerExit(j)
    BY <1>1, <1>6 DEF WorkerExit, Worker
  <1>7. CASE WorkerKilled(j)
    BY <1>1, <1>7 DEF WorkerKilled, Worker
  <1> QED  BY <1>2, <1>3, <1>4, <1>5, <1>6, <1>7 DEF WorkerStep

\* The empty database is typed.
LEMMA TypeInit == Init => TypeOK
  <1> SUFFICES ASSUME Init PROVE TypeOK
    OBVIOUS
  <1>1. <<>> \in Seq(Nat) /\ <<>> \in Seq(Ops)
    OBVIOUS
  <1>2. jobs \in [Jobs -> Row] /\ job_events \in [Jobs -> Seq(Nat)]
    BY <1>1 DEF Init, Row, States
  <1>3. worker \in [Jobs -> Worker]
    BY <1>1 DEF Init, Worker
  <1>4. task \in [Jobs -> Task] /\ cancels \in [Cancels -> Cancel]
    BY DEF Init, Task, Cancel
  <1>5. streams \in [Streams -> Stream]
    BY <1>1 DEF Init, Stream
  <1> QED  BY <1>2, <1>3, <1>4, <1>5, JobsAssumption DEF Init, TypeOK

\* Every step keeps the types.
LEMMA TypeNext == TypeOK /\ [Next]_vars => TypeOK'
  <1> SUFFICES ASSUME TypeOK, [Next]_vars PROVE TypeOK'
    OBVIOUS
  <1> USE JobsAssumption
  <1>1. ASSUME NEW r \in Runners, NEW j \in Jobs, Submit(r, j)
        PROVE  TypeOK'
    BY <1>1, RowTypes DEF Submit, TypeOK
  <1>2. ASSUME NEW r \in Runners, NEW j \in Jobs, SubmitWithProcess(r, j)
        PROVE  TypeOK'
    <2>1. task' \in [Jobs -> Task]
      BY <1>2 DEF SubmitWithProcess, TypeOK, Task
    <2> QED  BY <1>2, <2>1, RowTypes DEF SubmitWithProcess, TypeOK
  <1>0. Fault => faults' \in 0..MaxFaults
    BY DEF Fault, TypeOK
  <1>3. ASSUME NEW j \in Jobs, NEW cmd \in Cmds, Spawn(j, cmd)
        PROVE  TypeOK'
    <2>1. jobs' \in [Jobs -> Row]
      BY <1>3, RowTypes DEF Spawn, States
    <2>2. task' \in [Jobs -> Task]
      BY <1>3 DEF Spawn, TypeOK, Task
    <2>3. worker' \in [Jobs -> Worker]
      BY <1>3, WorkerSpawned DEF Spawn, TypeOK
    <2>4. processes' \in [Runners -> SUBSET Jobs]
      BY <1>3 DEF Spawn, TypeOK
    <2> QED  BY <1>3, <2>1, <2>2, <2>3, <2>4 DEF Spawn, TypeOK
  <1>4. ASSUME NEW j \in Jobs, SpawnFails(j)
        PROVE  TypeOK'
    <2>1. task' \in [Jobs -> Task]
      BY <1>4 DEF SpawnFails, TypeOK, Task
    <2> QED  BY <1>0, <1>4, <2>1 DEF SpawnFails, TypeOK
  <1>18. ASSUME NEW j \in Jobs, NEW cmd \in Cmds, SpawnUnrecorded(j, cmd)
         PROVE  TypeOK'
    <2>1. task' \in [Jobs -> Task]
      BY <1>18 DEF SpawnUnrecorded, TypeOK, Task
    <2>2. worker' \in [Jobs -> Worker]
      BY <1>18, WorkerSpawned DEF SpawnUnrecorded, TypeOK
    <2>3. processes' \in [Runners -> SUBSET Jobs]
      BY <1>18 DEF SpawnUnrecorded, TypeOK
    <2> QED  BY <1>0, <1>18, <2>1, <2>2, <2>3 DEF SpawnUnrecorded, TypeOK
  <1>5. ASSUME NEW j \in Jobs, WorkerStep(j)
        PROVE  TypeOK'
    BY <1>5, WorkerTypes DEF WorkerStep, TypeOK
  <1>6. ASSUME NEW j \in Jobs, DrainLine(j)
        PROVE  TypeOK'
    <2>1. worker[j] \in Worker /\ worker[j].stdout \in Seq(Nat) /\ worker[j].stdout # <<>>
      BY <1>6 DEF DrainLine, TypeOK, Worker
    <2>2. Head(worker[j].stdout) \in Nat /\ Tail(worker[j].stdout) \in Seq(Nat)
      BY <2>1
    <2>3. job_events' \in [Jobs -> Seq(Nat)]
      BY <1>6, <2>2, RowTypes DEF DrainLine, TypeOK
    <2>4. worker' \in [Jobs -> Worker]
      BY <1>6, <2>1, <2>2, WorkerFields DEF DrainLine, TypeOK
    <2> QED  BY <1>6, <2>3, <2>4 DEF DrainLine, TypeOK
  <1>7. ASSUME NEW j \in Jobs, DrainEnd(j)
        PROVE  TypeOK'
    <2>1. task' \in [Jobs -> Task]
      BY <1>7 DEF DrainEnd, TypeOK, Task
    <2> QED  BY <1>7, <2>1 DEF DrainEnd, TypeOK
  <1>8. ASSUME NEW j \in Jobs, SuperviseExit(j)
        PROVE  TypeOK'
    <2>1. jobs' \in [Jobs -> Row]
      BY <1>8, RowTypes DEF SuperviseExit, States
    <2>2. task' \in [Jobs -> Task]
      BY <1>8 DEF SuperviseExit, PopProcess, TypeOK, Task
    <2>3. processes' \in [Runners -> SUBSET Jobs]
      BY <1>8 DEF SuperviseExit, PopProcess, TypeOK
    <2> QED  BY <1>8, <2>1, <2>2, <2>3 DEF SuperviseExit, TypeOK
  <1>9. ASSUME NEW j \in Jobs, DrainRaises(j)
        PROVE  TypeOK'
    <2>1. worker[j] \in Worker /\ worker[j].stdout \in Seq(Nat) /\ worker[j].stdout # <<>>
      BY <1>9 DEF DrainRaises, TypeOK, Worker
    <2>2. Tail(worker[j].stdout) \in Seq(Nat)
      BY <2>1
    <2>3. worker' \in [Jobs -> Worker]
      BY <1>9, <2>1, <2>2, WorkerFields DEF DrainRaises, TypeOK
    <2>4. task' \in [Jobs -> Task]
      BY <1>9 DEF DrainRaises, TypeOK, Task
    <2> QED  BY <1>0, <1>9, <2>3, <2>4 DEF DrainRaises, TypeOK
  <1>19. ASSUME NEW j \in Jobs, SuperviseFails(j)
         PROVE  TypeOK'
    <2>1. jobs' \in [Jobs -> Row]
      BY <1>19, RowTypes DEF SuperviseFails
    <2>2. task' \in [Jobs -> Task] /\ processes' \in [Runners -> SUBSET Jobs]
      BY <1>19 DEF SuperviseFails, PopProcess, TypeOK, Task
    <2> QED  BY <1>0, <1>19, <2>1, <2>2 DEF SuperviseFails, TypeOK
  <1>20. ASSUME NEW j \in Jobs, SuperviseLost(j)
         PROVE  TypeOK'
    <2>1. task' \in [Jobs -> Task] /\ processes' \in [Runners -> SUBSET Jobs]
      BY <1>20 DEF SuperviseLost, TypeOK, Task
    <2> QED  BY <1>0, <1>20, <2>1 DEF SuperviseLost, TypeOK
  <1>21. ASSUME NEW c \in Cancels, CancelRaises(c)
         PROVE  TypeOK'
    <2>1. cancels \in [Cancels -> Cancel] /\ cancels[c] \in Cancel
      BY DEF TypeOK
    <2>2. [cancels[c] EXCEPT !.pc = "dead"] \in Cancel
      BY <2>1, CancelFields
    <2>3. cancels' = [cancels EXCEPT ![c] = [cancels[c] EXCEPT !.pc = "dead"]]
      BY <1>21 DEF CancelRaises
    <2>4. cancels' \in [Cancels -> Cancel]
      BY <2>1, <2>2, <2>3, FunType
    <2> QED  BY <1>0, <1>21, <2>4 DEF CancelRaises, TypeOK
  <1>22. ASSUME NEW s \in Streams, StreamRaises(s)
         PROVE  TypeOK'
    <2>1. streams' \in [Streams -> Stream]
      BY <1>22 DEF StreamRaises, TypeOK, Stream
    <2>2. ASSUME NEW t \in Streams, streams'[t].pc = "polling"
          PROVE  streams'[t].job \in Jobs
      BY <1>22, <2>2 DEF StreamRaises, TypeOK, Stream
    <2> QED  BY <1>0, <1>22, <2>1, <2>2 DEF StreamRaises, TypeOK
  <1>10. ASSUME NEW c \in Cancels, NEW r \in Runners, NEW j \in Jobs, CancelCheck(c, r, j)
         PROVE  TypeOK'
    <2>1. jobs[j].progress \in {0, 1}
      BY DEF TypeOK, Row
    <2>2. cancels' \in [Cancels -> Cancel]
      BY <1>10, <2>1 DEF CancelCheck, TypeOK, Cancel
    <2> QED  BY <1>10, <2>2 DEF CancelCheck, TypeOK
  <1>11. ASSUME NEW c \in Cancels, CancelSignal(c)
         PROVE  TypeOK'
    <2>1. cancels' \in [Cancels -> Cancel]
      <3>1. cancels \in [Cancels -> Cancel] /\ cancels[c] \in Cancel
        BY DEF TypeOK
      <3>2. [cancels[c] EXCEPT !.pc = "waiting"] \in Cancel
        BY <3>1, CancelFields
      <3>3. cancels' = [cancels EXCEPT ![c] = [cancels[c] EXCEPT !.pc = "waiting"]]
        BY <1>11 DEF CancelSignal
      <3> QED  BY <3>1, <3>2, <3>3, FunType
    <2>2. worker' \in [Jobs -> Worker]
      <3>1. worker \in [Jobs -> Worker] /\ cancels[c].job \in Jobs \cup {None}
        BY DEF TypeOK, Cancel
      <3> DEFINE j == cancels[c].job
      <3>2. worker' = [worker EXCEPT ![j] = [@ EXCEPT !.term = TRUE]]
        BY <1>11 DEF CancelSignal
      <3>3. j \in Jobs => [worker[j] EXCEPT !.term = TRUE] \in Worker
        BY <3>1, Signalled
      <3>4. CASE j \in Jobs
        BY <3>1, <3>2, <3>3, <3>4, FunType
      <3>5. CASE j \notin Jobs
        BY <3>1, <3>2, <3>5
      <3> QED  BY <3>4, <3>5
    <2> QED  BY <1>11, <2>1, <2>2 DEF CancelSignal, TypeOK
  <1>12. ASSUME NEW c \in Cancels, CancelWrite(c)
         PROVE  TypeOK'
    <2>1. cancels' \in [Cancels -> Cancel]
      <3>1. cancels \in [Cancels -> Cancel] /\ cancels[c] \in Cancel
        BY DEF TypeOK
      <3>2. [cancels[c] EXCEPT !.pc = "done"] \in Cancel
        BY <3>1, CancelFields
      <3>3. cancels' = [cancels EXCEPT ![c] = [cancels[c] EXCEPT !.pc = "done"]]
        BY <1>12 DEF CancelWrite
      <3> QED  BY <3>1, <3>2, <3>3, FunType
    <2>2. jobs' \in [Jobs -> Row]
      <3>1. cancels[c].job \in Jobs \cup {None} /\ cancels[c].progress \in {0, 1}
        BY DEF TypeOK, Cancel
      <3>2. CASE cancels[c].job \in Jobs
        BY <1>12, <3>1, <3>2, RowTypes DEF CancelWrite, States
      <3>3. CASE cancels[c].job \notin Jobs
        BY <1>12, <3>3 DEF CancelWrite, SetState, TypeOK
      <3> QED  BY <3>2, <3>3
    <2> QED  BY <1>12, <2>1, <2>2 DEF CancelWrite, TypeOK
  <1>13. ASSUME NEW s \in Streams, NEW r \in Runners, NEW j \in Jobs, StreamOpen(s, r, j)
         PROVE  TypeOK'
    <2>1. streams' \in [Streams -> Stream]
      BY <1>13, StreamFields DEF StreamOpen, TypeOK
    <2>2. ASSUME NEW t \in Streams, streams'[t].pc = "polling"
          PROVE  streams'[t].job \in Jobs
      BY <1>13, <2>2 DEF StreamOpen, TypeOK, Stream
    <2> QED  BY <1>13, <2>1, <2>2 DEF StreamOpen, TypeOK
  <1>14. ASSUME NEW s \in Streams, StreamPoll(s)
         PROVE  TypeOK'
    <2>1. streams' \in [Streams -> Stream]
      <3> DEFINE j == streams[s].job
      <3>1. streams[s] \in Stream /\ streams[s].got \in Seq(Nat) /\ streams[s].last_seq \in Nat
            /\ j \in Jobs \cup {None}
        BY DEF TypeOK, Stream
      <3>2. j \in Jobs
        BY <1>14 DEF StreamPoll, TypeOK
      <3>3. job_events[j] \in Seq(Nat) /\ Len(job_events[j]) \in Nat
        BY <3>2 DEF TypeOK
      <3>4. streams[s].got \o NewRows(s) \in Seq(Nat)
        BY <3>1, <3>3 DEF NewRows
      <3>5. PICK pc \in {"polling", "ended"} :
              streams' = [streams EXCEPT ![s] =
                           [streams[s] EXCEPT !.got = streams[s].got \o NewRows(s),
                                              !.last_seq = Len(job_events[j]),
                                              !.pc = pc]]
        BY <1>14 DEF StreamPoll
      <3>6. [streams[s] EXCEPT !.got = streams[s].got \o NewRows(s),
                               !.last_seq = Len(job_events[j]), !.pc = pc] \in Stream
        BY <3>1, <3>3, <3>4, <3>2, JobsAssumption DEF Stream
      <3> QED  BY <3>5, <3>6, FunType DEF TypeOK
    <2>2. ASSUME NEW t \in Streams, streams'[t].pc = "polling"
          PROVE  streams'[t].job \in Jobs
      BY <1>14, <2>2 DEF StreamPoll, TypeOK, Stream
    <2> QED  BY <1>14, <2>1, <2>2 DEF StreamPoll, TypeOK
  <1>15. ASSUME NEW r \in Runners, RunnerCrash(r)
         PROVE  TypeOK'
    <2>1. task' \in [Jobs -> Task]
      BY <1>15 DEF RunnerCrash, Die, TypeOK, Task
    <2>2. cancels' \in [Cancels -> Cancel]
      <3>1. ASSUME NEW c \in Cancels
            PROVE  Die(cancels[c], r) \in Cancel
        <4>1. cancels[c] \in Cancel
          BY DEF TypeOK
        <4>2. [cancels[c] EXCEPT !.pc = "dead"] \in Cancel
          BY <4>1 DEF Cancel
        <4> QED  BY <4>1, <4>2 DEF Die
      <3> QED  BY <1>15, <3>1 DEF RunnerCrash
    <2>3. streams' \in [Streams -> Stream]
      <3>1. ASSUME NEW s \in Streams
            PROVE  Die(streams[s], r) \in Stream
        BY DEF Die, TypeOK, Stream
      <3> QED  BY <1>15, <3>1 DEF RunnerCrash
    <2>4. ASSUME NEW t \in Streams, streams'[t].pc = "polling"
          PROVE  streams'[t].job \in Jobs
      <3>1. streams'[t] = Die(streams[t], r) /\ streams[t] \in Stream
        BY <1>15 DEF RunnerCrash, TypeOK
      <3> QED  BY <2>4, <3>1 DEF Die, TypeOK, Stream
    <2>5. worker' \in [Jobs -> Worker]
      <3>1. ASSUME NEW j \in Jobs
            PROVE  /\ worker[j] \in Worker
                   /\ [worker[j] EXCEPT !.stdout = <<>>, !.orphan = TRUE] \in Worker
        <4>1. worker[j] \in Worker /\ <<>> \in Seq(Nat)
          BY DEF TypeOK
        <4> QED  BY <4>1, WorkerFields
      <3> QED  BY <1>15, <3>1 DEF RunnerCrash
    <2> QED  BY <1>0, <1>15, <2>1, <2>2, <2>3, <2>4, <2>5 DEF RunnerCrash, TypeOK
  <1>16. ASSUME NEW r \in Runners, RunnerStart(r)
         PROVE  TypeOK'
    BY <1>16 DEF RunnerStart, TypeOK
  <1>17. CASE UNCHANGED vars
    BY <1>17 DEF vars, TypeOK
  <1> QED
    BY <1>1, <1>2, <1>3, <1>4, <1>5, <1>6, <1>7, <1>8, <1>9, <1>10, <1>11, <1>12,
       <1>13, <1>14, <1>15, <1>16, <1>17, <1>18, <1>19, <1>20, <1>21, <1>22 DEF Next

\* The variables of the long-job runner keep their types, whatever the commands,
\* the number of runners of the suite and the faults (jobs.db rows, _processes).
THEOREM TypeCorrect == Spec => []TypeOK
  BY TypeInit, TypeNext, PTL DEF Spec

-------------------------------------------------------------------------------
(* Safety.                                                                 *)

(***************************************************************************)
(* Sequences of line numbers.                                              *)
(***************************************************************************)

\* What Append, Head and Tail do to the set of lines of a sequence.
LEMMA RangeFacts ==
    ASSUME NEW q \in Seq(Nat), NEW n \in Nat
    PROVE  /\ Range(Append(q, n)) = Range(q) \cup {n}
           /\ q # <<>> => Range(q) = {Head(q)} \cup Range(Tail(q))
           /\ Range(<<>>) = {}
           /\ Range(q) \subseteq Nat
  <1>1. Range(Append(q, n)) = Range(q) \cup {n}
    <2>1. /\ Len(Append(q, n)) = Len(q) + 1
          /\ \A i \in 1..Len(q) : Append(q, n)[i] = q[i]
          /\ Append(q, n)[Len(q) + 1] = n
          /\ Append(q, n) \in Seq(Nat)
      OBVIOUS
    <2> QED  BY <2>1 DEF Range
  <1>2. ASSUME q # <<>>
        PROVE  Range(q) = {Head(q)} \cup Range(Tail(q))
    <2>1. /\ Len(q) \in Nat \ {0} /\ Tail(q) \in Seq(Nat) /\ Len(Tail(q)) = Len(q) - 1
          /\ Head(q) = q[1]
          /\ \A i \in 1..(Len(q) - 1) : Tail(q)[i] = q[i + 1]
      BY <1>2
    <2>2. ASSUME NEW m \in Range(q) PROVE m \in {Head(q)} \cup Range(Tail(q))
      <3>1. PICK i \in 1..Len(q) : m = q[i]
        BY DEF Range
      <3>2. CASE i = 1
        BY <2>1, <3>1, <3>2
      <3>3. CASE i # 1
        <4>1. i - 1 \in 1..(Len(q) - 1) /\ Tail(q)[i - 1] = m
          BY <2>1, <3>1, <3>3
        <4>2. i - 1 \in DOMAIN Tail(q)
          BY <2>1, <4>1
        <4>3. m \in Range(Tail(q))
          BY <4>1, <4>2 DEF Range
        <4> QED  BY <4>3
      <3> QED  BY <3>2, <3>3
    <2>3. ASSUME NEW m \in {Head(q)} \cup Range(Tail(q)) PROVE m \in Range(q)
      <3>1. CASE m = Head(q)
        BY <2>1, <3>1 DEF Range
      <3>2. CASE m \in Range(Tail(q))
        <4>1. PICK i \in 1..(Len(q) - 1) : m = Tail(q)[i]
          BY <2>1, <3>2 DEF Range
        <4>2. m = q[i + 1] /\ i + 1 \in 1..Len(q)
          BY <2>1, <4>1
        <4> QED  BY <4>2 DEF Range
      <3> QED  BY <2>3, <3>1, <3>2
    <2> QED  BY <2>2, <2>3
  <1>3. Range(<<>>) = {}
    BY DEF Range
  <1>4. Range(q) \subseteq Nat
    BY DEF Range
  <1> QED  BY <1>1, <1>2, <1>3, <1>4

\* Appending above a sequence and taking its tail keep it increasing.
LEMMA IncreasingFacts ==
    ASSUME NEW q \in Seq(Nat), NEW n \in Nat, Increasing(q)
    PROVE  /\ (\A m \in Range(q) : m < n) => Increasing(Append(q, n))
           /\ q # <<>> => /\ Increasing(Tail(q))
                          /\ \A m \in Range(Tail(q)) : Head(q) < m
           /\ Increasing(<<>>)
  <1>1. ASSUME \A m \in Range(q) : m < n
        PROVE  Increasing(Append(q, n))
    <2>1. /\ Len(Append(q, n)) = Len(q) + 1
          /\ \A i \in 1..Len(q) : Append(q, n)[i] = q[i]
          /\ Append(q, n)[Len(q) + 1] = n
          /\ DOMAIN Append(q, n) = 1..(Len(q) + 1)
      OBVIOUS
    <2>2. \A i \in 1..Len(q) : q[i] < n
      BY <1>1 DEF Range
    <2> QED  BY <2>1, <2>2 DEF Increasing
  <1>2. ASSUME q # <<>>
        PROVE  /\ Increasing(Tail(q))
               /\ \A m \in Range(Tail(q)) : Head(q) < m
    <2>1. /\ Len(q) \in Nat \ {0} /\ DOMAIN Tail(q) = 1..(Len(q) - 1)
          /\ Head(q) = q[1]
          /\ \A i \in 1..(Len(q) - 1) : Tail(q)[i] = q[i + 1]
      BY <1>2
    <2>2. Increasing(Tail(q))
      BY <2>1 DEF Increasing
    <2>3. \A m \in Range(Tail(q)) : Head(q) < m
      BY <2>1 DEF Increasing, Range
    <2> QED  BY <2>2, <2>3
  <1>3. Increasing(<<>>)
    BY DEF Increasing
  <1> QED  BY <1>1, <1>2, <1>3

(***************************************************************************)
(* Which actions change what.                                              *)
(***************************************************************************)

\* The worker of job j is started, with or without the row saying so.
Starts(j) == \E cmd \in Cmds : Spawn(j, cmd) \/ SpawnUnrecorded(j, cmd)

\* The supervision of job j comes to its end and says so.
Ends(j) == SuperviseExit(j) \/ SuperviseFails(j)

\* The app that runs job j dies.
AppDies(j) == task[j].runner \in Runners /\ RunnerCrash(task[j].runner)

\* The subprocess and the log of job k.
LEMMA WhoWritesWorker ==
    ASSUME TypeOK, [Next]_vars, NEW k \in Jobs
    PROVE  \/ worker'[k] = worker[k] /\ job_events'[k] = job_events[k]
           \/ Starts(k)
           \/ WorkerStep(k)
           \/ DrainLine(k)
           \/ DrainRaises(k)
           \/ \E c \in Cancels : cancels[c].job = k /\ CancelSignal(c)
           \/ AppDies(k)
  <1>1. ASSUME NEW j \in Jobs, NEW cmd \in Cmds, Spawn(j, cmd) \/ SpawnUnrecorded(j, cmd)
        PROVE  Starts(k) \/ (worker'[k] = worker[k] /\ job_events'[k] = job_events[k])
    <2>1. j = k => Starts(k)
      BY <1>1 DEF Starts
    <2>2. j # k => worker'[k] = worker[k] /\ job_events'[k] = job_events[k]
      BY <1>1 DEF Spawn, SpawnUnrecorded, TypeOK
    <2> QED  BY <2>1, <2>2
  <1>2. ASSUME NEW j \in Jobs, WorkerStep(j)
        PROVE  j = k \/ (worker'[k] = worker[k] /\ job_events'[k] = job_events[k])
    BY <1>2 DEF WorkerStep, WorkerStdout, WorkerStderr, WorkerClose, WorkerBrokenPipe,
                WorkerExit, WorkerKilled, TypeOK
  <1>3. ASSUME NEW j \in Jobs, DrainLine(j)
        PROVE  j = k \/ (worker'[k] = worker[k] /\ job_events'[k] = job_events[k])
    BY <1>3 DEF DrainLine, AppendEvent, TypeOK
  <1>4. ASSUME NEW j \in Jobs, DrainRaises(j)
        PROVE  j = k \/ (worker'[k] = worker[k] /\ job_events'[k] = job_events[k])
    BY <1>4 DEF DrainRaises, TypeOK
  <1>5. ASSUME NEW c \in Cancels, CancelSignal(c)
        PROVE  cancels[c].job = k \/ (worker'[k] = worker[k] /\ job_events'[k] = job_events[k])
    BY <1>5 DEF CancelSignal, TypeOK
  <1>6. ASSUME \/ \E r \in Runners, j \in Jobs : Submit(r, j) \/ SubmitWithProcess(r, j)
               \/ \E j \in Jobs : \/ SpawnFails(j) \/ DrainEnd(j) \/ SuperviseExit(j)
                                  \/ SuperviseFails(j) \/ SuperviseLost(j)
               \/ \E c \in Cancels, r \in Runners, j \in Jobs : CancelCheck(c, r, j)
               \/ \E c \in Cancels : CancelWrite(c) \/ CancelRaises(c)
               \/ \E s \in Streams, r \in Runners, j \in Jobs : StreamOpen(s, r, j)
               \/ \E s \in Streams : StreamPoll(s) \/ StreamRaises(s)
               \/ \E r \in Runners : RunnerStart(r)
               \/ UNCHANGED vars
        PROVE  worker'[k] = worker[k] /\ job_events'[k] = job_events[k]
    BY <1>6 DEF Submit, SubmitWithProcess, SpawnFails, DrainEnd, SuperviseExit, SuperviseFails,
                SuperviseLost, CancelCheck, CancelWrite, CancelRaises, StreamOpen, StreamPoll,
                StreamRaises, RunnerStart, vars
  <1>7. ASSUME NEW r \in Runners, RunnerCrash(r)
        PROVE  AppDies(k) \/ (worker'[k] = worker[k] /\ job_events'[k] = job_events[k])
    <2>1. task[k].runner = r => AppDies(k)
      BY <1>7 DEF AppDies
    <2>2. task[k].runner # r => worker'[k] = worker[k] /\ job_events'[k] = job_events[k]
      BY <1>7 DEF RunnerCrash
    <2> QED  BY <2>1, <2>2
  <1> QED  BY <1>1, <1>2, <1>3, <1>4, <1>5, <1>6, <1>7 DEF Next

\* The row of job k.
LEMMA WhoWritesRow ==
    ASSUME TypeOK, [Next]_vars, NEW k \in Jobs
    PROVE  \/ jobs'[k] = jobs[k]
           \/ InsertRow(k) /\ UNCHANGED <<worker, job_events, cancels, streams>>
           \/ \E cmd \in Cmds : Spawn(k, cmd)
           \/ SuperviseExit(k)
           \/ SuperviseFails(k)
           \/ \E c \in Cancels : cancels[c].job = k /\ CancelWrite(c)
  <1>1. ASSUME NEW r \in Runners, NEW j \in Jobs, Submit(r, j) \/ SubmitWithProcess(r, j)
        PROVE  \/ jobs'[k] = jobs[k]
               \/ InsertRow(k) /\ UNCHANGED <<worker, job_events, cancels, streams>>
    BY <1>1 DEF Submit, SubmitWithProcess, InsertRow, TypeOK
  <1>2. ASSUME NEW j \in Jobs, NEW cmd \in Cmds, Spawn(j, cmd)
        PROVE  j = k \/ jobs'[k] = jobs[k]
    BY <1>2 DEF Spawn, SetState, TypeOK
  <1>3. ASSUME NEW j \in Jobs, SuperviseExit(j)
        PROVE  j = k \/ jobs'[k] = jobs[k]
    BY <1>3 DEF SuperviseExit, SetState, SetFailed, TypeOK
  <1>4. ASSUME NEW j \in Jobs, SuperviseFails(j)
        PROVE  j = k \/ jobs'[k] = jobs[k]
    BY <1>4 DEF SuperviseFails, SetFailed, TypeOK
  <1>5. ASSUME NEW c \in Cancels, CancelWrite(c)
        PROVE  cancels[c].job = k \/ jobs'[k] = jobs[k]
    BY <1>5 DEF CancelWrite, SetState, TypeOK
  <1>6. ASSUME \/ \E j \in Jobs, cmd \in Cmds : SpawnUnrecorded(j, cmd)
               \/ \E j \in Jobs : \/ SpawnFails(j) \/ WorkerStep(j) \/ DrainLine(j)
                                  \/ DrainRaises(j) \/ DrainEnd(j) \/ SuperviseLost(j)
               \/ \E c \in Cancels, r \in Runners, j \in Jobs : CancelCheck(c, r, j)
               \/ \E c \in Cancels : CancelSignal(c) \/ CancelRaises(c)
               \/ \E s \in Streams, r \in Runners, j \in Jobs : StreamOpen(s, r, j)
               \/ \E s \in Streams : StreamPoll(s) \/ StreamRaises(s)
               \/ \E r \in Runners : RunnerCrash(r) \/ RunnerStart(r)
               \/ UNCHANGED vars
        PROVE  jobs'[k] = jobs[k]
    BY <1>6 DEF SpawnUnrecorded, SpawnFails, WorkerStep, DrainLine, DrainRaises, DrainEnd,
                SuperviseLost, CancelCheck, CancelSignal, CancelRaises, StreamOpen, StreamPoll,
                StreamRaises, RunnerCrash, RunnerStart, vars
  <1> QED  BY <1>1, <1>2, <1>3, <1>4, <1>5, <1>6 DEF Next

\* The coroutines of job k.
LEMMA WhoMovesTask ==
    ASSUME TypeOK, [Next]_vars, NEW k \in Jobs
    PROVE  \/ task'[k] = task[k]
           \/ \E r \in Runners : SubmitWithProcess(r, k)
           \/ Starts(k)
           \/ SpawnFails(k) \/ DrainRaises(k) \/ DrainEnd(k) \/ Ends(k) \/ SuperviseLost(k)
           \/ \E r \in Runners : RunnerCrash(r) /\ task'[k] = Die(task[k], r)
  <1>1. ASSUME NEW r \in Runners, NEW j \in Jobs, SubmitWithProcess(r, j)
        PROVE  j = k \/ task'[k] = task[k]
    BY <1>1 DEF SubmitWithProcess, TypeOK
  <1>2. ASSUME NEW j \in Jobs, \/ Starts(j)
                               \/ SpawnFails(j) \/ DrainRaises(j) \/ DrainEnd(j)
                               \/ SuperviseLost(j)
        PROVE  j = k \/ task'[k] = task[k]
    BY <1>2 DEF Starts, Spawn, SpawnUnrecorded, SpawnFails, DrainRaises, DrainEnd, SuperviseLost,
                TypeOK
  <1>3. ASSUME NEW j \in Jobs, Ends(j)
        PROVE  j = k \/ task'[k] = task[k]
    BY <1>3 DEF Ends, SuperviseExit, SuperviseFails, PopProcess, TypeOK
  <1>4. ASSUME NEW r \in Runners, RunnerCrash(r)
        PROVE  task'[k] = Die(task[k], r)
    BY <1>4 DEF RunnerCrash
  <1>5. ASSUME \/ \E r \in Runners, j \in Jobs : Submit(r, j)
               \/ \E j \in Jobs : WorkerStep(j) \/ DrainLine(j)
               \/ \E c \in Cancels, r \in Runners, j \in Jobs : CancelCheck(c, r, j)
               \/ \E c \in Cancels : CancelSignal(c) \/ CancelWrite(c) \/ CancelRaises(c)
               \/ \E s \in Streams, r \in Runners, j \in Jobs : StreamOpen(s, r, j)
               \/ \E s \in Streams : StreamPoll(s) \/ StreamRaises(s)
               \/ \E r \in Runners : RunnerStart(r)
               \/ UNCHANGED vars
        PROVE  task'[k] = task[k]
    BY <1>5 DEF Submit, WorkerStep, DrainLine, CancelCheck, CancelSignal, CancelWrite,
                CancelRaises, StreamOpen, StreamPoll, StreamRaises, RunnerStart, vars
  <1> QED  BY <1>1, <1>2, <1>3, <1>4, <1>5 DEF Next, Starts, Ends

(***************************************************************************)
(* The moves of a row and of a task.                                       *)
(***************************************************************************)

\* Who writes the row of job k, and what the row then says.
LEMMA RowMoves ==
    ASSUME TypeOK, [Next]_vars, NEW k \in Jobs
    PROVE  \/ jobs'[k] = jobs[k]
           \/ /\ InsertRow(k) /\ jobs[k].state = "absent" /\ jobs'[k].state = "queued"
              /\ jobs'[k].error = jobs[k].error
              /\ UNCHANGED <<worker, job_events, cancels, streams>>
           \/ /\ \E cmd \in Cmds : Spawn(k, cmd)
              /\ jobs'[k].state = "running" /\ jobs'[k].error = jobs[k].error
           \/ /\ SuperviseExit(k)
              /\ \/ /\ worker[k].rc = "zero" /\ jobs'[k].state = "succeeded"
                    /\ jobs'[k].error = jobs[k].error
                 \/ /\ worker[k].rc # "zero" /\ jobs'[k].state = "failed"
                    /\ jobs'[k].error = "exit"
           \/ SuperviseFails(k) /\ jobs'[k].state = "failed" /\ jobs'[k].error = "exception"
           \/ /\ \E c \in Cancels : cancels[c].job = k /\ CancelWrite(c)
              /\ jobs'[k].state = "cancelled" /\ jobs'[k].error = jobs[k].error
  <1>1. jobs \in [Jobs -> Row] /\ jobs[k] \in Row
    BY DEF TypeOK
  <1>2. CASE InsertRow(k) /\ UNCHANGED <<worker, job_events, cancels, streams>>
    BY <1>1, <1>2 DEF InsertRow, Row
  <1>3. ASSUME NEW cmd \in Cmds, Spawn(k, cmd)
        PROVE  jobs'[k].state = "running" /\ jobs'[k].error = jobs[k].error
    BY <1>1, <1>3 DEF Spawn, SetState, Row
  <1>4. CASE SuperviseExit(k)
    BY <1>1, <1>4 DEF SuperviseExit, SetState, SetFailed, Row
  <1>5. CASE SuperviseFails(k)
    BY <1>1, <1>5 DEF SuperviseFails, SetFailed, Row
  <1>6. ASSUME NEW c \in Cancels, cancels[c].job = k, CancelWrite(c)
        PROVE  jobs'[k].state = "cancelled" /\ jobs'[k].error = jobs[k].error
    BY <1>1, <1>6 DEF CancelWrite, SetState, Row
  <1> QED  BY <1>2, <1>3, <1>4, <1>5, <1>6, WhoWritesRow

\* The life of the coroutine of job k.
LEMMA TaskMoves ==
    ASSUME TypeOK, [Next]_vars, NEW k \in Jobs
    PROVE  \/ task'[k] = task[k]
           \/ /\ \E r \in Runners : SubmitWithProcess(r, k)
              /\ jobs[k].state = "absent" /\ jobs'[k].state = "queued"
              /\ task'[k].pc = "spawn" /\ task'[k].runner \in Runners
              /\ jobs'[k].error = jobs[k].error
              /\ UNCHANGED <<worker, processes, cancels>>
           \/ /\ Starts(k)
              /\ task[k].pc = "spawn" /\ task'[k].pc \in {"drain", "lost"}
              /\ task'[k].runner = task[k].runner
           \/ /\ SpawnFails(k)
              /\ task[k].pc = "spawn" /\ task'[k].pc = "done"
              /\ task'[k].runner = task[k].runner
           \/ /\ DrainEnd(k)
              /\ task[k].pc = "drain" /\ task'[k].pc = "wait"
              /\ task'[k].runner = task[k].runner
           \/ /\ DrainRaises(k)
              /\ task[k].pc = "drain" /\ task'[k].pc = "raised"
              /\ task'[k].runner = task[k].runner
           \/ /\ Ends(k)
              /\ task[k].pc \in {"raised", "wait"} /\ task'[k].pc = "done"
              /\ task'[k].runner = task[k].runner
           \/ /\ SuperviseLost(k)
              /\ task[k].pc \in {"raised", "wait"} /\ task'[k].pc = "lost"
              /\ task'[k].runner = task[k].runner
           \/ /\ \E r \in Runners : RunnerCrash(r) /\ task[k].runner = r
              /\ task[k].pc # "done" /\ task'[k].pc = "dead"
              /\ task'[k].runner = task[k].runner
  <1>1. task \in [Jobs -> Task] /\ task[k] \in Task /\ jobs \in [Jobs -> Row] /\ jobs[k] \in Row
    BY DEF TypeOK
  <1>2. ASSUME NEW r \in Runners, SubmitWithProcess(r, k)
        PROVE  /\ jobs[k].state = "absent" /\ jobs'[k].state = "queued"
               /\ task'[k].pc = "spawn" /\ task'[k].runner \in Runners
               /\ jobs'[k].error = jobs[k].error
               /\ UNCHANGED <<worker, processes, cancels>>
    BY <1>1, <1>2 DEF SubmitWithProcess, InsertRow, Task, Row
  <1>3. ASSUME Starts(k)
        PROVE  /\ task[k].pc = "spawn" /\ task'[k].pc \in {"drain", "lost"}
               /\ task'[k].runner = task[k].runner
    BY <1>1, <1>3 DEF Starts, Spawn, SpawnUnrecorded, Task
  <1>4. CASE SpawnFails(k)
    BY <1>1, <1>4 DEF SpawnFails, Task
  <1>5. CASE DrainEnd(k)
    BY <1>1, <1>5 DEF DrainEnd, Task
  <1>6. CASE Ends(k)
    BY <1>1, <1>6 DEF Ends, SuperviseExit, SuperviseFails, Waited, PopProcess, Task
  <1>7. CASE SuperviseLost(k)
    BY <1>1, <1>7 DEF SuperviseLost, Waited, Task
  <1>9. CASE DrainRaises(k)
    BY <1>1, <1>9 DEF DrainRaises, Task
  <1>8. CASE \E r \in Runners : RunnerCrash(r) /\ task'[k] = Die(task[k], r)
    BY <1>1, <1>8 DEF Die, Task
  <1> QED  BY <1>2, <1>3, <1>4, <1>5, <1>6, <1>7, <1>8, <1>9, WhoMovesTask

\* The start of a worker, with or without the row that says so.
LEMMA StartEffect ==
    ASSUME TypeOK, NEW k \in Jobs, Starts(k)
    PROVE  /\ task[k].pc = "spawn" /\ task'[k].pc \in {"drain", "lost"}
           /\ task'[k].runner = task[k].runner
           /\ processes' = [processes EXCEPT ![task[k].runner] = @ \cup {k}]
           /\ worker'[k].status = "alive" /\ worker'[k].orphan = worker[k].orphan
  <1>1. task \in [Jobs -> Task] /\ worker \in [Jobs -> Worker] /\ worker[k] \in Worker
    BY DEF TypeOK
  <1>2. PICK cmd \in Cmds : Spawn(k, cmd) \/ SpawnUnrecorded(k, cmd)
    BY DEF Starts
  <1>3. CASE Spawn(k, cmd)
    BY <1>1, <1>3 DEF Spawn, Task, Worker
  <1>4. CASE SpawnUnrecorded(k, cmd)
    BY <1>1, <1>4 DEF SpawnUnrecorded, Task, Worker
  <1> QED  BY <1>2, <1>3, <1>4

\* A coroutine that is not done dies with its app.
LEMMA TaskDies ==
    ASSUME TypeOK, NEW k \in Jobs, AppDies(k), task[k].pc # "done"
    PROVE  task'[k].pc = "dead"
  <1>1. task[k] \in Task /\ task[k].pc \notin {"done", "noop", "ended"}
    BY DEF TypeOK, Task
  <1>2. task'[k] = Die(task[k], task[k].runner)
    BY DEF AppDies, RunnerCrash
  <1>3. task'[k] = [task[k] EXCEPT !.pc = "dead"]
    BY <1>1, <1>2 DEF Die
  <1> QED  BY <1>1, <1>3 DEF Task

\* What nobody reads any more stays unread.
LEMMA UnreadStays ==
    ASSUME TypeOK, [Next]_vars, NEW k \in Jobs, TaskInv(k), Unread(k)
    PROVE  Unread(k)'
  <1>1. jobs[k].state # "absent" /\ task[k].pc \in {"raised", "lost", "dead", "done"}
    BY DEF TaskInv, Unread
  <1>3. SuperviseExit(k) => task[k].pc = "wait"
    BY DEF SuperviseExit, Waited
  <1>4. CASE SuperviseFails(k)
    <2>1. jobs'[k].error = "exception" /\ task'[k].pc = "done"
      BY <1>4 DEF SuperviseFails, SetFailed, PopProcess, TypeOK, Row, Task
    <2> QED  BY <2>1 DEF Unread
  <1>5. CASE ~SuperviseFails(k)
    <2>1. jobs'[k].error = jobs[k].error
      BY <1>1, <1>3, <1>5, RowMoves
    <2>2. \/ task'[k] = task[k]
          \/ task'[k].pc \in {"lost", "dead"}
      BY <1>1, <1>3, <1>5, TaskMoves DEF TaskInv, Ends
    <2> QED  BY <2>1, <2>2 DEF Unread
  <1> QED  BY <1>4, <1>5

(***************************************************************************)
(* The worker, its pipe and the log.                                       *)
(***************************************************************************)

LogInv(j) ==
    /\ Increasing(job_events[j])
    /\ Recorded(j) \subseteq Output(j)
    /\ \A m \in Output(j), n \in Recorded(j) : m < n => m \in Recorded(j)
    /\ Unread(j) \/ Output(j) \subseteq Recorded(j) \cup InPipe(j)

\* What one step of the worker does to its position, its pipe and its output.
LEMMA WorkerMoves ==
    ASSUME TypeOK, NEW k \in Jobs, WorkerStep(k), PipeInv(k)
    PROVE  /\ worker[k].status = "alive"
           /\ worker'[k].script = worker[k].script
           /\ worker'[k].orphan = worker[k].orphan
           /\ \/ /\ worker'[k].pos = worker[k].pos + 1
                 /\ worker[k].pos < Len(worker[k].script)
                 /\ worker[k].orphan = FALSE
                 /\ worker'[k].stdout = Append(worker[k].stdout, worker[k].pos + 1)
                 /\ worker'[k].status = "alive"
                 /\ ~worker[k].closed /\ worker'[k].closed = worker[k].closed
                 /\ worker[k].script[worker[k].pos + 1] \in LineKinds
              \/ /\ worker'[k].pos = worker[k].pos + 1
                 /\ worker[k].pos < Len(worker[k].script)
                 /\ worker'[k].stdout = worker[k].stdout
                 /\ worker'[k].status = "alive"
                 /\ \/ /\ worker'[k].closed = worker[k].closed
                       /\ \/ worker[k].closed /\ worker[k].script[worker[k].pos + 1] \in LineKinds
                          \/ worker[k].script[worker[k].pos + 1] = "err"
                    \/ /\ worker'[k].closed = TRUE
                       /\ worker[k].script[worker[k].pos + 1] = "close"
              \/ /\ worker'[k].pos = worker[k].pos
                 /\ worker'[k].stdout = worker[k].stdout
                 /\ worker'[k].closed = worker[k].closed
                 /\ worker'[k].status = "exited"
  <1>1. worker \in [Jobs -> Worker] /\ worker[k] \in Worker /\ worker[k].closed \in BOOLEAN
        /\ worker[k].orphan \in BOOLEAN
    BY DEF TypeOK, Worker
  <1>2. CASE WorkerStdout(k)
    BY <1>1, <1>2 DEF WorkerStdout, AtOp, Worker
  <1>3. CASE WorkerStderr(k)
    BY <1>1, <1>3 DEF WorkerStderr, AtOp, Worker
  <1>4. CASE WorkerClose(k)
    BY <1>1, <1>4 DEF WorkerClose, AtOp, Worker
  <1>5. CASE WorkerBrokenPipe(k)
    BY <1>1, <1>5 DEF WorkerBrokenPipe, AtOp, Worker
  <1>6. CASE WorkerExit(k)
    BY <1>1, <1>6 DEF WorkerExit, Worker
  <1>7. CASE WorkerKilled(k)
    BY <1>1, <1>7 DEF WorkerKilled, Worker
  <1> QED  BY <1>2, <1>3, <1>4, <1>5, <1>6, <1>7 DEF WorkerStep

\* What is written goes into the pipe, and counts as output, iff it is a line
\* and stdout is still open.
LEMMA OutputMoves ==
    ASSUME TypeOK, NEW k \in Jobs, WorkerStep(k), PipeInv(k)
    PROVE  \/ /\ worker'[k].stdout = Append(worker[k].stdout, worker[k].pos + 1)
              /\ worker[k].orphan = FALSE
              /\ Piped(k)' = Piped(k) \cup {worker[k].pos + 1}
              /\ Output(k)' = IF Captured(worker[k].script[worker[k].pos + 1])
                              THEN Output(k) \cup {worker[k].pos + 1} ELSE Output(k)
           \/ /\ worker'[k].stdout = worker[k].stdout
              /\ Piped(k)' = Piped(k) /\ Output(k)' = Output(k)
  <1> DEFINE n == worker[k].pos + 1
             sc == worker[k].script
  <1>1. /\ worker[k].pos \in Nat /\ n \in Nat
        /\ 1..n = (1..worker[k].pos) \cup {n}
        /\ worker[k].closed <=> \E m \in 1..worker[k].pos : sc[m] = "close"
        /\ worker'[k].script = sc
    <2>1. worker[k].pos \in Nat
      BY DEF TypeOK, Worker
    <2>2. worker[k].closed <=> \E m \in 1..worker[k].pos : sc[m] = "close"
      BY DEF PipeInv
    <2>3. 1..n = (1..worker[k].pos) \cup {n}
      BY <2>1
    <2>4. worker'[k].script = worker[k].script
      BY WorkerMoves
    <2> QED  BY <2>1, <2>2, <2>3, <2>4
  <1>2. CASE /\ worker'[k].pos = n /\ ~worker[k].closed /\ sc[n] \in LineKinds
             /\ worker'[k].stdout = Append(worker[k].stdout, n)
             /\ worker[k].orphan = FALSE
    <2>1. \A m \in 1..n : sc[m] # "close"
      BY <1>1, <1>2 DEF LineKinds
    <2>2. \A i \in 1..n : \A m \in 1..i : sc[m] # "close"
      BY <1>1, <2>1
    <2>3. Piped(k)' = Piped(k) \cup {n}
      BY <1>1, <1>2, <2>2 DEF Piped
    <2>4. Output(k)' = IF Captured(sc[n]) THEN Output(k) \cup {n} ELSE Output(k)
      BY <1>1, <1>2, <2>2 DEF Output, Captured
    <2> QED  BY <1>2, <2>3, <2>4
  <1>3. CASE /\ worker'[k].pos = n /\ worker'[k].stdout = worker[k].stdout
             /\ \/ worker[k].closed /\ sc[n] \in LineKinds
                \/ sc[n] = "err" \/ sc[n] = "close"
    <2>1. \/ \E m \in 1..n : sc[m] = "close"
          \/ sc[n] \notin LineKinds /\ ~Captured(sc[n])
      BY <1>1, <1>3 DEF LineKinds, Captured
    <2>2. Piped(k)' = Piped(k)
      BY <1>1, <1>3, <2>1 DEF Piped
    <2>3. Output(k)' = Output(k)
      BY <1>1, <1>3, <2>1 DEF Output, Captured
    <2> QED  BY <1>3, <2>2, <2>3
  <1>4. CASE worker'[k].pos = worker[k].pos /\ worker'[k].stdout = worker[k].stdout
    BY <1>1, <1>4 DEF Piped, Output, Captured
  <1> QED  BY <1>2, <1>3, <1>4, WorkerMoves

\* Taking the first line out of the pipe.
LEMMA HeadOfPipe ==
    ASSUME TypeOK, NEW k \in Jobs, PipeInv(k), worker[k].stdout # <<>>,
           worker'[k] = [worker[k] EXCEPT !.stdout = Tail(@)]
    PROVE  LET h == Head(worker[k].stdout)
           IN  /\ h \in Nat /\ h \in InPipe(k) /\ h \in Piped(k)
               /\ InPipe(k) = {h} \cup InPipe(k)'
               /\ Increasing(worker'[k].stdout)
               /\ \A m \in InPipe(k)' : h < m
               /\ Piped(k)' = Piped(k) /\ Output(k)' = Output(k)
               /\ worker'[k].stdout \in Seq(Nat)
  <1>1. worker[k] \in Worker /\ worker[k].stdout \in Seq(Nat)
    BY DEF TypeOK, Worker
  <1>2. worker'[k].stdout = Tail(worker[k].stdout)
    BY <1>1 DEF Worker
  <1>3. worker'[k].pos = worker[k].pos /\ worker'[k].script = worker[k].script
    BY <1>1 DEF Worker
  <1>4. Head(worker[k].stdout) \in Nat /\ Tail(worker[k].stdout) \in Seq(Nat)
    BY <1>1
  <1>5. Piped(k)' = Piped(k) /\ Output(k)' = Output(k)
    BY <1>3 DEF Piped, Output
  <1>6. InPipe(k) = {Head(worker[k].stdout)} \cup InPipe(k)'
    BY <1>1, <1>2, <1>4, RangeFacts DEF InPipe
  <1>7. /\ Increasing(worker'[k].stdout)
        /\ \A m \in InPipe(k)' : Head(worker[k].stdout) < m
    BY <1>1, <1>2, <1>4, IncreasingFacts DEF InPipe, PipeInv
  <1>8. InPipe(k) \subseteq Piped(k)
    BY DEF PipeInv
  <1> QED  BY <1>2, <1>4, <1>5, <1>6, <1>7, <1>8

\* The pipe and the log stay in step with the worker.
LEMMA PipeNext ==
    ASSUME TypeOK, [Next]_vars, NEW k \in Jobs,
           TaskInv(k), PipeInv(k), LogInv(k), DrainedInv(k)
    PROVE  PipeInv(k)' /\ LogInv(k)'
  <1>1. /\ worker[k] \in Worker /\ worker[k].stdout \in Seq(Nat) /\ worker[k].pos \in Nat
        /\ worker[k].closed \in BOOLEAN /\ worker[k].orphan \in BOOLEAN
        /\ job_events[k] \in Seq(Nat)
        /\ Increasing(worker[k].stdout) /\ Increasing(job_events[k])
    BY DEF TypeOK, Worker, PipeInv, LogInv
  <1>2. ASSUME worker'[k] = worker[k], job_events'[k] = job_events[k]
        PROVE  PipeInv(k)' /\ LogInv(k)'
    <2>1. PipeInv(k)'
      BY <1>2 DEF PipeInv, InPipe, Piped, Recorded
    <2> QED  BY <1>2, <2>1, UnreadStays DEF LogInv, Recorded, InPipe, Output
  <1>3. ASSUME Starts(k)
        PROVE  PipeInv(k)' /\ LogInv(k)'
    <2>0. PICK cmd \in Cmds :
            /\ task[k].pc = "spawn" /\ job_events' = job_events
            /\ worker' = [worker EXCEPT ![k] =
                 [@ EXCEPT !.status = "alive", !.script = cmd.script, !.rc = cmd.rc]]
      BY <1>3 DEF Starts, Spawn, SpawnUnrecorded
    <2>1. /\ worker[k].pos = 0 /\ worker[k].stdout = <<>> /\ job_events[k] = <<>>
          /\ ~worker[k].closed
      BY <2>0 DEF TaskInv, PipeInv
    <2>2. /\ worker'[k].pos = 0 /\ worker'[k].stdout = <<>> /\ job_events'[k] = <<>>
          /\ ~worker'[k].closed /\ worker'[k].status = "alive"
          /\ worker'[k].script \in Seq(Ops)
      BY <1>1, <2>0, <2>1, CmdType DEF TypeOK, Worker
    <2>3. Len(worker'[k].script) \in Nat /\ 1..0 = {}
      BY <2>2
    <2>4. InPipe(k)' = {} /\ Recorded(k)' = {} /\ Output(k)' = {}
      BY <2>2, <2>3 DEF InPipe, Recorded, Output, Range
    <2>5. Increasing(<<>>)
      BY DEF Increasing
    <2> QED  BY <2>2, <2>3, <2>4, <2>5 DEF PipeInv, LogInv
  <1>4. ASSUME WorkerStep(k)
        PROVE  PipeInv(k)' /\ LogInv(k)'
    <2> DEFINE n == worker[k].pos + 1
    <2>1. job_events' = job_events /\ Unread(k)' = Unread(k)
      BY <1>4 DEF WorkerStep, Unread
    <2>9. worker'[k].orphan = worker[k].orphan
      BY <1>4, WorkerMoves
    <2>2. worker'[k].pos <= Len(worker'[k].script) /\ worker'[k].status # "none"
      <3>1. worker[k].pos <= Len(worker[k].script) /\ Len(worker[k].script) \in Nat
        BY <1>1 DEF PipeInv, Worker
      <3>2. worker'[k].script = worker[k].script
        BY <1>4, WorkerMoves
      <3>3. \/ worker'[k].pos = n /\ worker[k].pos < Len(worker[k].script)
            \/ worker'[k].pos = worker[k].pos
        BY <1>4, WorkerMoves
      <3>4. worker'[k].status \in {"alive", "exited"}
        BY <1>4, WorkerMoves
      <3> QED  BY <1>1, <3>1, <3>2, <3>3, <3>4
    <2>3. worker'[k].closed <=> \E m \in 1..worker'[k].pos : worker'[k].script[m] = "close"
      <3>1. 1..n = (1..worker[k].pos) \cup {n}
        BY <1>1
      <3>2. worker[k].closed <=> \E m \in 1..worker[k].pos : worker[k].script[m] = "close"
        BY DEF PipeInv
      <3>3. worker'[k].script = worker[k].script
        BY <1>4, WorkerMoves
      <3>4. \/ worker'[k].pos = worker[k].pos /\ worker'[k].closed = worker[k].closed
            \/ /\ worker'[k].pos = n /\ worker'[k].closed = worker[k].closed
               /\ worker[k].script[n] # "close"
            \/ worker'[k].pos = n /\ worker'[k].closed = TRUE /\ worker[k].script[n] = "close"
        BY <1>1, <1>4, WorkerMoves DEF LineKinds
      <3>5. CASE worker'[k].pos = worker[k].pos /\ worker'[k].closed = worker[k].closed
        BY <3>2, <3>3, <3>5
      <3>6. CASE /\ worker'[k].pos = n /\ worker'[k].closed = worker[k].closed
                 /\ worker[k].script[n] # "close"
        BY <3>1, <3>2, <3>3, <3>6
      <3>7. CASE worker'[k].pos = n /\ worker'[k].closed = TRUE /\ worker[k].script[n] = "close"
        BY <3>1, <3>3, <3>7
      <3> QED  BY <3>4, <3>5, <3>6, <3>7
    <2>4. \A m \in Piped(k) : m < n
      BY <1>1 DEF Piped
    <2>5. InPipe(k) \subseteq Piped(k) /\ Recorded(k) \subseteq Output(k)
          /\ Output(k) \subseteq Piped(k)
      BY DEF PipeInv, LogInv, Output, Piped, Captured, LineKinds
    <2>6. Recorded(k)' = Recorded(k)
      BY <2>1 DEF Recorded
    <2>7. CASE /\ worker'[k].stdout = worker[k].stdout
               /\ Piped(k)' = Piped(k) /\ Output(k)' = Output(k)
      <3>1. InPipe(k)' = InPipe(k)
        BY <2>7 DEF InPipe
      <3> QED  BY <2>1, <2>2, <2>3, <2>6, <2>7, <2>9, <3>1 DEF PipeInv, LogInv
    <2>8. CASE /\ worker'[k].stdout = Append(worker[k].stdout, n)
               /\ worker[k].orphan = FALSE
               /\ Piped(k)' = Piped(k) \cup {n}
               /\ Output(k)' = IF Captured(worker[k].script[n])
                               THEN Output(k) \cup {n} ELSE Output(k)
      <3>1. InPipe(k)' = InPipe(k) \cup {n}
        BY <1>1, <2>8, RangeFacts DEF InPipe
      <3>2. Increasing(worker'[k].stdout)
        BY <1>1, <2>4, <2>5, <2>8, IncreasingFacts DEF InPipe
      <3>3. \A l \in Recorded(k)', m \in InPipe(k)' : l < m
        BY <2>4, <2>5, <2>6, <3>1 DEF PipeInv
      <3>4. PipeInv(k)'
        BY <2>2, <2>3, <2>5, <2>8, <2>9, <3>1, <3>2, <3>3 DEF PipeInv
      <3>6. \A l \in Recorded(k) : l < n /\ ~(n < l)
        BY <1>1, <2>4, <2>5 DEF Piped
      <3>5. LogInv(k)'
        BY <2>1, <2>6, <2>8, <3>1, <3>6 DEF LogInv
      <3> QED  BY <3>4, <3>5
    <2> QED  BY <1>4, <2>7, <2>8, OutputMoves
  <1>5. ASSUME DrainLine(k)
        PROVE  PipeInv(k)' /\ LogInv(k)'
    <2> DEFINE h == Head(worker[k].stdout)
    <2>1. /\ worker[k].stdout # <<>>
          /\ worker'[k] = [worker[k] EXCEPT !.stdout = Tail(@)]
      BY <1>1, <1>5 DEF DrainLine, TypeOK
    <2>7. ~Unread(k) /\ Unread(k)' = Unread(k) /\ ~worker[k].orphan
      BY <1>5, <2>1 DEF DrainLine, Unread, PipeInv
    <2>8. Output(k) \subseteq Recorded(k) \cup InPipe(k)
      BY <2>7 DEF LogInv
    <2>2. /\ h \in Nat /\ h \in InPipe(k) /\ h \in Piped(k)
          /\ InPipe(k) = {h} \cup InPipe(k)'
          /\ Increasing(worker'[k].stdout)
          /\ \A m \in InPipe(k)' : h < m
          /\ Piped(k)' = Piped(k) /\ Output(k)' = Output(k)
      BY <2>1, HeadOfPipe
    <2>3. /\ worker'[k].pos = worker[k].pos /\ worker'[k].script = worker[k].script
          /\ worker'[k].closed = worker[k].closed /\ worker'[k].status = worker[k].status
          /\ worker'[k].orphan = worker[k].orphan
      BY <1>1, <2>1 DEF Worker
    <2>4. worker[k].status # "none"
      BY <1>5 DEF DrainLine, TaskInv
    <2>5. CASE Captured(worker[k].script[h])
      <3>1. job_events'[k] = Append(job_events[k], h)
        BY <1>1, <1>5, <2>5 DEF DrainLine, NextKind, AppendEvent, TypeOK
      <3>2. Recorded(k)' = Recorded(k) \cup {h}
        BY <1>1, <2>2, <3>1, RangeFacts DEF Recorded
      <3>3. \A m \in Recorded(k) : m < h
        BY <2>2 DEF PipeInv
      <3>4. Increasing(job_events'[k])
        BY <1>1, <2>2, <3>1, <3>3, IncreasingFacts DEF Recorded
      <3>5. \A l \in Recorded(k)', m \in InPipe(k)' : l < m
        BY <2>2, <3>2 DEF PipeInv
      <3>6. h \in Output(k)
        BY <2>2, <2>5 DEF Piped, Output
      <3>7. PipeInv(k)'
        BY <2>2, <2>3, <2>4, <2>7, <3>5 DEF PipeInv
      <3>9. ASSUME NEW m \in Output(k), m < h
            PROVE  m \in Recorded(k)
        <4>1. m \in Nat
          BY <1>1 DEF Output
        <4>2. m \notin InPipe(k)
          BY <2>2, <3>9, <4>1
        <4> QED  BY <2>8, <4>2
      <3>10. \A m \in Output(k)', n \in Recorded(k)' : m < n => m \in Recorded(k)'
        BY <2>2, <3>2, <3>9 DEF LogInv
      <3>11. Output(k)' \subseteq Recorded(k)' \cup InPipe(k)'
        BY <2>2, <2>8, <3>2
      <3>8. LogInv(k)'
        BY <2>2, <3>2, <3>4, <3>6, <3>10, <3>11 DEF LogInv
      <3> QED  BY <3>7, <3>8
    <2>6. CASE ~Captured(worker[k].script[h])
      <3>1. job_events' = job_events
        BY <1>5, <2>6 DEF DrainLine, NextKind
      <3>2. Recorded(k)' = Recorded(k)
        BY <3>1 DEF Recorded
      <3>3. h \notin Output(k)
        BY <2>6 DEF Output
      <3>4. PipeInv(k)'
        BY <2>2, <2>3, <2>4, <2>7, <3>2 DEF PipeInv
      <3>5. LogInv(k)'
        BY <2>2, <2>8, <3>1, <3>2, <3>3 DEF LogInv
      <3> QED  BY <3>4, <3>5
    <2> QED  BY <2>5, <2>6
  <1>6. ASSUME DrainRaises(k)
        PROVE  PipeInv(k)' /\ LogInv(k)'
    <2>1. /\ worker[k].stdout # <<>>
          /\ worker'[k] = [worker[k] EXCEPT !.stdout = Tail(@)]
          /\ job_events' = job_events
      BY <1>1, <1>6 DEF DrainRaises, TypeOK
    <2>2. /\ InPipe(k) = {Head(worker[k].stdout)} \cup InPipe(k)'
          /\ Increasing(worker'[k].stdout)
          /\ Piped(k)' = Piped(k) /\ Output(k)' = Output(k)
      BY <2>1, HeadOfPipe
    <2>3. /\ worker'[k].pos = worker[k].pos /\ worker'[k].script = worker[k].script
          /\ worker'[k].closed = worker[k].closed /\ worker'[k].status = worker[k].status
          /\ worker'[k].orphan = worker[k].orphan
      BY <1>1, <2>1 DEF Worker
    <2>4. worker[k].status # "none" /\ ~worker[k].orphan
      BY <1>6 DEF DrainRaises, TaskInv
    <2>5. Unread(k)'
      BY <1>6 DEF DrainRaises, TypeOK, Task, Unread
    <2>6. Recorded(k)' = Recorded(k)
      BY <2>1 DEF Recorded
    <2>7. PipeInv(k)'
      BY <2>2, <2>3, <2>4, <2>6 DEF PipeInv
    <2>8. LogInv(k)'
      BY <2>1, <2>2, <2>5, <2>6 DEF LogInv
    <2> QED  BY <2>7, <2>8
  <1>7. ASSUME NEW c \in Cancels, cancels[c].job = k, CancelSignal(c)
        PROVE  PipeInv(k)' /\ LogInv(k)'
    <2>1. /\ worker'[k].pos = worker[k].pos /\ worker'[k].script = worker[k].script
          /\ worker'[k].closed = worker[k].closed /\ worker'[k].status = worker[k].status
          /\ worker'[k].stdout = worker[k].stdout /\ worker'[k].orphan = worker[k].orphan
      BY <1>1, <1>7 DEF CancelSignal, TypeOK, Worker
    <2>2. job_events' = job_events /\ Unread(k)' = Unread(k)
      BY <1>7 DEF CancelSignal, Unread
    <2> QED  BY <2>1, <2>2 DEF PipeInv, LogInv, InPipe, Recorded, Output, Piped
  <1>8. ASSUME AppDies(k)
        PROVE  PipeInv(k)' /\ LogInv(k)'
    <2>1. /\ worker'[k].pos = worker[k].pos /\ worker'[k].script = worker[k].script
          /\ worker'[k].closed = worker[k].closed /\ worker'[k].status = worker[k].status
          /\ worker'[k].stdout = <<>>
          /\ job_events' = job_events /\ jobs' = jobs
      BY <1>1, <1>8 DEF AppDies, RunnerCrash, Worker
    <2>2. Recorded(k)' = Recorded(k) /\ Output(k)' = Output(k) /\ InPipe(k)' = {}
      BY <2>1 DEF Recorded, Output, InPipe, Range
    <2>3. Increasing(<<>>)
      BY DEF Increasing
    <2>4. PipeInv(k)'
      BY <2>1, <2>2, <2>3 DEF PipeInv
    <2>5. CASE task[k].pc # "done"
      <3>1. Unread(k)'
        BY <1>8, <2>5, TaskDies DEF Unread
      <3> QED  BY <2>1, <2>2, <2>4, <3>1 DEF LogInv
    <2>6. CASE Unread(k)
      BY <2>1, <2>2, <2>4, <2>6, UnreadStays DEF LogInv
    <2>7. CASE task[k].pc = "done" /\ ~Unread(k)
      <3>1. Output(k) \subseteq Recorded(k) \cup InPipe(k)
        BY <2>7 DEF LogInv
      <3>2. worker[k].status \in {"none", "exited"}
        BY <1>1, <2>7 DEF TaskInv, Unread, Worker
      <3>3. worker[k].stdout = <<>>
        BY <2>7, <3>2 DEF DrainedInv, PipeInv, Unread
      <3>4. InPipe(k) = {}
        BY <3>3 DEF InPipe, Range
      <3>5. Output(k)' \subseteq Recorded(k)' \cup InPipe(k)'
        BY <2>2, <3>1, <3>4
      <3> QED  BY <2>1, <2>2, <2>4, <3>5 DEF LogInv
    <2> QED  BY <2>4, <2>5, <2>6, <2>7
  <1> QED  BY <1>2, <1>3, <1>4, <1>5, <1>6, <1>7, <1>8, WhoWritesWorker

(***************************************************************************)
(* The moves of a subprocess and of a call of cancel.                      *)
(***************************************************************************)

\* A subprocess is started once and exits once; nothing else moves its status,
\* and its exit code is fixed when it has exited.
LEMMA StatusMoves ==
    ASSUME TypeOK, [Next]_vars, NEW k \in Jobs, PipeInv(k)
    PROVE  \/ /\ worker'[k].status = worker[k].status /\ worker'[k].rc = worker[k].rc
              /\ ~Starts(k)
           \/ Starts(k) /\ worker'[k].status = "alive"
           \/ worker[k].status = "alive" /\ WorkerStep(k)
  <1>1. worker \in [Jobs -> Worker] /\ worker[k] \in Worker
    BY DEF TypeOK
  <1>2. ASSUME Starts(k)
        PROVE  worker'[k].status = "alive"
    BY <1>1, <1>2 DEF Starts, Spawn, SpawnUnrecorded, Worker
  <1>3. CASE WorkerStep(k)
    BY <1>3, WorkerMoves
  <1>4. CASE DrainLine(k)
    BY <1>1, <1>2, <1>4 DEF DrainLine, Worker
  <1>5. CASE DrainRaises(k)
    BY <1>1, <1>2, <1>5 DEF DrainRaises, Worker
  <1>8. CASE AppDies(k)
    BY <1>1, <1>2, <1>8 DEF AppDies, RunnerCrash, Worker
  <1>6. CASE \E c \in Cancels : cancels[c].job = k /\ CancelSignal(c)
    BY <1>1, <1>2, <1>6 DEF CancelSignal, Worker
  <1>7. CASE worker'[k] = worker[k] /\ job_events'[k] = job_events[k]
    BY <1>2, <1>7
  <1> QED  BY <1>2, <1>3, <1>4, <1>5, <1>6, <1>7, <1>8, WhoWritesWorker

\* Only its app's death takes the reading ends of a worker's pipes away.
LEMMA OrphanMoves ==
    ASSUME TypeOK, [Next]_vars, NEW k \in Jobs, PipeInv(k)
    PROVE  worker'[k].orphan = worker[k].orphan \/ AppDies(k)
  <1>1. worker \in [Jobs -> Worker] /\ worker[k] \in Worker
    BY DEF TypeOK
  <1>2. Starts(k) => worker'[k].orphan = worker[k].orphan
    BY StartEffect
  <1>3. WorkerStep(k) => worker'[k].orphan = worker[k].orphan
    BY WorkerMoves
  <1>4. DrainLine(k) \/ DrainRaises(k) => worker'[k].orphan = worker[k].orphan
    BY <1>1 DEF DrainLine, DrainRaises, Worker
  <1>5. ASSUME NEW c \in Cancels, cancels[c].job = k, CancelSignal(c)
        PROVE  worker'[k].orphan = worker[k].orphan
    BY <1>1, <1>5 DEF CancelSignal, Worker
  <1> QED  BY <1>2, <1>3, <1>4, <1>5, WhoWritesWorker

\* Who takes a job out of a runner's dict.
LEMMA WhoDropsProcess ==
    ASSUME TypeOK, [Next]_vars, NEW k \in Jobs, NEW r \in Runners, k \in processes[r]
    PROVE  \/ k \in processes'[r]
           \/ Ends(k) \/ SuperviseLost(k) \/ RunnerCrash(r)
  <1>1. ASSUME NEW j \in Jobs, Starts(j) \/ Ends(j) \/ SuperviseLost(j)
        PROVE  k \in processes'[r] \/ Ends(k) \/ SuperviseLost(k)
    <2>1. ASSUME Starts(j)
          PROVE  k \in processes'[r]
      <3>1. processes' = [processes EXCEPT ![task[j].runner] = @ \cup {j}]
        BY <2>1, StartEffect
      <3>2. processes \in [Runners -> SUBSET Jobs]
        BY DEF TypeOK
      <3> QED  BY <3>1, <3>2
    <2>2. ASSUME Ends(j) \/ SuperviseLost(j), j # k
          PROVE  k \in processes'[r]
      <3>1. processes' = [processes EXCEPT ![task[j].runner] = @ \ {j}]
        BY <2>2 DEF Ends, SuperviseExit, SuperviseFails, SuperviseLost, PopProcess
      <3>2. processes \in [Runners -> SUBSET Jobs]
        BY DEF TypeOK
      <3>3. processes'[r] = processes[r] \/ processes'[r] = processes[r] \ {j}
        BY <3>1, <3>2
      <3> QED  BY <2>2, <3>3
    <2> QED  BY <1>1, <2>1, <2>2
  <1>2. ASSUME NEW q \in Runners, RunnerCrash(q)
        PROVE  k \in processes'[r] \/ RunnerCrash(r)
    BY <1>2 DEF RunnerCrash, TypeOK
  <1>3. ASSUME \/ \E q \in Runners, j \in Jobs : Submit(q, j) \/ SubmitWithProcess(q, j)
               \/ \E j \in Jobs : \/ SpawnFails(j) \/ WorkerStep(j) \/ DrainLine(j)
                                  \/ DrainRaises(j) \/ DrainEnd(j)
               \/ \E c \in Cancels, q \in Runners, j \in Jobs : CancelCheck(c, q, j)
               \/ \E c \in Cancels : CancelSignal(c) \/ CancelWrite(c) \/ CancelRaises(c)
               \/ \E s \in Streams, q \in Runners, j \in Jobs : StreamOpen(s, q, j)
               \/ \E s \in Streams : StreamPoll(s) \/ StreamRaises(s)
               \/ \E q \in Runners : RunnerStart(q)
               \/ UNCHANGED vars
        PROVE  k \in processes'[r]
    BY <1>3 DEF Submit, SubmitWithProcess, SpawnFails, WorkerStep, DrainLine, DrainRaises,
                DrainEnd, CancelCheck, CancelSignal, CancelWrite, CancelRaises, StreamOpen,
                StreamPoll, StreamRaises, RunnerStart, vars
  <1> QED  BY <1>1, <1>2, <1>3 DEF Next, Starts, Ends

\* Only the start of its worker puts a job into a runner's dict.
LEMMA WhoAddsProcess ==
    ASSUME TypeOK, [Next]_vars, NEW k \in Jobs, NEW r \in Runners, k \notin processes[r]
    PROVE  k \notin processes'[r] \/ Starts(k)
  <1>1. ASSUME NEW j \in Jobs, Starts(j), j # k
        PROVE  k \notin processes'[r]
    <2>1. processes' = [processes EXCEPT ![task[j].runner] = @ \cup {j}]
      BY <1>1, StartEffect
    <2>2. processes \in [Runners -> SUBSET Jobs]
      BY DEF TypeOK
    <2>3. processes'[r] = processes[r] \/ processes'[r] = processes[r] \cup {j}
      BY <2>1, <2>2
    <2> QED  BY <1>1, <2>3
  <1>2. ASSUME NEW j \in Jobs, Ends(j) \/ SuperviseLost(j)
        PROVE  k \notin processes'[r]
    <2>1. processes' = [processes EXCEPT ![task[j].runner] = @ \ {j}]
      BY <1>2 DEF Ends, SuperviseExit, SuperviseFails, SuperviseLost, PopProcess
    <2>2. processes \in [Runners -> SUBSET Jobs]
      BY DEF TypeOK
    <2>3. processes'[r] = processes[r] \/ processes'[r] = processes[r] \ {j}
      BY <2>1, <2>2
    <2> QED  BY <2>3
  <1>3. ASSUME NEW q \in Runners, RunnerCrash(q)
        PROVE  k \notin processes'[r]
    BY <1>3 DEF RunnerCrash, TypeOK
  <1>4. ASSUME \/ \E q \in Runners, j \in Jobs : Submit(q, j) \/ SubmitWithProcess(q, j)
               \/ \E j \in Jobs : \/ SpawnFails(j) \/ WorkerStep(j) \/ DrainLine(j)
                                  \/ DrainRaises(j) \/ DrainEnd(j)
               \/ \E c \in Cancels, q \in Runners, j \in Jobs : CancelCheck(c, q, j)
               \/ \E c \in Cancels : CancelSignal(c) \/ CancelWrite(c) \/ CancelRaises(c)
               \/ \E s \in Streams, q \in Runners, j \in Jobs : StreamOpen(s, q, j)
               \/ \E s \in Streams : StreamPoll(s) \/ StreamRaises(s)
               \/ \E q \in Runners : RunnerStart(q)
               \/ UNCHANGED vars
        PROVE  k \notin processes'[r]
    BY <1>4 DEF Submit, SubmitWithProcess, SpawnFails, WorkerStep, DrainLine, DrainRaises,
                DrainEnd, CancelCheck, CancelSignal, CancelWrite, CancelRaises, StreamOpen,
                StreamPoll, StreamRaises, RunnerStart, vars
  <1> QED  BY <1>1, <1>2, <1>3, <1>4 DEF Next, Starts, Ends

\* The life of one call of cancel().
LEMMA CancelMoves ==
    ASSUME TypeOK, [Next]_vars, NEW c \in Cancels
    PROVE  \/ cancels'[c] = cancels[c]
           \/ /\ cancels[c].pc = "idle"
              /\ \E r \in Runners, j \in Jobs :
                   /\ CancelCheck(c, r, j)
                   /\ cancels'[c].job = j /\ cancels'[c].runner = r
                   /\ cancels'[c].pc \in {"noop", "checked"}
           \/ /\ CancelSignal(c) /\ cancels'[c].job = cancels[c].job
              /\ cancels'[c].runner = cancels[c].runner
              /\ cancels[c].pc = "checked" /\ cancels'[c].pc = "waiting"
           \/ /\ CancelWrite(c) /\ cancels'[c].job = cancels[c].job
              /\ cancels'[c].runner = cancels[c].runner
              /\ cancels[c].pc \in {"checked", "waiting"} /\ cancels'[c].pc = "done"
           \/ /\ CancelRaises(c) \/ \E r \in Runners : RunnerCrash(r)
              /\ cancels'[c].job = cancels[c].job /\ cancels'[c].runner = cancels[c].runner
              /\ cancels[c].pc \notin {"done", "noop"} /\ cancels'[c].pc = "dead"
  <1>1. cancels \in [Cancels -> Cancel] /\ cancels[c] \in Cancel
    BY DEF TypeOK
  <1>2. ASSUME NEW d \in Cancels, NEW r \in Runners, NEW j \in Jobs, CancelCheck(d, r, j)
        PROVE  \/ cancels'[c] = cancels[c]
               \/ /\ CancelCheck(c, r, j) /\ cancels[c].pc = "idle"
                  /\ cancels'[c].job = j /\ cancels'[c].runner = r
                  /\ cancels'[c].pc \in {"noop", "checked"}
    <2>1. CASE d # c
      BY <1>1, <1>2, <2>1 DEF CancelCheck
    <2>2. CASE d = c
      <3>1. /\ cancels[c].pc = "idle"
            /\ cancels'[c].job = j /\ cancels'[c].runner = r
            /\ cancels'[c].pc \in {"noop", "checked"}
        BY <1>1, <1>2, <2>2 DEF CancelCheck
      <3> QED  BY <1>2, <2>2, <3>1
    <2> QED  BY <2>1, <2>2
  <1>3. ASSUME NEW d \in Cancels, CancelSignal(d)
        PROVE  \/ cancels'[c] = cancels[c]
               \/ /\ CancelSignal(c) /\ cancels'[c].job = cancels[c].job
                  /\ cancels'[c].runner = cancels[c].runner
                  /\ cancels[c].pc = "checked" /\ cancels'[c].pc = "waiting"
    BY <1>1, <1>3 DEF CancelSignal, Cancel
  <1>4. ASSUME NEW d \in Cancels, CancelWrite(d)
        PROVE  \/ cancels'[c] = cancels[c]
               \/ /\ CancelWrite(c) /\ cancels'[c].job = cancels[c].job
                  /\ cancels'[c].runner = cancels[c].runner
                  /\ cancels[c].pc \in {"checked", "waiting"} /\ cancels'[c].pc = "done"
    BY <1>1, <1>4 DEF CancelWrite, CancelMayWrite, Cancel
  <1>5. ASSUME NEW r \in Runners, RunnerCrash(r)
        PROVE  \/ cancels'[c] = cancels[c]
               \/ /\ cancels'[c].job = cancels[c].job /\ cancels'[c].runner = cancels[c].runner
                  /\ cancels[c].pc \notin {"done", "noop"} /\ cancels'[c].pc = "dead"
    <2>1. cancels'[c] = Die(cancels[c], r)
      BY <1>5 DEF RunnerCrash
    <2> QED  BY <1>1, <2>1 DEF Die, Cancel
  <1>7. ASSUME NEW d \in Cancels, CancelRaises(d)
        PROVE  \/ cancels'[c] = cancels[c]
               \/ /\ CancelRaises(c) /\ cancels'[c].job = cancels[c].job
                  /\ cancels'[c].runner = cancels[c].runner
                  /\ cancels[c].pc \notin {"done", "noop"} /\ cancels'[c].pc = "dead"
                  /\ cancels[c].pc # "idle"
    BY <1>1, <1>7 DEF CancelRaises, CancelMayWrite, Cancel
  <1>6. ASSUME \/ \E r \in Runners, j \in Jobs : Submit(r, j) \/ SubmitWithProcess(r, j)
               \/ \E j \in Jobs, cmd \in Cmds : Spawn(j, cmd) \/ SpawnUnrecorded(j, cmd)
               \/ \E j \in Jobs : \/ SpawnFails(j) \/ WorkerStep(j) \/ DrainLine(j)
                                  \/ DrainRaises(j) \/ DrainEnd(j) \/ SuperviseExit(j)
                                  \/ SuperviseFails(j) \/ SuperviseLost(j)
               \/ \E s \in Streams, r \in Runners, j \in Jobs : StreamOpen(s, r, j)
               \/ \E s \in Streams : StreamPoll(s) \/ StreamRaises(s)
               \/ \E r \in Runners : RunnerStart(r)
               \/ UNCHANGED vars
        PROVE  cancels'[c] = cancels[c]
    BY <1>6 DEF Submit, SubmitWithProcess, Spawn, SpawnUnrecorded, SpawnFails, WorkerStep,
                DrainLine, DrainRaises, DrainEnd, SuperviseExit, SuperviseFails, SuperviseLost,
                StreamOpen, StreamPoll, StreamRaises, RunnerStart, vars
  <1> QED  BY <1>2, <1>3, <1>4, <1>5, <1>6, <1>7 DEF Next

\* A cancel that has touched a job, or has written its row, stays on record.
LEMMA TouchedStays ==
    ASSUME TypeOK, [Next]_vars, NEW k \in Jobs
    PROVE  /\ Touched(k) => Touched(k)'
           /\ CancelledSomewhere(k) => CancelledSomewhere(k)'
           /\ CancelledElsewhere(k) /\ task'[k].runner = task[k].runner
              => CancelledElsewhere(k)'
  <1>1. ASSUME NEW c \in Cancels, cancels[c].pc \notin {"idle", "noop"}
        PROVE  /\ cancels'[c].job = cancels[c].job
               /\ cancels'[c].runner = cancels[c].runner
               /\ cancels'[c].pc \notin {"idle", "noop"}
               /\ cancels[c].pc = "done" => cancels'[c].pc = "done"
    BY <1>1, CancelMoves
  <1> QED  BY <1>1 DEF Touched, CancelledSomewhere, CancelledElsewhere

(***************************************************************************)
(* The parts of the invariant that speak of one job.                       *)
(***************************************************************************)

\* The task of a job, its worker and its place in _processes stay in step.
LEMMA TaskNext ==
    ASSUME TypeOK, TypeOK', [Next]_vars, NEW k \in Jobs, TaskInv(k), PipeInv(k)
    PROVE  TaskInv(k)'
  <1>1. (task'[k].pc # "none") <=> (task'[k].runner \in Runners)
    BY TaskMoves DEF TaskInv
  <1>2. task'[k].pc \in {"none", "spawn"} => worker'[k].status = "none"
    <2> SUFFICES ASSUME task'[k].pc \in {"none", "spawn"} PROVE worker'[k].status = "none"
      OBVIOUS
    <2>1. CASE UNCHANGED worker /\ jobs[k].state = "absent"
      BY <2>1 DEF TaskInv
    <2>2. CASE task'[k] = task[k]
      <3>1. worker[k].status = "none"
        BY <2>2 DEF TaskInv
      <3>2. ~Starts(k)
        <4>1. Starts(k) => task'[k].pc \in {"drain", "lost"}
          BY DEF Starts, Spawn, SpawnUnrecorded, TypeOK, Task
        <4> QED  BY <4>1
      <3> QED  BY <3>1, <3>2, StatusMoves
    <2> QED  BY <2>1, <2>2, TaskMoves
  <1>3. task'[k].pc \in {"drain", "raised", "wait"}
        => worker'[k].status # "none" /\ k \in processes'[task'[k].runner]
    <2> SUFFICES ASSUME task'[k].pc \in {"drain", "raised", "wait"}
                 PROVE  worker'[k].status # "none" /\ k \in processes'[task'[k].runner]
      OBVIOUS
    <2>1. ASSUME Starts(k)
          PROVE  worker'[k].status # "none" /\ k \in processes'[task'[k].runner]
      <3>1. task[k].runner \in Runners /\ task'[k].runner = task[k].runner
        BY <2>1, StartEffect DEF TaskInv
      <3>2. k \in processes'[task[k].runner]
        <4>1. processes' = [processes EXCEPT ![task[k].runner] = @ \cup {k}]
          BY <2>1, StartEffect
        <4>2. processes \in [Runners -> SUBSET Jobs]
          BY DEF TypeOK
        <4> QED  BY <3>1, <4>1, <4>2
      <3>3. worker'[k].status = "alive"
        BY <2>1, StartEffect
      <3> QED  BY <3>1, <3>2, <3>3
    <2>2. ASSUME task[k].pc \in {"drain", "raised", "wait"}, task'[k].runner = task[k].runner
          PROVE  worker'[k].status # "none" /\ k \in processes'[task'[k].runner]
      <3>1. worker[k].status # "none" /\ k \in processes[task[k].runner]
            /\ task[k].runner \in Runners
        BY <2>2 DEF TaskInv
      <3>2. worker'[k].status # "none"
        BY <2>1, <3>1, StatusMoves, WorkerMoves
      <3>3. ~Ends(k) /\ ~SuperviseLost(k)
        <4>1. /\ Ends(k) => task'[k].pc = "done"
              /\ SuperviseLost(k) => task'[k].pc = "lost"
          BY DEF Ends, SuperviseExit, SuperviseFails, SuperviseLost, PopProcess, TypeOK, Task
        <4> QED  BY <4>1
      <3>4. ~RunnerCrash(task[k].runner)
        <4>1. RunnerCrash(task[k].runner) => task'[k].pc = "dead"
          BY <2>2, <3>1, TaskDies DEF AppDies
        <4> QED  BY <4>1
      <3>5. k \in processes'[task[k].runner]
        BY <3>1, <3>3, <3>4, WhoDropsProcess
      <3> QED  BY <2>2, <3>2, <3>5
    <2>3. \/ Starts(k)
          \/ /\ task[k].pc \in {"drain", "raised", "wait"}
             /\ task'[k].runner = task[k].runner
      BY TaskMoves
    <2> QED  BY <2>1, <2>2, <2>3
  <1>4. task'[k].pc # "done" => jobs'[k].error = "none"
    <2>1. jobs'[k].error = jobs[k].error \/ Ends(k)
      BY RowMoves DEF Ends
    <2>2. Ends(k) => task'[k].pc = "done"
      BY DEF Ends, SuperviseExit, SuperviseFails, PopProcess, TypeOK, Task
    <2>3. \/ task[k].pc # "done"
          \/ task'[k].pc = "done"
          \/ jobs[k].state = "absent"
      BY TaskMoves
    <2> QED  BY <2>1, <2>2, <2>3 DEF TaskInv
  <1>7. task'[k].pc \in {"none", "spawn", "drain", "wait"} => ~worker'[k].orphan
    <2> SUFFICES ASSUME task'[k].pc \in {"none", "spawn", "drain", "wait"}
                 PROVE  ~worker'[k].orphan
      OBVIOUS
    <2>1. task[k].pc \in {"none", "spawn", "drain", "wait"}
      BY TaskMoves DEF TaskInv
    <2>2. ~AppDies(k)
      <3>1. ASSUME AppDies(k)
            PROVE  task'[k].pc = "dead"
        BY <2>1, <3>1, TaskDies
      <3> QED  BY <3>1
    <2>3. worker'[k].orphan = worker[k].orphan
      BY <2>2, OrphanMoves
    <2> QED  BY <2>1, <2>3 DEF TaskInv
  <1>5. task'[k].pc = "done" /\ worker'[k].status = "alive" => jobs'[k].error = "exception"
    <2> SUFFICES ASSUME task'[k].pc = "done", worker'[k].status = "alive"
                 PROVE  jobs'[k].error = "exception"
      OBVIOUS
    <2>1. ~Starts(k)
      BY StartEffect
    <2>2. worker[k].status = "alive"
      BY <2>1, StatusMoves
    <2>3. CASE task[k].pc = "done"
      <3>1. jobs[k].error = "exception"
        BY <2>2, <2>3 DEF TaskInv
      <3>2. ~SuperviseExit(k)
        BY <2>3 DEF SuperviseExit, Waited
      <3> QED  BY <3>1, <3>2, RowMoves
    <2>4. CASE SpawnFails(k)
      BY <2>2, <2>4 DEF SpawnFails, TaskInv
    <2>5. CASE SuperviseExit(k)
      BY <2>2, <2>5 DEF SuperviseExit, Waited
    <2>6. CASE SuperviseFails(k)
      BY <2>6 DEF SuperviseFails, SetFailed, TypeOK, Row
    <2> QED  BY <2>3, <2>4, <2>5, <2>6, TaskMoves DEF Ends
  <1>6. jobs'[k].state = "absent" => task'[k].pc = "none"
    <2> SUFFICES ASSUME jobs'[k].state = "absent" PROVE task'[k].pc = "none"
      OBVIOUS
    <2>1. jobs[k].state = "absent"
      BY RowMoves
    <2>2. task[k].pc = "none" /\ task[k].runner \notin Runners
      BY <2>1 DEF TaskInv
    <2> QED  BY <2>2, TaskMoves
  <1> QED  BY <1>1, <1>2, <1>3, <1>4, <1>5, <1>6, <1>7 DEF TaskInv

\* A pipe at its end of file stays there: nothing is written or recorded any
\* more, and an exited worker keeps its exit code and its output.
LEMMA QuietStays ==
    ASSUME TypeOK, [Next]_vars, NEW k \in Jobs, TaskInv(k), PipeInv(k),
           worker[k].stdout = <<>>, worker[k].closed \/ worker[k].status = "exited"
    PROVE  /\ worker'[k].stdout = <<>>
           /\ worker'[k].closed \/ worker'[k].status = "exited"
           /\ job_events'[k] = job_events[k]
           /\ worker[k].status = "exited" => /\ worker'[k].status = "exited"
                                             /\ worker'[k].rc = worker[k].rc
                                             /\ Output(k)' = Output(k)
  <1>1. worker[k] \in Worker /\ worker[k].closed \in BOOLEAN
    BY DEF TypeOK, Worker
  <1>2. CASE worker'[k] = worker[k] /\ job_events'[k] = job_events[k]
    BY <1>2 DEF Output
  <1>3. ~Starts(k)
    BY DEF Starts, Spawn, SpawnUnrecorded, TaskInv, PipeInv
  <1>4. CASE WorkerStep(k)
    <2>1. worker[k].status = "alive" /\ worker[k].closed
      BY <1>4, WorkerMoves
    <2>2. worker'[k].stdout = <<>> /\ worker'[k].closed
      BY <1>4, <2>1, WorkerMoves
    <2>3. job_events'[k] = job_events[k]
      BY <1>4 DEF WorkerStep
    <2> QED  BY <2>1, <2>2, <2>3
  <1>5. ~DrainLine(k) /\ ~DrainRaises(k)
    BY DEF DrainLine, DrainRaises
  <1>6. ASSUME NEW c \in Cancels, cancels[c].job = k, CancelSignal(c)
        PROVE  /\ worker'[k].stdout = worker[k].stdout /\ worker'[k].closed = worker[k].closed
               /\ worker'[k].status = worker[k].status /\ worker'[k].rc = worker[k].rc
               /\ worker'[k].pos = worker[k].pos /\ worker'[k].script = worker[k].script
               /\ job_events'[k] = job_events[k]
    BY <1>1, <1>6 DEF CancelSignal, TypeOK, Worker
  <1>7. CASE \E c \in Cancels : cancels[c].job = k /\ CancelSignal(c)
    BY <1>6, <1>7 DEF Output
  <1>8. CASE AppDies(k)
    <2>1. /\ worker'[k].stdout = <<>> /\ worker'[k].closed = worker[k].closed
          /\ worker'[k].status = worker[k].status /\ worker'[k].rc = worker[k].rc
          /\ worker'[k].pos = worker[k].pos /\ worker'[k].script = worker[k].script
          /\ job_events'[k] = job_events[k]
      BY <1>1, <1>8 DEF AppDies, RunnerCrash, Worker
    <2> QED  BY <2>1 DEF Output
  <1> QED  BY <1>2, <1>3, <1>4, <1>5, <1>7, <1>8, WhoWritesWorker

VerdictInv(j) ==
    jobs[j].state = "succeeded" \/ (jobs[j].state = "failed" /\ jobs[j].error = "exit")
    => /\ worker[j].status = "exited"
       /\ worker[j].rc = (IF jobs[j].state = "succeeded" THEN "zero" ELSE "nonzero")
       /\ Output(j) = Recorded(j)

\* Past the drain nothing is left to read, and a verdict stays true.
LEMMA DrainedNext ==
    ASSUME TypeOK, [Next]_vars, NEW k \in Jobs,
           TaskInv(k), PipeInv(k), LogInv(k), DrainedInv(k), VerdictInv(k)
    PROVE  DrainedInv(k)' /\ VerdictInv(k)'
  <1> DEFINE verdict == \/ jobs[k].state = "succeeded"
                        \/ jobs[k].state = "failed" /\ jobs[k].error = "exit"
             quiet == /\ worker[k].stdout = <<>>
                      /\ worker[k].closed \/ worker[k].status = "exited"
             over == /\ task[k].pc = "done" /\ worker[k].status = "exited"
                     /\ jobs[k].error # "exception"
  <1>1. quiet => quiet'
    BY QuietStays
  <1>2. task'[k].pc = "wait" => quiet'
    <2>1. CASE DrainEnd(k)
      BY <2>1 DEF DrainEnd, AtEof
    <2>2. CASE task[k].pc = "wait"
      BY <1>1, <2>2 DEF DrainedInv
    <2>3. task'[k].pc = "wait" => DrainEnd(k) \/ task[k].pc = "wait"
      BY TaskMoves
    <2> QED  BY <2>1, <2>2, <2>3
  <1>3. ASSUME SuperviseExit(k)
        PROVE  quiet' /\ VerdictInv(k)'
    <2>1. /\ task[k].pc = "wait" /\ worker[k].status = "exited"
          /\ UNCHANGED <<worker, job_events>>
      BY <1>3 DEF SuperviseExit, Waited
    <2>2. quiet /\ quiet'
      BY <1>1, <2>1 DEF DrainedInv
    <2>3. ~Unread(k)
      BY <2>1 DEF Unread
    <2>4. InPipe(k) = {}
      BY <2>2 DEF InPipe, Range
    <2>5. Output(k) = Recorded(k)
      BY <2>3, <2>4 DEF LogInv
    <2>6. Output(k)' = Recorded(k)'
      BY <2>1, <2>5 DEF Output, Recorded
    <2>7. worker[k].rc \in {"zero", "nonzero"}
      BY DEF TypeOK, Worker
    <2>8. \/ worker[k].rc = "zero" /\ jobs'[k].state = "succeeded"
          \/ worker[k].rc # "zero" /\ jobs'[k].state = "failed"
      <3>1. jobs \in [Jobs -> Row] /\ jobs[k] \in Row
        BY DEF TypeOK
      <3>2. CASE worker[k].rc = "zero"
        BY <1>3, <3>1, <3>2 DEF SuperviseExit, SetState, Row
      <3>3. CASE worker[k].rc # "zero"
        BY <1>3, <3>1, <3>3 DEF SuperviseExit, SetFailed, Row
      <3> QED  BY <3>2, <3>3
    <2> QED  BY <2>1, <2>2, <2>6, <2>7, <2>8 DEF VerdictInv
  <1>4. ASSUME jobs'[k] = jobs[k]
        PROVE  (verdict' => quiet') /\ VerdictInv(k)'
    <2>1. verdict => quiet
      BY DEF DrainedInv
    <2>2. ASSUME verdict
          PROVE  /\ worker'[k].status = "exited" /\ worker'[k].rc = worker[k].rc
                 /\ Output(k)' = Recorded(k)'
      <3>1. quiet /\ worker[k].status = "exited" /\ Output(k) = Recorded(k)
        BY <2>1, <2>2 DEF VerdictInv
      <3>2. /\ worker'[k].status = "exited" /\ worker'[k].rc = worker[k].rc
            /\ Output(k)' = Output(k) /\ job_events'[k] = job_events[k]
        BY <3>1, QuietStays
      <3> QED  BY <3>1, <3>2 DEF Recorded
    <2>3. verdict' => verdict
      BY <1>4
    <2> QED  BY <1>1, <1>4, <2>1, <2>2, <2>3 DEF VerdictInv
  <1>5. \/ jobs'[k] = jobs[k] \/ SuperviseExit(k)
        \/ jobs'[k].state \notin {"succeeded", "failed"}
        \/ jobs'[k].state = "failed" /\ jobs'[k].error = "exception"
    BY RowMoves
  <1>6. verdict' => quiet'
    BY <1>3, <1>4, <1>5
  <1>7. VerdictInv(k)'
    BY <1>3, <1>4, <1>5 DEF VerdictInv
  <1>8. over' => quiet'
    <2> SUFFICES ASSUME over' PROVE quiet'
      OBVIOUS
    <2>1. ~SuperviseFails(k)
      <3>1. SuperviseFails(k) => jobs'[k].error = "exception"
        BY DEF SuperviseFails, SetFailed, TypeOK, Row
      <3> QED  BY <3>1
    <2>2. CASE SpawnFails(k)
      <3>1. worker' = worker /\ worker[k].status = "none"
        BY <2>2 DEF SpawnFails, TaskInv
      <3> QED  BY <3>1
    <2>3. CASE task'[k] = task[k]
      <3>1. task[k].pc = "done"
        BY <2>3
      <3>2. jobs[k].state # "absent"
        BY <3>1 DEF TaskInv
      <3>3. jobs'[k].error = jobs[k].error
        <4>1. ~SuperviseExit(k)
          BY <3>1 DEF SuperviseExit, Waited
        <4> QED  BY <2>1, <4>1, RowMoves
      <3>4. worker[k].status = "exited"
        <4>1. ~Starts(k)
          BY <3>1 DEF Starts, Spawn, SpawnUnrecorded
        <4>2. worker[k].status = "exited" \/ worker[k].status = "alive"
          BY <4>1, StatusMoves
        <4> QED  BY <3>1, <3>3, <4>2 DEF TaskInv
      <3> QED  BY <1>1, <3>1, <3>3, <3>4 DEF DrainedInv
    <2>4. task'[k] = task[k] \/ SpawnFails(k) \/ SuperviseExit(k)
      BY <2>1, TaskMoves DEF Ends
    <2> QED  BY <1>3, <2>2, <2>3, <2>4
  <1> QED  BY <1>2, <1>6, <1>7, <1>8 DEF DrainedInv

\* Rows: only a cancel or the supervisor's last step makes them terminal.
LEMMA RowNext ==
    ASSUME TypeOK, [Next]_vars, NEW k \in Jobs, TaskInv(k), PipeInv(k), RowInv(k),
           \A c \in Cancels : CancelInv(c)
    PROVE  RowInv(k)'
  <1>1. Ends(k) => task'[k].pc = "done"
    BY DEF Ends, SuperviseExit, SuperviseFails, PopProcess, TypeOK, Task
  <1>2. task[k].pc = "done" => task'[k].pc = "done" \/ jobs[k].state = "absent"
    BY TaskMoves
  <1>3. ASSUME NEW c \in Cancels, cancels[c].job = k, CancelWrite(c)
        PROVE  /\ Touched(k)' /\ task'[k] = task[k]
               /\ cancels'[c].pc = "done" /\ cancels'[c].job = k
               /\ cancels'[c].runner = cancels[c].runner
    <2>1. /\ cancels'[c].pc = "done" /\ cancels'[c].job = k
          /\ cancels'[c].runner = cancels[c].runner
      BY <1>3 DEF CancelWrite, TypeOK, Cancel
    <2> QED  BY <1>3, <2>1 DEF CancelWrite, Touched
  <1>4. CASE jobs'[k] = jobs[k]
    <2>1. Touched(k) => Touched(k)'
      BY TouchedStays
    <2>2. Terminal(k)' => jobs[k].state # "absent" /\ Terminal(k)
      BY <1>4 DEF Terminal, TerminalStates
    <2>3. Terminal(k)' /\ ~Touched(k)' => task'[k].pc = "done"
      BY <1>2, <2>1, <2>2 DEF RowInv
    <2>4. jobs'[k].state \in {"succeeded", "failed"} => task'[k].pc = "done"
      BY <1>2, <1>4 DEF RowInv
    <2>5. ASSUME Terminal(k)', task'[k].pc = "spawn"
          PROVE  CancelledElsewhere(k)'
      <3>1. task[k].pc = "spawn" /\ task'[k].runner = task[k].runner
        BY <2>2, <2>5, TaskMoves
      <3> QED  BY <2>2, <2>5, <3>1, TouchedStays DEF RowInv
    <2> QED  BY <1>4, <2>1, <2>3, <2>4, <2>5 DEF RowInv
  <1>5. CASE jobs'[k].state \in {"queued", "running"}
    BY <1>5 DEF RowInv, Terminal, TerminalStates
  <1>6. CASE /\ jobs'[k].state \in {"succeeded", "failed"}
             /\ jobs'[k].state = "failed" => jobs'[k].error # "none"
             /\ Ends(k)
    BY <1>1, <1>6 DEF RowInv, Terminal
  <1>7. ASSUME NEW c \in Cancels, cancels[c].job = k, CancelWrite(c),
               jobs'[k].state = "cancelled"
        PROVE  RowInv(k)'
    <2>1. ASSUME task'[k].pc = "spawn"
          PROVE  CancelledElsewhere(k)'
      <3>1. task[k].pc = "spawn" /\ worker[k].status = "none"
        BY <1>3, <1>7, <2>1 DEF TaskInv
      <3>2. cancels[c].pc = "checked"
        BY <1>7, <3>1 DEF CancelWrite, CancelMayWrite
      <3>3. cancels[c].runner # task[k].runner
        BY <1>7, <3>1, <3>2 DEF CancelInv
      <3> QED  BY <1>3, <1>7, <3>3 DEF CancelledElsewhere
    <2> QED  BY <1>3, <1>7, <2>1 DEF RowInv
  <1>8. \/ jobs'[k] = jobs[k]
        \/ jobs'[k].state \in {"queued", "running"}
        \/ /\ jobs'[k].state \in {"succeeded", "failed"}
           /\ jobs'[k].state = "failed" => jobs'[k].error # "none"
           /\ Ends(k)
        \/ /\ \E c \in Cancels : cancels[c].job = k /\ CancelWrite(c)
           /\ jobs'[k].state = "cancelled"
    BY RowMoves DEF Ends
  <1> QED  BY <1>4, <1>5, <1>6, <1>7, <1>8

\* Calls of cancel: they know a row that exists, and a runner that is between
\* its INSERT and its 'running' has none in its own event loop.
LEMMA CancelNext ==
    ASSUME TypeOK, TypeOK', [Next]_vars, NEW c \in Cancels, CancelInv(c),
           \A j \in Jobs : TaskInv(j)
    PROVE  CancelInv(c)'
  <1> SUFFICES ASSUME cancels'[c].pc \in {"checked", "waiting", "done"}
               PROVE  /\ cancels'[c].job \in Jobs /\ cancels'[c].runner \in Runners
                      /\ jobs'[cancels'[c].job].state # "absent"
                      /\ cancels'[c].pc = "checked" =>
                           \/ task'[cancels'[c].job].pc # "spawn"
                           \/ cancels'[c].runner # task'[cancels'[c].job].runner
    BY DEF CancelInv
  <1>1. ASSUME NEW j \in Jobs, jobs[j].state # "absent"
        PROVE  /\ jobs'[j].state # "absent"
               /\ \/ task'[j].pc # "spawn"
                  \/ task'[j] = task[j]
    <2>1. jobs'[j].state # "absent"
      BY <1>1, RowMoves
    <2> QED  BY <1>1, <2>1, TaskMoves
  <1>2. CASE /\ cancels[c].pc \in {"checked", "waiting", "done"}
             /\ cancels'[c].job = cancels[c].job /\ cancels'[c].runner = cancels[c].runner
             /\ cancels'[c].pc = "checked" => cancels[c].pc = "checked"
    <2>1. /\ cancels[c].job \in Jobs /\ cancels[c].runner \in Runners
          /\ jobs[cancels[c].job].state # "absent"
          /\ cancels[c].pc = "checked" =>
                \/ task[cancels[c].job].pc # "spawn"
                \/ cancels[c].runner # task[cancels[c].job].runner
      BY <1>2 DEF CancelInv
    <2>2. /\ jobs'[cancels[c].job].state # "absent"
          /\ \/ task'[cancels[c].job].pc # "spawn"
             \/ task'[cancels[c].job] = task[cancels[c].job]
      BY <1>1, <2>1
    <2> QED  BY <1>2, <2>1, <2>2
  <1>3. ASSUME NEW r \in Runners, NEW j \in Jobs, CancelCheck(c, r, j),
               cancels'[c].job = j, cancels'[c].runner = r
        PROVE  /\ jobs'[j].state # "absent"
               /\ task'[j].pc # "spawn" \/ r # task'[j].runner
    <2>1. /\ ~Busy(r) /\ jobs[j].state # "absent" /\ jobs' = jobs /\ task' = task
      BY <1>3 DEF CancelCheck, LoopFree
    <2> QED  BY <2>1 DEF Busy
  <1>4. \/ /\ cancels[c].pc \in {"checked", "waiting", "done"}
           /\ cancels'[c].job = cancels[c].job /\ cancels'[c].runner = cancels[c].runner
           /\ cancels'[c].pc = "checked" => cancels[c].pc = "checked"
        \/ \E r \in Runners, j \in Jobs : /\ CancelCheck(c, r, j)
                                          /\ cancels'[c].job = j /\ cancels'[c].runner = r
    BY CancelMoves
  <1> QED  BY <1>2, <1>3, <1>4

TerminalInv(j) ==
    Terminal(j) /\ worker[j].status = "alive"
    => \/ jobs[j].error = "exception"
       \/ CancelledElsewhere(j)
       \/ CancelledSomewhere(j) /\ Forgotten(j)

\* A worker its runner has forgotten stays forgotten.
LEMMA ForgottenStays ==
    ASSUME TypeOK, [Next]_vars, NEW k \in Jobs, TaskInv(k), Forgotten(k)
    PROVE  Forgotten(k)'
  <1>1. jobs[k].state # "absent" /\ task[k].runner \in Runners /\ ~Starts(k)
        /\ task[k].pc \in {"dead", "lost"}
    BY DEF TaskInv, Forgotten, Starts, Spawn, SpawnUnrecorded
  <1>2. task'[k] = task[k] \/ task'[k].pc = "dead"
    BY <1>1, TaskMoves
  <1>3. k \notin processes[task[k].runner] => k \notin processes'[task[k].runner]
    BY <1>1, WhoAddsProcess
  <1> QED  BY <1>2, <1>3 DEF Forgotten

\* A live worker behind a terminal row stays explained.
LEMMA TerminalNext ==
    ASSUME TypeOK, [Next]_vars, NEW k \in Jobs, TaskInv(k), PipeInv(k), RowInv(k),
           TerminalInv(k), \A c \in Cancels : CancelInv(c)
    PROVE  TerminalInv(k)'
  <1> SUFFICES ASSUME Terminal(k)', worker'[k].status = "alive"
               PROVE  \/ jobs'[k].error = "exception"
                      \/ CancelledElsewhere(k)'
                      \/ CancelledSomewhere(k)' /\ Forgotten(k)'
    BY DEF TerminalInv
  <1>1. ASSUME NEW cmd \in Cmds, Spawn(k, cmd) PROVE jobs'[k].state = "running"
    BY <1>1 DEF Spawn, SetState, TypeOK, Row
  <1>2. ~\E cmd \in Cmds : Spawn(k, cmd)
    BY <1>1 DEF Terminal, TerminalStates
  <1>10. CASE Starts(k)
    <2>1. PICK cmd \in Cmds : SpawnUnrecorded(k, cmd)
      BY <1>2, <1>10 DEF Starts
    <2>2. task[k].pc = "spawn" /\ jobs' = jobs /\ cancels' = cancels
          /\ task'[k].runner = task[k].runner
      BY <2>1 DEF SpawnUnrecorded, TypeOK, Task
    <2>3. CancelledElsewhere(k)
      BY <2>2 DEF RowInv, Terminal
    <2> QED  BY <2>2, <2>3, TouchedStays
  <1> SUFFICES ASSUME ~Starts(k)
               PROVE  \/ jobs'[k].error = "exception"
                      \/ CancelledElsewhere(k)'
                      \/ CancelledSomewhere(k)' /\ Forgotten(k)'
    BY <1>10
  <1>3. worker[k].status = "alive"
    BY StatusMoves
  <1>4. jobs[k].state # "absent" => task'[k].runner = task[k].runner
    BY TaskMoves
  <1>5. CASE jobs'[k] = jobs[k]
    <2>1. Terminal(k) /\ jobs[k].state # "absent"
      BY <1>5 DEF Terminal, TerminalStates
    <2> QED  BY <1>3, <1>4, <1>5, <2>1, ForgottenStays, TouchedStays DEF TerminalInv
  <1>6. CASE SuperviseExit(k)
    BY <1>3, <1>6 DEF SuperviseExit, Waited
  <1>7. CASE SuperviseFails(k) /\ jobs'[k].error = "exception"
    BY <1>7
  <1>8. ASSUME NEW c \in Cancels, cancels[c].job = k, CancelWrite(c)
        PROVE  \/ jobs'[k].error = "exception"
               \/ CancelledElsewhere(k)'
               \/ CancelledSomewhere(k)' /\ Forgotten(k)'
    <2>1. /\ cancels'[c].pc = "done" /\ cancels'[c].job = k
          /\ cancels'[c].runner = cancels[c].runner
          /\ task' = task /\ processes' = processes /\ jobs'[k].error = jobs[k].error
      BY <1>8 DEF CancelWrite, SetState, TypeOK, Cancel, Row
    <2>2. cancels[c].pc = "checked" /\ k \notin processes[cancels[c].runner]
      BY <1>3, <1>8 DEF CancelWrite, CancelMayWrite
    <2>3. CASE task[k].pc \in {"drain", "raised", "wait"}
      <3>1. cancels[c].runner # task[k].runner
        BY <2>2, <2>3 DEF TaskInv
      <3> QED  BY <2>1, <3>1 DEF CancelledElsewhere
    <2>8. CASE task[k].pc = "lost"
      <3>1. CASE cancels[c].runner # task[k].runner
        BY <2>1, <3>1 DEF CancelledElsewhere
      <3>2. CASE cancels[c].runner = task[k].runner
        BY <2>1, <2>2, <2>8, <3>2 DEF CancelledSomewhere, Forgotten
      <3> QED  BY <3>1, <3>2
    <2>4. CASE task[k].pc = "done"
      BY <1>3, <2>1, <2>4 DEF TaskInv
    <2>5. CASE task[k].pc = "dead"
      BY <2>1, <2>5 DEF CancelledSomewhere, Forgotten
    <2>6. task[k].pc \notin {"none", "spawn"}
      BY <1>3 DEF TaskInv
    <2>7. task[k].pc \in {"none", "spawn", "drain", "raised", "wait", "done", "lost", "dead"}
      BY DEF TypeOK, Task
    <2> QED  BY <2>3, <2>4, <2>5, <2>6, <2>7, <2>8
  <1>9. \/ jobs'[k] = jobs[k] \/ SuperviseExit(k)
        \/ SuperviseFails(k) /\ jobs'[k].error = "exception"
        \/ \E c \in Cancels : cancels[c].job = k /\ CancelWrite(c)
        \/ jobs'[k].state \in {"queued", "running"}
    BY RowMoves
  <1> QED  BY <1>5, <1>6, <1>7, <1>8, <1>9 DEF Terminal, TerminalStates

(***************************************************************************)
(* The parts of the invariant that speak of one stream.                    *)
(***************************************************************************)

\* Prefixes of a sequence, and what is left of it after a prefix.
LEMMA PrefixFacts ==
    ASSUME NEW q \in Seq(Nat), NEW l \in 0..Len(q)
    PROVE  /\ \A n \in Nat : SubSeq(Append(q, n), 1, l) = SubSeq(q, 1, l)
           /\ SubSeq(q, 1, l) \o SubSeq(q, l + 1, Len(q)) = q
           /\ SubSeq(q, 1, Len(q)) = q
           /\ SubSeq(q, 1, 0) = <<>>
  <1>1. ASSUME NEW n \in Nat
        PROVE  SubSeq(Append(q, n), 1, l) = SubSeq(q, 1, l)
    OBVIOUS
  <1>2. SubSeq(q, 1, l) \o SubSeq(q, l + 1, Len(q)) = q
    <2>1. 1 \in 1..(Len(q) + 1) /\ l \in (1 - 1)..Len(q) /\ Len(q) \in l..Len(q)
      OBVIOUS
    <2>2. SubSeq(q, 1, l) \o SubSeq(q, l + 1, Len(q)) = SubSeq(q, 1, Len(q))
      BY <2>1, ConcatAdjacentSubSeq
    <2> QED  BY <2>2, SubSeqFull
  <1>3. SubSeq(q, 1, Len(q)) = q
    OBVIOUS
  <1>4. SubSeq(q, 1, 0) = <<>>
    OBVIOUS
  <1> QED  BY <1>1, <1>2, <1>3, <1>4

\* The log of a job only grows, and only while its task drains the pipe.
LEMMA EventsGrow ==
    ASSUME TypeOK, [Next]_vars, NEW k \in Jobs
    PROVE  \/ job_events'[k] = job_events[k]
           \/ /\ task[k].pc = "drain"
              /\ \E n \in Nat : job_events'[k] = Append(job_events[k], n)
  <1>1. Starts(k) \/ AppDies(k) => job_events'[k] = job_events[k]
    BY DEF Starts, Spawn, SpawnUnrecorded, AppDies, RunnerCrash
  <1>2. WorkerStep(k) => job_events'[k] = job_events[k]
    BY DEF WorkerStep
  <1>3. ASSUME DrainLine(k)
        PROVE  \/ job_events'[k] = job_events[k]
               \/ /\ task[k].pc = "drain"
                  /\ \E n \in Nat : job_events'[k] = Append(job_events[k], n)
    <2>1. Head(worker[k].stdout) \in Nat
      BY <1>3 DEF DrainLine, TypeOK, Worker
    <2> QED  BY <1>3, <2>1 DEF DrainLine, AppendEvent, TypeOK
  <1>4. DrainRaises(k) => job_events'[k] = job_events[k]
    BY DEF DrainRaises
  <1>5. ASSUME NEW c \in Cancels, CancelSignal(c) PROVE job_events'[k] = job_events[k]
    BY <1>5 DEF CancelSignal
  <1> QED  BY <1>1, <1>2, <1>3, <1>4, <1>5, WhoWritesWorker

\* The steps that have nothing to do with streams.
OtherThanStreams ==
    \/ \E r \in Runners, j \in Jobs : Submit(r, j) \/ SubmitWithProcess(r, j)
    \/ \E j \in Jobs, cmd \in Cmds : Spawn(j, cmd) \/ SpawnUnrecorded(j, cmd)
    \/ \E j \in Jobs : \/ SpawnFails(j) \/ WorkerStep(j)
                       \/ DrainLine(j) \/ DrainRaises(j) \/ DrainEnd(j)
                       \/ SuperviseExit(j) \/ SuperviseFails(j) \/ SuperviseLost(j)
    \/ \E c \in Cancels, r \in Runners, j \in Jobs : CancelCheck(c, r, j)
    \/ \E c \in Cancels : CancelSignal(c) \/ CancelWrite(c) \/ CancelRaises(c)
    \/ \E r \in Runners : RunnerStart(r)
    \/ UNCHANGED vars

LEMMA OthersKeepStreams == OtherThanStreams => streams' = streams
  BY DEF OtherThanStreams, Submit, SubmitWithProcess, Spawn, SpawnUnrecorded, SpawnFails,
         WorkerStep, DrainLine, DrainRaises, DrainEnd, SuperviseExit, SuperviseFails,
         SuperviseLost, CancelCheck, CancelSignal, CancelWrite, CancelRaises, RunnerStart, vars

\* What can happen to one stream.
LEMMA StreamMoves ==
    ASSUME TypeOK, [Next]_vars, NEW s \in Streams
    PROVE  \/ /\ streams'[s].job = streams[s].job /\ streams'[s].got = streams[s].got
              /\ streams'[s].last_seq = streams[s].last_seq
              /\ streams'[s].pc = streams[s].pc \/ streams'[s].pc = "dead"
           \/ \E r \in Runners, j \in Jobs : StreamOpen(s, r, j)
           \/ StreamPoll(s)
  <1>1. streams \in [Streams -> Stream] /\ streams[s] \in Stream
    BY DEF TypeOK
  <1>2. ASSUME NEW u \in Streams, NEW r \in Runners, NEW j \in Jobs, StreamOpen(u, r, j), u # s
        PROVE  streams'[s] = streams[s]
    BY <1>1, <1>2 DEF StreamOpen
  <1>3. ASSUME NEW u \in Streams, StreamPoll(u), u # s
        PROVE  streams'[s] = streams[s]
    BY <1>1, <1>3 DEF StreamPoll
  <1>4. ASSUME NEW r \in Runners, RunnerCrash(r)
        PROVE  /\ streams'[s].job = streams[s].job /\ streams'[s].got = streams[s].got
               /\ streams'[s].last_seq = streams[s].last_seq
               /\ streams'[s].pc = streams[s].pc \/ streams'[s].pc = "dead"
    BY <1>1, <1>4 DEF RunnerCrash, Die, Stream
  <1>6. ASSUME NEW u \in Streams, StreamRaises(u)
        PROVE  /\ streams'[s].job = streams[s].job /\ streams'[s].got = streams[s].got
               /\ streams'[s].last_seq = streams[s].last_seq
               /\ streams'[s].pc = streams[s].pc \/ streams'[s].pc = "dead"
    BY <1>1, <1>6 DEF StreamRaises, Stream
  <1>5. ASSUME OtherThanStreams
        PROVE  streams'[s] = streams[s]
    BY <1>5, OthersKeepStreams
  <1> QED  BY <1>2, <1>3, <1>4, <1>5, <1>6 DEF Next, OtherThanStreams

\* A job that ended untouched by a cancel is as it was, log and row.
LEMMA UntouchedStays ==
    ASSUME TypeOK, [Next]_vars, NEW k \in Jobs, RowInv(k), Terminal(k), ~Touched(k)
    PROVE  jobs'[k] = jobs[k] /\ job_events'[k] = job_events[k]
  <1>1. task[k].pc = "done" /\ jobs[k].state # "absent"
    BY DEF RowInv, Terminal, TerminalStates
  <1>2. job_events'[k] = job_events[k]
    BY <1>1, EventsGrow
  <1>3. ASSUME NEW cmd \in Cmds, Spawn(k, cmd) PROVE FALSE
    BY <1>1, <1>3 DEF Spawn
  <1>4. ~SuperviseExit(k) /\ ~SuperviseFails(k)
    BY <1>1 DEF SuperviseExit, SuperviseFails, Waited
  <1>5. ASSUME NEW c \in Cancels, cancels[c].job = k, CancelWrite(c) PROVE FALSE
    BY <1>5 DEF CancelWrite, CancelMayWrite, Touched
  <1> QED  BY <1>1, <1>2, <1>3, <1>4, <1>5, RowMoves

PrefixInv(s) ==
    \A j \in Jobs :
        streams[s].job = j =>
            /\ streams[s].last_seq <= Len(job_events[j])
            /\ streams[s].got = SubSeq(job_events[j], 1, streams[s].last_seq)

\* A stream keeps up with the log of its job, and stops where the log stops.
LEMMA StreamNext ==
    ASSUME TypeOK, TypeOK', [Next]_vars, NEW s \in Streams, StreamInv(s), PrefixInv(s),
           \A j \in Jobs : RowInv(j)
    PROVE  StreamInv(s)' /\ PrefixInv(s)'
  <1>1. streams \in [Streams -> Stream] /\ streams[s] \in Stream
        /\ job_events \in [Jobs -> Seq(Nat)] /\ job_events' \in [Jobs -> Seq(Nat)]
    BY DEF TypeOK
  <1>2. streams[s].last_seq \in Nat /\ streams[s].got \in Seq(Nat)
    BY <1>1 DEF Stream
  <1>3. CASE /\ streams'[s].job = streams[s].job /\ streams'[s].got = streams[s].got
             /\ streams'[s].last_seq = streams[s].last_seq
             /\ streams'[s].pc = streams[s].pc \/ streams'[s].pc = "dead"
    <2>1. ASSUME NEW j \in Jobs, streams[s].job = j
          PROVE  /\ streams[s].last_seq <= Len(job_events'[j])
                 /\ streams[s].got = SubSeq(job_events'[j], 1, streams[s].last_seq)
      <3>1. /\ streams[s].last_seq \in 0..Len(job_events[j])
            /\ streams[s].got = SubSeq(job_events[j], 1, streams[s].last_seq)
        BY <1>1, <1>2, <2>1 DEF PrefixInv
      <3>2. CASE job_events'[j] = job_events[j]
        BY <3>1, <3>2
      <3>3. ASSUME NEW n \in Nat, job_events'[j] = Append(job_events[j], n)
            PROVE  /\ streams[s].last_seq <= Len(job_events'[j])
                   /\ streams[s].got = SubSeq(job_events'[j], 1, streams[s].last_seq)
        <4>1. job_events[j] \in Seq(Nat)
          BY <1>1
        <4>2. Len(job_events'[j]) = Len(job_events[j]) + 1
          BY <3>3, <4>1
        <4>3. streams[s].last_seq <= Len(job_events'[j])
          BY <3>1, <4>1, <4>2
        <4>4. SubSeq(job_events'[j], 1, streams[s].last_seq)
              = SubSeq(job_events[j], 1, streams[s].last_seq)
          BY <3>1, <3>3, <4>1, PrefixFacts
        <4> QED  BY <3>1, <4>3, <4>4
      <3> QED  BY <3>2, <3>3, EventsGrow
    <2>2. PrefixInv(s)'
      BY <1>3, <2>1 DEF PrefixInv
    <2>3. ASSUME NEW j \in Jobs, streams[s].pc = "ended", streams[s].job = j, ~Touched(j)'
          PROVE  Terminal(j)' /\ streams[s].last_seq = Len(job_events'[j])
      <3>1. ~Touched(j)
        BY <2>3, TouchedStays
      <3>2. Terminal(j) /\ streams[s].last_seq = Len(job_events[j])
        BY <2>3, <3>1 DEF StreamInv
      <3>3. jobs'[j] = jobs[j] /\ job_events'[j] = job_events[j]
        BY <3>1, <3>2, UntouchedStays
      <3> QED  BY <3>2, <3>3 DEF Terminal
    <2>4. StreamInv(s)'
      BY <1>3, <2>3 DEF StreamInv
    <2> QED  BY <2>2, <2>4
  <1>4. ASSUME NEW r \in Runners, NEW j \in Jobs, StreamOpen(s, r, j)
        PROVE  StreamInv(s)' /\ PrefixInv(s)'
    <2>1. /\ streams'[s].pc = "polling" /\ streams'[s].job = j
          /\ streams'[s].last_seq = 0 /\ streams'[s].got = <<>>
      BY <1>1, <1>4 DEF StreamOpen, StreamInv, Stream
    <2>2. j # None
      BY JobsAssumption
    <2>3. job_events' = job_events /\ job_events[j] \in Seq(Nat)
      BY <1>1, <1>4 DEF StreamOpen
    <2>4. SubSeq(job_events[j], 1, 0) = <<>> /\ 0 <= Len(job_events[j])
      BY <2>3, PrefixFacts
    <2> QED  BY <2>1, <2>2, <2>3, <2>4 DEF StreamInv, PrefixInv
  <1>5. ASSUME StreamPoll(s)
        PROVE  StreamInv(s)' /\ PrefixInv(s)'
    <2> DEFINE j == streams[s].job
               log == job_events[j]
    <2>1. j \in Jobs /\ log \in Seq(Nat)
      BY <1>1, <1>5 DEF StreamPoll, TypeOK
    <2>2. /\ streams'[s].job = j /\ streams'[s].last_seq = Len(log)
          /\ streams'[s].got = streams[s].got \o SubSeq(log, streams[s].last_seq + 1, Len(log))
          /\ streams'[s].pc = "ended" => Terminal(j)
          /\ streams'[s].pc # "idle"
          /\ UNCHANGED <<jobs, job_events, cancels>>
      BY <1>1, <1>5 DEF StreamPoll, NewRows, Stream
    <2>3. /\ streams[s].last_seq \in 0..Len(log)
          /\ streams[s].got = SubSeq(log, 1, streams[s].last_seq)
      BY <1>2, <2>1 DEF PrefixInv
    <2>4. streams'[s].got = log
      BY <2>1, <2>2, <2>3, PrefixFacts
    <2>5. SubSeq(log, 1, Len(log)) = log /\ Len(log) \in Nat
      BY <2>1, PrefixFacts
    <2>6. j # None
      BY <2>1, JobsAssumption
    <2>7. PrefixInv(s)'
      <3>1. job_events'[j] = log /\ Len(log) <= Len(log)
        BY <2>2, <2>5
      <3>2. ASSUME NEW i \in Jobs, streams'[s].job = i
            PROVE  /\ streams'[s].last_seq <= Len(job_events'[i])
                   /\ streams'[s].got = SubSeq(job_events'[i], 1, streams'[s].last_seq)
        BY <2>2, <2>4, <2>5, <3>1, <3>2
      <3> QED  BY <3>2 DEF PrefixInv
    <2>8. StreamInv(s)'
      BY <2>2, <2>6 DEF StreamInv, Terminal
    <2> QED  BY <2>7, <2>8
  <1> QED  BY <1>3, <1>4, <1>5, StreamMoves

(***************************************************************************)
(* The inductive invariant and the theorems.                               *)
(***************************************************************************)

\* The quantified properties and their forms for one job or one stream.
LEMMA PerEntry ==
    /\ LogFollowsOutput <=> \A j \in Jobs : LogInv(j)
    /\ VerdictMatchesWorker <=> \A j \in Jobs : VerdictInv(j)
    /\ TerminalMeansExited <=> \A j \in Jobs : TerminalInv(j)
    /\ StreamIsPrefix <=> \A s \in Streams : PrefixInv(s)
  <1>1. LogFollowsOutput <=> \A j \in Jobs : LogInv(j)
    BY DEF LogFollowsOutput, LogInv
  <1>2. VerdictMatchesWorker <=> \A j \in Jobs : VerdictInv(j)
    BY DEF VerdictMatchesWorker, VerdictInv
  <1>3. TerminalMeansExited <=> \A j \in Jobs : TerminalInv(j)
    BY DEF TerminalMeansExited, TerminalInv
  <1>4. StreamIsPrefix <=> \A s \in Streams : PrefixInv(s)
    BY DEF StreamIsPrefix, PrefixInv
  <1> QED  BY <1>1, <1>2, <1>3, <1>4

\* The invariant holds before anything is submitted.
LEMMA IInvInit == Init => IInv
  <1> SUFFICES ASSUME Init PROVE IInv
    OBVIOUS
  <1>1. TypeOK
    BY TypeInit
  <1>2. ASSUME NEW j \in Jobs
        PROVE  /\ LogInv(j) /\ VerdictInv(j) /\ TerminalInv(j)
               /\ TaskInv(j) /\ PipeInv(j) /\ RowInv(j) /\ DrainedInv(j)
    <2>1. /\ jobs[j].state = "absent" /\ jobs[j].error = "none"
          /\ worker[j].status = "none" /\ worker[j].pos = 0 /\ worker[j].closed = FALSE
          /\ worker[j].orphan = FALSE
          /\ worker[j].stdout = <<>> /\ worker[j].script = <<>> /\ job_events[j] = <<>>
          /\ task[j].pc = "none" /\ task[j].runner = None
      BY DEF Init
    <2>2. Increasing(<<>>) /\ Range(<<>>) = {}
      BY DEF Increasing, Range
    <2>3. /\ Recorded(j) = {} /\ InPipe(j) = {} /\ Output(j) = {} /\ Piped(j) = {}
      BY <2>1, <2>2 DEF Recorded, InPipe, Output, Piped
    <2>4. ~Terminal(j)
      BY <2>1 DEF Terminal, TerminalStates
    <2>5. TaskInv(j) /\ RowInv(j)
      BY <2>1, <2>4, JobsAssumption DEF TaskInv, RowInv
    <2>6. Len(worker[j].script) = 0 /\ 1..0 = {}
      BY <2>1
    <2>7. PipeInv(j)
      BY <2>1, <2>2, <2>3, <2>6 DEF PipeInv
    <2>8. LogInv(j) /\ VerdictInv(j) /\ TerminalInv(j) /\ DrainedInv(j)
      BY <2>1, <2>2, <2>3, <2>4 DEF LogInv, VerdictInv, TerminalInv, DrainedInv
    <2> QED  BY <2>5, <2>7, <2>8
  <1>3. ASSUME NEW s \in Streams PROVE StreamInv(s) /\ PrefixInv(s)
    BY JobsAssumption DEF Init, StreamInv, PrefixInv
  <1>4. ASSUME NEW c \in Cancels PROVE CancelInv(c)
    BY DEF Init, CancelInv
  <1> QED  BY <1>1, <1>2, <1>3, <1>4, PerEntry DEF IInv

\* Every step keeps the invariant, job by job, stream by stream, call by call.
LEMMA IInvNext == IInv /\ [Next]_vars => IInv'
  <1> SUFFICES ASSUME IInv, [Next]_vars PROVE IInv'
    OBVIOUS
  <1>1. TypeOK /\ TypeOK'
    BY TypeNext DEF IInv
  <1>2. /\ \A j \in Jobs : /\ LogInv(j) /\ VerdictInv(j) /\ TerminalInv(j)
                          /\ TaskInv(j) /\ PipeInv(j) /\ RowInv(j) /\ DrainedInv(j)
        /\ \A s \in Streams : StreamInv(s) /\ PrefixInv(s)
        /\ \A c \in Cancels : CancelInv(c)
    BY PerEntry DEF IInv
  <1>3. ASSUME NEW j \in Jobs
        PROVE  /\ LogInv(j)' /\ VerdictInv(j)' /\ TerminalInv(j)'
               /\ TaskInv(j)' /\ PipeInv(j)' /\ RowInv(j)' /\ DrainedInv(j)'
    <2>1. TaskInv(j)'
      BY <1>1, <1>2, TaskNext
    <2>2. PipeInv(j)' /\ LogInv(j)'
      BY <1>1, <1>2, PipeNext
    <2>3. RowInv(j)'
      BY <1>1, <1>2, RowNext
    <2>4. DrainedInv(j)' /\ VerdictInv(j)'
      BY <1>1, <1>2, DrainedNext
    <2>5. TerminalInv(j)'
      BY <1>1, <1>2, TerminalNext
    <2> QED  BY <2>1, <2>2, <2>3, <2>4, <2>5
  <1>4. ASSUME NEW s \in Streams PROVE StreamInv(s)' /\ PrefixInv(s)'
    BY <1>1, <1>2, StreamNext
  <1>5. ASSUME NEW c \in Cancels PROVE CancelInv(c)'
    BY <1>1, <1>2, CancelNext
  <1>6. /\ LogFollowsOutput' /\ VerdictMatchesWorker' /\ TerminalMeansExited'
        /\ StreamIsPrefix'
    <2>1. /\ (\A j \in Jobs : LogInv(j))' => LogFollowsOutput'
          /\ (\A j \in Jobs : VerdictInv(j))' => VerdictMatchesWorker'
          /\ (\A j \in Jobs : TerminalInv(j))' => TerminalMeansExited'
          /\ (\A s \in Streams : PrefixInv(s))' => StreamIsPrefix'
      BY PerEntry, PTL
    <2> QED  BY <1>3, <1>4, <2>1
  <1> QED  BY <1>1, <1>3, <1>4, <1>5, <1>6 DEF IInv

\* The inductive invariant is an invariant of the specification.
LEMMA IInvAlways == Spec => []IInv
  BY IInvInit, IInvNext, PTL DEF Spec

\* The event log of every job is its worker's output, in order, once each and without a
\* gap; what is missing at its end waits in the pipe, or nobody reads the pipe any more
\* (_drain_stdout and _append_event), for any number of runners, jobs and faults.
THEOREM LogIsOutput == Spec => []LogFollowsOutput
  <1>1. IInv => LogFollowsOutput
    BY DEF IInv
  <1> QED  BY <1>1, IInvAlways, PTL

\* 'succeeded', and 'failed' from an exit code, are never written before the
\* worker is gone and its output recorded (_supervise).
THEOREM VerdictIsTrue == Spec => []VerdictMatchesWorker
  <1>1. IInv => VerdictMatchesWorker
    BY DEF IInv
  <1> QED  BY <1>1, IInvAlways, PTL

\* Only a supervision that raised, a cancel from another runner or one from a runner that
\* has forgotten its worker leaves a live worker behind a terminal row (cancel waits for
\* the worker it knows).
THEOREM TerminalIsExplained == Spec => []TerminalMeansExited
  <1>1. IInv => TerminalMeansExited
    BY DEF IInv
  <1> QED  BY <1>1, IInvAlways, PTL

\* A stream never skips, repeats or reorders events (stream_events).
THEOREM StreamsArePrefixes == Spec => []StreamIsPrefix
  <1>1. IInv => StreamIsPrefix
    BY DEF IInv
  <1> QED  BY <1>1, IInvAlways, PTL

\* A stream that ended on an untouched job has yielded the worker's whole output:
\* the state it saw was final, and it was written after the last event.
THEOREM EndedStreamsAreComplete == Spec => []StreamComplete
  <1>1. IInv => StreamComplete
    <2> SUFFICES ASSUME IInv, NEW s \in Streams, NEW j \in Jobs,
                        streams[s].pc = "ended", streams[s].job = j,
                        ~Touched(j), jobs[j].error # "exception"
                 PROVE  /\ worker[j].status = "exited"
                        /\ Range(streams[s].got) = Output(j)
      BY DEF StreamComplete
    <2>1. /\ TypeOK /\ RowInv(j) /\ VerdictInv(j) /\ StreamInv(s) /\ PrefixInv(s)
      BY PerEntry DEF IInv
    <2>2. Terminal(j) /\ streams[s].last_seq = Len(job_events[j])
      BY <2>1 DEF StreamInv
    <2>3. \/ jobs[j].state = "succeeded"
          \/ jobs[j].state = "failed" /\ jobs[j].error = "exit"
      BY <2>1, <2>2 DEF RowInv, Terminal, TerminalStates, TypeOK, Row
    <2>4. worker[j].status = "exited" /\ Output(j) = Recorded(j)
      BY <2>1, <2>3 DEF VerdictInv
    <2>5. streams[s].got = SubSeq(job_events[j], 1, Len(job_events[j]))
      BY <2>1, <2>2 DEF PrefixInv
    <2>6. job_events[j] \in Seq(Nat)
      BY <2>1 DEF TypeOK
    <2>7. streams[s].got = job_events[j]
      BY <2>5, <2>6, SubSeqFull
    <2> QED  BY <2>4, <2>7 DEF Recorded
  <1> QED  BY <1>1, IInvAlways, PTL

\* Nobody writes the row of a job that ended untouched by a cancel: not the
\* supervisor, not another runner, not an app that starts again.
THEOREM UntouchedRowsAreFinal == Spec => UntouchedIsFinal
  <1>1. IInv /\ [Next]_vars
        => [\A j \in Jobs : Terminal(j) /\ ~Touched(j) => jobs'[j] = jobs[j]]_vars
    BY UntouchedStays DEF IInv
  <1> QED  BY <1>1, IInvAlways, PTL DEF Spec, UntouchedIsFinal

\* Only the runner that is between INSERT and 'running' undoes a terminal state,
\* and only one that another runner's cancel wrote (submit_with_process).
THEOREM OnlyARaceRevives == Spec => RevivedOnlyAcrossRunners
  <1>1. ASSUME IInv, [Next]_vars, NEW j \in Jobs, Terminal(j), ~Terminal(j)'
        PROVE  task[j].pc = "spawn" /\ CancelledElsewhere(j)
    <2>1. TypeOK /\ RowInv(j)
      BY <1>1 DEF IInv
    <2>2. jobs[j].state # "absent" /\ jobs'[j] # jobs[j]
      BY <1>1 DEF Terminal, TerminalStates
    <2>3. \E cmd \in Cmds : Spawn(j, cmd)
      BY <1>1, <2>1, <2>2, RowMoves DEF Terminal, TerminalStates
    <2>4. task[j].pc = "spawn"
      BY <2>3 DEF Spawn
    <2> QED  BY <1>1, <2>1, <2>4 DEF RowInv
  <1>2. IInv /\ [Next]_vars
        => [\A j \in Jobs : Terminal(j) /\ ~Terminal(j)'
                            => task[j].pc = "spawn" /\ CancelledElsewhere(j)]_vars
    BY <1>1
  <1> QED  BY <1>2, IInvAlways, PTL DEF Spec, RevivedOnlyAcrossRunners

-------------------------------------------------------------------------------
(* The steps of the event feed.                                            *)

\* A worker runs the script of a command.
ScriptInv == \A j \in Jobs : worker[j].status # "none" =>
                \E cmd \in Cmds : worker[j].script = cmd.script

LEMMA ScriptNext == IInv /\ ScriptInv /\ [Next]_vars => ScriptInv'
  <1> SUFFICES ASSUME IInv, ScriptInv, [Next]_vars, NEW k \in Jobs, worker'[k].status # "none"
               PROVE  \E cmd \in Cmds : worker'[k].script = cmd.script
    BY DEF ScriptInv
  <1>1. TypeOK /\ PipeInv(k) /\ TaskInv(k) /\ worker \in [Jobs -> Worker] /\ worker[k] \in Worker
    BY DEF IInv, TypeOK
  <1>2. CASE /\ worker'[k].script = worker[k].script
             /\ worker[k].status # "none" \/ worker'[k].status = worker[k].status
    BY <1>2 DEF ScriptInv
  <1>3. CASE Starts(k)
    <2>1. PICK cmd \in Cmds : Spawn(k, cmd) \/ SpawnUnrecorded(k, cmd)
      BY <1>3 DEF Starts
    <2>2. worker'[k].script = cmd.script
      BY <1>1, <2>1 DEF Spawn, SpawnUnrecorded, Worker
    <2> QED  BY <2>2
  <1>4. ASSUME WorkerStep(k)
        PROVE  worker'[k].script = worker[k].script /\ worker[k].status # "none"
    BY <1>1, <1>4, WorkerMoves
  <1>5. ASSUME DrainLine(k) \/ DrainRaises(k)
        PROVE  worker'[k].script = worker[k].script /\ worker'[k].status = worker[k].status
    <2>1. worker' = [worker EXCEPT ![k].stdout = Tail(@)]
      BY <1>5 DEF DrainLine, DrainRaises
    <2> QED  BY <1>1, <2>1 DEF Worker
  <1>11. ASSUME AppDies(k)
         PROVE  worker'[k].script = worker[k].script /\ worker'[k].status = worker[k].status
    BY <1>1, <1>11 DEF AppDies, RunnerCrash, Worker
  <1>12. CASE AppDies(k)
    BY <1>2, <1>11, <1>12
  <1>6. ASSUME NEW c \in Cancels, cancels[c].job = k, CancelSignal(c)
        PROVE  worker'[k].script = worker[k].script /\ worker'[k].status = worker[k].status
    BY <1>1, <1>6 DEF CancelSignal, TypeOK, Worker
  <1>7. CASE \E c \in Cancels : cancels[c].job = k /\ CancelSignal(c)
    BY <1>2, <1>6, <1>7
  <1>8. CASE worker'[k] = worker[k]
    BY <1>2, <1>8
  <1>9. CASE WorkerStep(k)
    BY <1>2, <1>4, <1>9
  <1>10. CASE DrainLine(k) \/ DrainRaises(k)
    BY <1>2, <1>5, <1>10
  <1> QED  BY <1>1, <1>3, <1>7, <1>8, <1>9, <1>10, <1>12, WhoWritesWorker

\* A call of cancel() that has not begun is about no job.
IdleInv == \A c \in Cancels : cancels[c].pc = "idle" => cancels[c].job = None

LEMMA IdleNext == TypeOK /\ IdleInv /\ [Next]_vars => IdleInv'
  BY CancelMoves DEF IdleInv

\* A stream that has ended was a stream of a job.
EndedInv == \A s \in Streams : streams[s].pc = "ended" => streams[s].job \in Jobs

LEMMA EndedNext == TypeOK /\ EndedInv /\ [Next]_vars => EndedInv'
  <1> SUFFICES ASSUME TypeOK, EndedInv, [Next]_vars, NEW s \in Streams, streams'[s].pc = "ended"
               PROVE  streams'[s].job \in Jobs
    BY DEF EndedInv
  <1>1. streams \in [Streams -> Stream] /\ streams[s] \in Stream
    BY DEF TypeOK
  <1>2. ASSUME StreamPoll(s)
        PROVE  streams'[s].job = streams[s].job /\ streams[s].pc = "polling"
    BY <1>1, <1>2 DEF StreamPoll, Stream
  <1>3. ASSUME NEW r \in Runners, NEW j \in Jobs, StreamOpen(s, r, j)
        PROVE  streams'[s].pc # "ended"
    BY <1>1, <1>3 DEF StreamOpen, Stream
  <1>4. streams[s].pc \in {"ended", "polling"} => streams[s].job \in Jobs
    BY DEF EndedInv, TypeOK
  <1> QED  BY <1>2, <1>3, <1>4, StreamMoves

FeedInv == IInv /\ ScriptInv /\ IdleInv /\ EndedInv

LEMMA FeedInvAlways == Spec => []FeedInv
  <1>1. Init => ScriptInv /\ IdleInv /\ EndedInv
    BY DEF Init, ScriptInv, IdleInv, EndedInv
  <1>2. FeedInv /\ [Next]_vars => FeedInv'
    BY IInvNext, ScriptNext, IdleNext, EndedNext DEF FeedInv, IInv
  <1> QED  BY <1>1, <1>2, IInvInit, PTL DEF Spec, FeedInv

\* A terminal job is not touched any more: cancel() finds it terminal and leaves.
LEMMA TerminalUntouched ==
    ASSUME TypeOK, IdleInv, [Next]_vars, NEW k \in Jobs, Terminal(k), ~Touched(k)
    PROVE  ~Touched(k)'
  <1> SUFFICES ASSUME NEW c \in Cancels, cancels'[c].job = k, cancels'[c].pc \notin {"idle", "noop"}
               PROVE  FALSE
    BY DEF Touched
  <1>1. cancels[c].job = k => cancels[c].pc \in {"idle", "noop"}
    BY DEF Touched
  <1>2. ASSUME NEW r \in Runners, NEW j \in Jobs, CancelCheck(c, r, j), cancels'[c].job = j
        PROVE  FALSE
    <2>1. cancels'[c].pc = "noop"
      BY <1>2 DEF CancelCheck, TypeOK
    <2> QED  BY <2>1
  <1>3. cancels[c].pc = "idle" => cancels[c].job # k
    BY JobsAssumption DEF IdleInv
  <1> QED  BY <1>1, <1>2, <1>3, CancelMoves

LEMMA ClosedType ==
    /\ DOMAIN Closed = Jobs
    /\ \A k \in Jobs : Closed[k] \in BOOLEAN /\ (Closed[k] <=> Terminal(k) /\ ~Touched(k))
  BY DEF Closed

\* What becomes closed: a job whose supervisor has come to its end.
LEMMA ClosedMoves ==
    ASSUME FeedInv, [Next]_vars, NEW k \in Jobs
    PROVE  \/ Closed'[k] = Closed[k]
           \/ Ends(k) /\ Closed[k] = FALSE /\ Closed'[k] = TRUE
  <1>1. TypeOK /\ RowInv(k) /\ IdleInv
    BY DEF FeedInv, IInv
  <1>2. Closed[k] \in BOOLEAN /\ (Closed[k] <=> Terminal(k) /\ ~Touched(k))
    BY ClosedType
  <1>3. Closed'[k] \in BOOLEAN /\ (Closed'[k] <=> Terminal(k)' /\ ~Touched(k)')
    BY DEF Closed
  <1>4. ASSUME Terminal(k), ~Touched(k)
        PROVE  Terminal(k)' /\ ~Touched(k)'
    BY <1>1, <1>4, UntouchedStays, TerminalUntouched DEF Terminal
  <1>5. ASSUME Terminal(k)', ~Touched(k)', ~(Terminal(k) /\ ~Touched(k))
        PROVE  Ends(k)
    <2>1. ~Touched(k) /\ ~Terminal(k)
      BY <1>1, <1>5, TouchedStays
    <2>2. jobs'[k] # jobs[k]
      BY <1>5, <2>1 DEF Terminal
    <2>3. jobs'[k].state \notin {"queued", "running"}
      BY <1>5 DEF Terminal, TerminalStates
    <2>4. ASSUME NEW c \in Cancels, cancels[c].job = k, CancelWrite(c)
          PROVE  FALSE
      BY <2>1, <2>4 DEF CancelWrite, CancelMayWrite, Touched
    <2> QED  BY <1>1, <2>2, <2>3, <2>4, RowMoves DEF Ends
  <1> QED  BY <1>2, <1>3, <1>4, <1>5, Zenon

\* An ended stream stays as it is.
LEMMA EndedStays ==
    ASSUME TypeOK, [Next]_vars, NEW s \in Streams, streams[s].pc = "ended"
    PROVE  streams'[s] = streams[s]
  <1>1. streams \in [Streams -> Stream]
    BY DEF TypeOK
  <1>2. ASSUME NEW u \in Streams, NEW r \in Runners, NEW j \in Jobs, StreamOpen(u, r, j)
        PROVE  streams'[s] = streams[s]
    BY <1>1, <1>2 DEF StreamOpen
  <1>3. ASSUME NEW u \in Streams, StreamPoll(u)
        PROVE  streams'[s] = streams[s]
    BY <1>1, <1>3 DEF StreamPoll
  <1>4. ASSUME NEW r \in Runners, RunnerCrash(r)
        PROVE  streams'[s] = streams[s]
    BY <1>4 DEF RunnerCrash, Die
  <1>5. ASSUME NEW u \in Streams, StreamRaises(u)
        PROVE  streams'[s] = streams[s]
    BY <1>1, <1>5 DEF StreamRaises
  <1>6. OtherThanStreams => streams'[s] = streams[s]
    BY OthersKeepStreams
  <1> QED  BY <1>2, <1>3, <1>4, <1>5, <1>6 DEF Next, OtherThanStreams

\* A stream that is not opened and does not poll is served if it was.
LEMMA ServedStays ==
    ASSUME FeedInv, [Next]_vars, NEW s \in Streams, ~StreamPoll(s),
           \A r \in Runners, j \in Jobs : ~StreamOpen(s, r, j)
    PROVE  /\ streams'[s].job = streams[s].job /\ streams'[s].got = streams[s].got
           /\ Served'[s] = Served[s]
  <1> DEFINE j == streams[s].job
  <1>1. TypeOK /\ StreamInv(s)
    BY DEF FeedInv, IInv
  <1>2. /\ streams'[s].job = j /\ streams'[s].got = streams[s].got
        /\ streams'[s].pc = streams[s].pc \/ streams'[s].pc = "dead"
    BY <1>1, StreamMoves
  <1>3. /\ Served[s] = (streams[s].pc = "ended" /\ Closed[j])
        /\ Served'[s] = (streams'[s].pc = "ended" /\ Closed'[streams'[s].job])
    BY DEF Served
  <1>4. CASE streams[s].pc # "ended"
    BY <1>2, <1>3, <1>4
  <1>5. CASE streams[s].pc = "ended"
    <2>1. j \in Jobs /\ streams'[s] = streams[s]
      BY <1>1, <1>5, EndedStays DEF FeedInv, EndedInv
    <2>2. Closed'[j] = Closed[j]
      <3>1. ASSUME Closed[j] = FALSE, Closed'[j] = TRUE
            PROVE  FALSE
        <4>1. ~Touched(j)'
          BY <2>1, <3>1 DEF Closed
        <4>2. ~Touched(j)
          BY <1>1, <2>1, <4>1, TouchedStays
        <4>3. Terminal(j)
          BY <1>1, <1>5, <2>1, <4>2 DEF StreamInv
        <4> QED  BY <2>1, <3>1, <4>2, <4>3 DEF Closed
      <3> HIDE DEF j
      <3> QED  BY <2>1, <3>1, ClosedMoves
    <2> QED  BY <1>3, <2>1, <2>2
  <1> QED  BY <1>2, <1>4, <1>5

\* Functions on the same domain with the same values are equal.
LEMMA SameFunction ==
    ASSUME NEW S, NEW f, NEW g, f = [x \in S |-> f[x]], g = [x \in S |-> g[x]],
           \A x \in S : f[x] = g[x]
    PROVE  f = g
  <1>1. [x \in S |-> f[x]] = [x \in S |-> g[x]]
    OBVIOUS
  <1> QED  BY <1>1, Zenon

\* The mapped variables are functions of the jobs and of the streams.
LEMMA MappedFunctions ==
    /\ Closed = [j \in Jobs |-> Closed[j]] /\ Closed' = [j \in Jobs |-> Closed'[j]]
    /\ Following = [s \in Streams |-> Following[s]]
    /\ Following' = [s \in Streams |-> Following'[s]]
    /\ Received = [s \in Streams |-> Received[s]]
    /\ Received' = [s \in Streams |-> Received'[s]]
    /\ Served = [s \in Streams |-> Served[s]] /\ Served' = [s \in Streams |-> Served'[s]]
    /\ \A s \in Streams : /\ Following[s] = streams[s].job /\ Following'[s] = streams'[s].job
                          /\ Received[s] = streams[s].got /\ Received'[s] = streams'[s].got
  BY DEF Closed, Following, Received, Served

\* The readers of the feed stand still while no stream is opened and none polls.
LEMMA ReadersStay ==
    ASSUME FeedInv, [Next]_vars, \A s \in Streams : ~StreamPoll(s),
           \A s \in Streams, r \in Runners, j \in Jobs : ~StreamOpen(s, r, j)
    PROVE  Following' = Following /\ Received' = Received /\ Served' = Served
  <1>1. \A s \in Streams : /\ Following'[s] = Following[s] /\ Received'[s] = Received[s]
                           /\ Served'[s] = Served[s]
    BY ServedStays, MappedFunctions
  <1>2. Following' = Following
    <2>1. \A s \in Streams : Following'[s] = Following[s]
      BY <1>1
    <2> QED  BY <2>1, MappedFunctions, SameFunction, Zenon
  <1>3. Received' = Received
    <2>1. \A s \in Streams : Received'[s] = Received[s]
      BY <1>1
    <2> QED  BY <2>1, MappedFunctions, SameFunction, Zenon
  <1>4. Served' = Served
    <2>1. \A s \in Streams : Served'[s] = Served[s]
      BY <1>1
    <2> QED  BY <2>1, MappedFunctions, SameFunction, Zenon
  <1> QED  BY <1>2, <1>3, <1>4

\* A line that is read from the pipe is an event of the feed, of an open topic.
LEMMA DrainPublishes ==
    ASSUME FeedInv, [Next]_vars, NEW j \in Jobs, DrainLine(j)
    PROVE  Feed!Publish(j) \/ UNCHANGED Feed!vars
  <1> DEFINE line == Head(worker[j].stdout)
  <1>1. TypeOK /\ PipeInv(j) /\ TaskInv(j) /\ RowInv(j)
    BY DEF FeedInv, IInv
  <1>2. task[j].pc = "drain" /\ UNCHANGED <<jobs, cancels, streams>>
    BY DEF DrainLine
  <1>3. Closed[j] = FALSE
    BY <1>1, <1>2, ClosedType DEF RowInv
  <1>4. Closed' = Closed /\ Following' = Following /\ Received' = Received
    BY <1>2 DEF Closed, Following, Received, Terminal, Touched
  <1>5. Served' = Served
    BY <1>2, <1>4 DEF Served
  <1>6. line \in UNION {1..Len(cmd.script) : cmd \in Cmds}
    <2>1. worker[j].status # "none"
      BY <1>1, <1>2 DEF TaskInv
    <2>2. PICK cmd \in Cmds : worker[j].script = cmd.script
      BY <2>1 DEF FeedInv, ScriptInv
    <2>3. worker[j] \in Worker /\ worker[j].stdout # <<>>
      BY <1>1 DEF DrainLine, TypeOK
    <2>4. line \in InPipe(j)
      BY <2>3, RangeFacts DEF InPipe, Worker
    <2>5. line \in 1..worker[j].pos
      BY <1>1, <2>4 DEF PipeInv, Piped
    <2>6. line \in 1..Len(cmd.script)
      BY <1>1, <2>2, <2>3, <2>5, CmdType DEF PipeInv, Worker
    <2> QED  BY <2>6
  <1>7. CASE UNCHANGED job_events
    BY <1>4, <1>5, <1>7 DEF Feed!vars
  <1>8. CASE job_events' = [job_events EXCEPT ![j] = Append(@, line)]
    BY <1>3, <1>4, <1>5, <1>6, <1>8 DEF Feed!Publish
  <1> QED  BY <1>7, <1>8 DEF DrainLine, AppendEvent

\* A stream that is opened follows the topic of its job.
LEMMA OpenFollows ==
    ASSUME FeedInv, NEW s \in Streams, NEW r \in Runners, NEW j \in Jobs, StreamOpen(s, r, j)
    PROVE  Feed!Follow(s, j)
  <1>1. TypeOK /\ StreamInv(s) /\ streams \in [Streams -> Stream] /\ streams[s] \in Stream
    BY DEF FeedInv, IInv, TypeOK
  <1>2. /\ streams[s].pc = "idle" /\ UNCHANGED <<jobs, job_events, cancels>>
        /\ streams' = [streams EXCEPT ![s] = [@ EXCEPT !.pc = "polling", !.job = j, !.runner = r]]
    BY DEF StreamOpen
  <1>3. Following[s] = None
    BY <1>1, <1>2, MappedFunctions DEF StreamInv
  <1>4. Closed' = Closed
    BY <1>2 DEF Closed, Terminal, Touched
  <1>5. /\ streams'[s].job = j /\ streams'[s].got = streams[s].got /\ streams'[s].pc = "polling"
        /\ \A u \in Streams \ {s} : streams'[u] = streams[u]
    BY <1>1, <1>2 DEF Stream
  <1>6. Received' = Received
    BY <1>5 DEF Received
  <1>7. Served' = Served
    BY <1>2, <1>4, <1>5 DEF Served
  <1>8. Following' = [Following EXCEPT ![s] = j]
    BY <1>5 DEF Following
  <1> QED  BY <1>2, <1>3, <1>4, <1>6, <1>7, <1>8 DEF Feed!Follow

\* A poll delivers the log, and ends the stream of a closed topic.
LEMMA PollDelivers ==
    ASSUME FeedInv, NEW s \in Streams, StreamPoll(s)
    PROVE  Feed!Deliver(s)
  <1> DEFINE j == streams[s].job
  <1>1. /\ TypeOK /\ StreamIsPrefix /\ streams \in [Streams -> Stream] /\ streams[s] \in Stream
        /\ streams[s].pc = "polling" /\ j \in Jobs /\ UNCHANGED <<jobs, job_events, cancels>>
    BY DEF FeedInv, IInv, TypeOK, StreamPoll
  <1>2. streams' = [streams EXCEPT ![s] =
                      [@ EXCEPT !.got = streams[s].got \o NewRows(s),
                                !.last_seq = Len(job_events[j]),
                                !.pc = IF Terminal(j) THEN "ended" ELSE "polling"]]
    BY DEF StreamPoll
  <1>3. streams[s].got \o NewRows(s) = job_events[j]
    <2>1. job_events[j] \in Seq(Nat) /\ streams[s].last_seq \in Nat
      BY <1>1 DEF TypeOK, Stream
    <2>2. /\ streams[s].last_seq <= Len(job_events[j])
          /\ streams[s].got = SubSeq(job_events[j], 1, streams[s].last_seq)
      BY <1>1 DEF StreamIsPrefix
    <2>3. streams[s].last_seq \in 0..Len(job_events[j])
      BY <2>1, <2>2
    <2> QED  BY <2>1, <2>2, <2>3, PrefixFacts DEF NewRows
  <1> HIDE DEF j
  <1>4. /\ streams'[s].job = streams[s].job /\ streams'[s].got = job_events[j]
        /\ streams'[s].pc = "ended" <=> Terminal(j)
        /\ \A u \in Streams \ {s} : streams'[u] = streams[u]
    BY <1>1, <1>2, <1>3 DEF Stream
  <1>5. Closed' = Closed
    BY <1>1 DEF Closed, Terminal, Touched
  <1>6. Following' = Following
    BY <1>4 DEF Following
  <1>7. Received' = [Received EXCEPT ![s] = job_events[j]]
    BY <1>4 DEF Received
  <1>8. Served' = [Served EXCEPT ![s] = Closed[j]]
    <2>1. /\ Served'[s] = (streams'[s].pc = "ended" /\ Closed[streams[s].job])
          /\ \A u \in Streams \ {s} : Served'[u] = Served[u]
      BY <1>4, <1>5 DEF Served
    <2>2. Closed[j] \in BOOLEAN /\ (Closed[j] => Terminal(j))
      BY <1>1, ClosedType
    <2>3. Served'[s] = Closed[j]
      BY <1>4, <2>1, <2>2 DEF j
    <2> DEFINE New == [Served EXCEPT ![s] = Closed[j]]
    <2>4. DOMAIN Served = Streams
      BY DEF Served
    <2>5. New = [u \in Streams |-> IF u = s THEN Closed[j] ELSE Served[u]]
      BY <2>4
    <2>6. New = [u \in Streams |-> New[u]] /\ \A u \in Streams : Served'[u] = New[u]
      BY <2>1, <2>3, <2>5
    <2> HIDE DEF New
    <2>7. Served' = New
      BY <2>6, MappedFunctions, SameFunction, Zenon
    <2> QED  BY <2>7 DEF New
  <1>9. Following[s] = j /\ Following[s] # None
    BY <1>1, MappedFunctions, JobsAssumption DEF j
  <1> QED  BY <1>1, <1>5, <1>6, <1>7, <1>8, <1>9 DEF Feed!Deliver

\* Supervision comes to its end for one job at a time.
LEMMA OneEnds ==
    ASSUME TypeOK, NEW j \in Jobs, NEW k \in Jobs, Ends(j), Ends(k)
    PROVE  j = k
  <1>1. task' = [task EXCEPT ![j].pc = "done"] /\ task' = [task EXCEPT ![k].pc = "done"]
    BY DEF Ends, SuperviseExit, SuperviseFails, PopProcess
  <1>2. task[j].pc # "done" /\ task[k].pc # "done"
    BY DEF Ends, SuperviseExit, SuperviseFails, Waited
  <1> QED  BY <1>1, <1>2 DEF TypeOK, Task

\* Everything else leaves the feed alone, or closes the topic of one job.
LEMMA RestCloses ==
    ASSUME FeedInv, [Next]_vars, \A s \in Streams : ~StreamPoll(s),
           \A s \in Streams, r \in Runners, j \in Jobs : ~StreamOpen(s, r, j),
           \A j \in Jobs : ~DrainLine(j)
    PROVE  (\E j \in Jobs : Feed!Close(j)) \/ UNCHANGED Feed!vars
  <1>1. TypeOK
    BY DEF FeedInv, IInv
  <1>2. Following' = Following /\ Received' = Received /\ Served' = Served
    BY ReadersStay
  <1>3. job_events' = job_events
    BY DEF Next, Submit, SubmitWithProcess, Spawn, SpawnUnrecorded, SpawnFails, WorkerStep,
           DrainRaises, DrainEnd, SuperviseExit, SuperviseFails, SuperviseLost, CancelCheck,
           CancelSignal, CancelWrite, CancelRaises, StreamRaises, RunnerCrash, RunnerStart, vars
  <1>4. CASE \A k \in Jobs : Closed'[k] = Closed[k]
    <2>1. Closed' = Closed
      BY <1>4, MappedFunctions, SameFunction, Zenon
    <2> QED  BY <1>2, <1>3, <2>1 DEF Feed!vars
  <1>5. ASSUME NEW j \in Jobs, Closed'[j] # Closed[j]
        PROVE  Feed!Close(j)
    <2>1. Closed[j] = FALSE /\ Closed'[j] = TRUE /\ Ends(j)
      BY <1>5, ClosedMoves
    <2>2. \A k \in Jobs \ {j} : Closed'[k] = Closed[k]
      BY <1>1, <2>1, ClosedMoves, OneEnds
    <2>3. Closed' = [Closed EXCEPT ![j] = TRUE]
      BY <2>1, <2>2, MappedFunctions
    <2> QED  BY <1>2, <1>3, <2>1, <2>3 DEF Feed!Close
  <1> QED  BY <1>4, <1>5

\* The runner implements the feed (stream_events, _append_event and _supervise):
\* every step of the runners, the workers and the cancels publishes one event on an
\* open topic, closes a topic for good, follows one, delivers a whole log, or is no
\* step of the feed.  That every reader of a closed topic is served in the end, the
\* fairness of ImplementsFeed, is left to the model checker.
THEOREM RunnerIsAFeed == Spec => Feed!Spec
  <1>1. ASSUME Init
        PROVE  Feed!Init
    <2>1. \A j \in Jobs : ~Terminal(j) /\ jobs[j].state = "absent" /\ job_events[j] = <<>>
      BY <1>1 DEF Init, Terminal, TerminalStates
    <2>2. \A s \in Streams : streams[s] = [pc |-> "idle", job |-> None, runner |-> None,
                                           last_seq |-> 0, got |-> <<>>]
      BY <1>1 DEF Init
    <2>3. job_events = [j \in Jobs |-> <<>>]
      BY <1>1 DEF Init
    <2>4. Closed = [j \in Jobs |-> FALSE]
      BY <2>1 DEF Closed
    <2>5. Following = [s \in Streams |-> None] /\ Received = [s \in Streams |-> <<>>]
      BY <2>2 DEF Following, Received
    <2>6. Served = [s \in Streams |-> FALSE]
      <3>1. \A s \in Streams : ~(streams[s].pc = "ended")
        BY <2>2
      <3>2. \A s \in Streams : (streams[s].pc = "ended" /\ Closed[streams[s].job]) = FALSE
        BY <3>1, Zenon
      <3> QED  BY <3>2, Zenon DEF Served
    <2> QED  BY <2>3, <2>4, <2>5, <2>6 DEF Feed!Init
  <1>2. FeedInv /\ [Next]_vars => [Feed!Next]_(Feed!vars)
    <2> SUFFICES ASSUME FeedInv, [Next]_vars
                 PROVE  Feed!Next \/ UNCHANGED Feed!vars
      OBVIOUS
    <2>1. ASSUME NEW j \in Jobs, DrainLine(j) PROVE Feed!Next \/ UNCHANGED Feed!vars
      BY <2>1, DrainPublishes DEF Feed!Next
    <2>2. ASSUME NEW s \in Streams, NEW r \in Runners, NEW j \in Jobs, StreamOpen(s, r, j)
          PROVE  Feed!Next
      BY <2>2, OpenFollows DEF Feed!Next
    <2>3. ASSUME NEW s \in Streams, StreamPoll(s) PROVE Feed!Next
      BY <2>3, PollDelivers DEF Feed!Next
    <2>4. CASE /\ \A s \in Streams : ~StreamPoll(s)
               /\ \A s \in Streams, r \in Runners, j \in Jobs : ~StreamOpen(s, r, j)
               /\ \A j \in Jobs : ~DrainLine(j)
      BY <2>4, RestCloses DEF Feed!Next
    <2> QED  BY <2>1, <2>2, <2>3, <2>4
  <1> QED  BY <1>1, <1>2, FeedInvAlways, PTL DEF Spec, Feed!Spec
===============================================================================
