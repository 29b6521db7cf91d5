------------------------------- MODULE LongJobs -------------------------------
(***************************************************************************)
(* LocalLongJobRunner (pdomain_ops/gpu/local_jobs.py): long jobs kept in   *)
(* the suite's jobs.db, each one a worker subprocess supervised by the app *)
(* that submitted it.                                                      *)
(*                                                                         *)
(* A runner is one instance of the class in one app: its event loop, its   *)
(* dict of subprocesses and its executor threads.  All the runners of the  *)
(* suite open the same database.  Every database access of the code is one *)
(* critical section under the FileLock, so it is one action here; what     *)
(* lies between two of them is interleaved.  Within a runner only one task *)
(* holds the event loop: a coroutine that has two critical sections and no *)
(* suspension between them (submit_with_process, cancel) keeps the other   *)
(* coroutines of its own runner out (Busy), but not the executor threads   *)
(* and not the other runners.                                              *)
(*                                                                         *)
(* A worker runs a script: the sequence of what it writes.  Its lines are  *)
(* named by their position in the script; what the parser of gpu/events.py *)
(* makes of a line is its kind.                                            *)
(***************************************************************************)
EXTENDS Naturals, Sequences, Functions

CONSTANTS
    Jobs,       \* job ids (uuid4: never reused)
    Runners,    \* LocalLongJobRunner instances on the same jobs.db
    Cancels,    \* calls of cancel()
    Streams,    \* calls of stream_events()
    Cmds,       \* the commands a job may be submitted with
    PipeCap,    \* lines the worker's stdout pipe holds
    ErrCap,     \* writes the worker's stderr pipe holds
    MaxFaults,  \* bound on crashes, failed spawns and failed database writes
    None        \* no job, no runner

LineKinds == {"event", "log", "malformed", "blank", "unhashable"}
Ops == LineKinds \cup {"err", "close"}

ASSUME JobsAssumption ==
    /\ None \notin Jobs \cup Runners
    /\ PipeCap \in Nat \ {0}
    /\ ErrCap \in Nat
    /\ MaxFaults \in Nat
    /\ \A cmd \in Cmds : /\ cmd \in [script : Seq(Ops), rc : {"zero", "nonzero"}]

VARIABLES
    jobs,        \* the jobs table: one row per job
    job_events,  \* the job_events table: the lines recorded; seq is the index
    processes,   \* each runner's _processes dict, its keys
    up,          \* whether the app of a runner is running
    worker,      \* the worker subprocess of a job and its two pipes
    task,        \* the coroutines that run and supervise a job
    cancels,     \* the calls of cancel()
    streams,     \* the calls of stream_events()
    faults       \* faults so far

vars == <<jobs, job_events, processes, up, worker, task, cancels, streams, faults>>

States == {"absent", "queued", "running", "succeeded", "failed", "cancelled"}
TerminalStates == {"succeeded", "failed", "cancelled"}

Row == [state : States, progress : {0, 1}, started : BOOLEAN,
        finished : BOOLEAN, error : {"none", "exit", "exception"}]
Worker == [status : {"none", "alive", "exited"}, script : Seq(Ops),
           rc : {"zero", "nonzero"}, pos : Nat, stdout : Seq(Nat),
           closed : BOOLEAN, stderr : Nat, term : BOOLEAN,
           orphan : BOOLEAN]     \* nobody has the reading ends of its pipes any more
Task == [pc : {"none", "spawn", "drain", "raised", "wait", "done", "lost", "dead"},
         runner : Runners \cup {None}]
Cancel == [pc : {"idle", "checked", "waiting", "done", "noop", "dead"},
           job : Jobs \cup {None}, runner : Runners \cup {None}, progress : {0, 1}]
Stream == [pc : {"idle", "polling", "ended", "dead"}, job : Jobs \cup {None},
           runner : Runners \cup {None}, last_seq : Nat, got : Seq(Nat)]

-------------------------------------------------------------------------------
(* State formulae.  An operator named Op_Something, here and below, is a   *)
(* plausible bug in Op: the mutant that shows which property would catch   *)
(* it.  No specification uses it.                                          *)

Terminal(j) == jobs[j].state \in TerminalStates

Busy_NoTask(r) == FALSE     \* an await between the INSERT and 'running'

\* A coroutine of runner r is between two critical sections it runs without
\* giving the event loop back.
Busy(r) == \/ \E j \in Jobs : task[j].runner = r /\ task[j].pc = "spawn"
           \/ \E c \in Cancels : cancels[c].runner = r /\ cancels[c].pc = "checked"

LoopFree(r) == up[r] /\ ~Busy(r)

\* Lines that _drain_stdout turns into a row of job_events.
Captured(kind) == kind \in {"event", "log"}

\* A call of cancel() has found job j not terminal.
Touched(j) == \E c \in Cancels : /\ cancels[c].job = j
                                 /\ cancels[c].pc \notin {"idle", "noop"}

\* Lines whose parser raises something else than ValueError, such as an event whose kind
\* is a list (TypeError).
Raises(kind) == kind = "unhashable"

NextKind(j) == worker[j].script[Head(worker[j].stdout)]

Fault == /\ faults < MaxFaults
         /\ faults' = faults + 1

-------------------------------------------------------------------------------
(* The jobs table (_set_state and _set_failed: unconditional updates).     *)

SetState_Percent(j, state, progress) ==     \* progress as a percentage
    jobs' = [jobs EXCEPT ![j] = [@ EXCEPT !.state = state, !.progress = 100 * progress]]

SetState(j, state, progress) ==
    jobs' = [jobs EXCEPT ![j] =
               [@ EXCEPT !.state = state,
                         !.progress = progress,
                         !.started = jobs[j].started \/ state = "running",
                         !.finished = jobs[j].finished \/ state \in TerminalStates]]

SetFailed(j, error) ==
    jobs' = [jobs EXCEPT ![j] =
               [@ EXCEPT !.state = "failed", !.error = error, !.finished = TRUE]]

AppendEvent_SameSeq(j, line) ==     \* MAX(seq) without the + 1
    job_events' = [job_events EXCEPT ![j] =
                     IF @ = <<>> THEN <<line>> ELSE [@ EXCEPT ![Len(@)] = line]]

AppendEvent(j, line) ==
    job_events' = [job_events EXCEPT ![j] = Append(@, line)]

-------------------------------------------------------------------------------
(* submit and submit_with_process.                                         *)

InsertRow(j) == /\ jobs[j].state = "absent"
                /\ jobs' = [jobs EXCEPT ![j].state = "queued"]

\* submit(): a queued row, and nothing that will ever run it.
Submit(r, j) ==
    /\ LoopFree(r)
    /\ InsertRow(j)
    /\ UNCHANGED <<job_events, processes, up, worker, task, cancels, streams, faults>>

\* submit_with_process() up to the INSERT.
SubmitWithProcess(r, j) ==
    /\ LoopFree(r)
    /\ InsertRow(j)
    /\ task' = [task EXCEPT ![j] = [pc |-> "spawn", runner |-> r]]
    /\ UNCHANGED <<job_events, processes, up, worker, cancels, streams, faults>>

\* Popen, the entry in _processes, state 'running' and the supervision task.
Spawn(j, cmd) ==
    /\ task[j].pc = "spawn"
    /\ worker' = [worker EXCEPT ![j] =
                    [@ EXCEPT !.status = "alive", !.script = cmd.script, !.rc = cmd.rc]]
    /\ processes' = [processes EXCEPT ![task[j].runner] = @ \cup {j}]
    /\ SetState(j, "running", 0)
    /\ task' = [task EXCEPT ![j].pc = "drain"]
    /\ UNCHANGED <<job_events, up, cancels, streams, faults>>

\* The 'running' of a spawned worker raises (a database error): the row stays queued,
\* and nobody supervises the worker.
SpawnUnrecorded(j, cmd) ==
    /\ task[j].pc = "spawn" /\ Fault
    /\ worker' = [worker EXCEPT ![j] =
                    [@ EXCEPT !.status = "alive", !.script = cmd.script, !.rc = cmd.rc]]
    /\ processes' = [processes EXCEPT ![task[j].runner] = @ \cup {j}]
    /\ task' = [task EXCEPT ![j].pc = "lost"]
    /\ UNCHANGED <<jobs, job_events, up, cancels, streams>>

\* Popen raises (no such binary): the row stays queued, the caller gets the
\* exception and no job id.
SpawnFails(j) ==
    /\ task[j].pc = "spawn" /\ Fault
    /\ task' = [task EXCEPT ![j].pc = "done"]
    /\ UNCHANGED <<jobs, job_events, processes, up, worker, cancels, streams>>

-------------------------------------------------------------------------------
(* The worker subprocess.                                                  *)

AtOp(j, ops) == /\ worker[j].status = "alive"
                /\ worker[j].pos < Len(worker[j].script)
                /\ worker[j].script[worker[j].pos + 1] \in ops

\* A line to stdout; the write blocks while the pipe is full.  After the worker
\* closed its stdout the line goes nowhere.
WorkerStdout(j) ==
    /\ AtOp(j, LineKinds) /\ ~worker[j].orphan
    /\ worker[j].closed \/ Len(worker[j].stdout) < PipeCap
    /\ worker' = [worker EXCEPT ![j] =
                    [@ EXCEPT !.pos = worker[j].pos + 1,
                              !.stdout = IF worker[j].closed THEN worker[j].stdout
                                         ELSE Append(worker[j].stdout, worker[j].pos + 1)]]

\* A write to stderr; it blocks while that pipe is full.
WorkerStderr(j) ==
    /\ AtOp(j, {"err"}) /\ ~worker[j].orphan
    /\ worker[j].stderr < ErrCap
    /\ worker' = [worker EXCEPT ![j] = [@ EXCEPT !.pos = worker[j].pos + 1,
                                               !.stderr = worker[j].stderr + 1]]

WorkerClose(j) ==
    /\ AtOp(j, {"close"})
    /\ worker' = [worker EXCEPT ![j] = [@ EXCEPT !.pos = worker[j].pos + 1, !.closed = TRUE]]

\* A write to a pipe whose reader died with its app ends the worker.
WorkerBrokenPipe(j) ==
    /\ AtOp(j, LineKinds \cup {"err"}) /\ worker[j].orphan
    /\ worker' = [worker EXCEPT ![j] = [@ EXCEPT !.status = "exited", !.rc = "nonzero"]]

WorkerExit(j) ==
    /\ worker[j].status = "alive"
    /\ worker[j].pos = Len(worker[j].script)
    /\ worker' = [worker EXCEPT ![j].status = "exited"]

\* SIGTERM is delivered, also to a worker that is blocked in a write.
WorkerKilled(j) ==
    /\ worker[j].status = "alive" /\ worker[j].term
    /\ worker' = [worker EXCEPT ![j] = [@ EXCEPT !.status = "exited", !.rc = "nonzero"]]

WorkerStep(j) ==
    /\ \/ WorkerStdout(j) \/ WorkerStderr(j) \/ WorkerClose(j)
       \/ WorkerBrokenPipe(j) \/ WorkerExit(j) \/ WorkerKilled(j)
    /\ UNCHANGED <<jobs, job_events, processes, up, task, cancels, streams, faults>>

-------------------------------------------------------------------------------
(* _supervise: drain stdout in a thread, wait in a thread, set the state.  *)

DrainLine_StopsAtBadLine(j) ==     \* a malformed line ends the thread
    /\ task[j].pc = "drain" /\ worker[j].stdout # <<>>
    /\ Captured(NextKind(j))
    /\ AppendEvent(j, Head(worker[j].stdout))
    /\ worker' = [worker EXCEPT ![j].stdout = Tail(@)]
    /\ UNCHANGED <<jobs, processes, up, task, cancels, streams, faults>>

\* One line of _drain_stdout: blank and malformed lines are skipped.
DrainLine(j) ==
    /\ task[j].pc = "drain" /\ worker[j].stdout # <<>>
    /\ ~Raises(NextKind(j))
    /\ IF Captured(NextKind(j)) THEN AppendEvent(j, Head(worker[j].stdout))
       ELSE UNCHANGED job_events
    /\ worker' = [worker EXCEPT ![j].stdout = Tail(@)]
    /\ UNCHANGED <<jobs, processes, up, task, cancels, streams, faults>>

\* The thread raises over a line: the parser does, or the append (a database error).
DrainRaises(j) ==
    /\ task[j].pc = "drain" /\ worker[j].stdout # <<>>
    /\ \/ Raises(NextKind(j)) /\ UNCHANGED faults
       \/ Captured(NextKind(j)) /\ Fault
    /\ worker' = [worker EXCEPT ![j].stdout = Tail(@)]
    /\ task' = [task EXCEPT ![j].pc = "raised"]
    /\ UNCHANGED <<jobs, job_events, processes, up, cancels, streams>>

AtEof_PipeEmpty(j) == worker[j].stdout = <<>>     \* reads what there is

\* End of file: the worker is gone or closed its stdout.
AtEof(j) == /\ worker[j].stdout = <<>>
            /\ worker[j].closed \/ worker[j].status = "exited"

DrainEnd(j) ==
    /\ task[j].pc = "drain" /\ AtEof(j)
    /\ task' = [task EXCEPT ![j].pc = "wait"]
    /\ UNCHANGED <<jobs, job_events, processes, up, worker, cancels, streams, faults>>

PopProcess_GoesOn(j) ==     \* the error is handled and supervision goes on
    /\ processes' = [processes EXCEPT ![task[j].runner] = @ \ {j}]
    /\ task' = [task EXCEPT ![j].pc = "wait"]

\* The finally clause of _supervise.
PopProcess(j) ==
    /\ processes' = [processes EXCEPT ![task[j].runner] = @ \ {j}]
    /\ task' = [task EXCEPT ![j].pc = "done"]

\* The worker has exited and the coroutine goes on to its verdict.
Waited(j) == task[j].pc = "wait" /\ worker[j].status = "exited" /\ LoopFree(task[j].runner)

\* proc.wait has returned: the terminal state, whatever the row says by now.
SuperviseExit(j) ==
    /\ Waited(j)
    /\ IF worker[j].rc = "zero" THEN SetState(j, "succeeded", 1)
                                ELSE SetFailed(j, "exit")
    /\ PopProcess(j)
    /\ UNCHANGED <<job_events, up, worker, cancels, streams, faults>>

\* The thread or the write of the verdict raised: the catch-all marks the job failed and
\* abandons the worker.
SuperviseFails(j) ==
    /\ \/ task[j].pc = "raised" /\ LoopFree(task[j].runner) /\ UNCHANGED faults
       \/ Waited(j) /\ Fault
    /\ SetFailed(j, "exception")
    /\ PopProcess(j)
    /\ UNCHANGED <<job_events, up, worker, cancels, streams>>

\* The catch-all raises as well: the process is popped and the row stays as it is.
SuperviseLost(j) ==
    /\ \/ task[j].pc = "raised" /\ LoopFree(task[j].runner)
       \/ Waited(j)
    /\ Fault
    /\ processes' = [processes EXCEPT ![task[j].runner] = @ \ {j}]
    /\ task' = [task EXCEPT ![j].pc = "lost"]
    /\ UNCHANGED <<jobs, job_events, up, worker, cancels, streams>>

-------------------------------------------------------------------------------
(* cancel.                                                                 *)

\* The status is read; a terminal one ends the call.
CancelCheck(c, r, j) ==
    /\ cancels[c].pc = "idle"
    /\ LoopFree(r)
    /\ jobs[j].state # "absent"
    /\ cancels' = [cancels EXCEPT ![c] =
                     [pc |-> IF Terminal(j) THEN "noop" ELSE "checked",
                      job |-> j, runner |-> r, progress |-> jobs[j].progress]]
    /\ UNCHANGED <<jobs, job_events, processes, up, worker, task, streams, faults>>

\* This runner has the subprocess: terminate it and wait in the executor.
CancelSignal(c) ==
    LET j == cancels[c].job
    IN  /\ cancels[c].pc = "checked"
        /\ j \in processes[cancels[c].runner]
        /\ worker' = [worker EXCEPT ![j].term = TRUE]
        /\ cancels' = [cancels EXCEPT ![c].pc = "waiting"]
        /\ UNCHANGED <<jobs, job_events, processes, up, task, streams, faults>>

CancelMayWrite_NoWait(c) ==     \* terminates and does not wait
    \/ /\ cancels[c].pc = "checked"
       /\ cancels[c].job \notin processes[cancels[c].runner]
    \/ /\ cancels[c].pc = "waiting"
       /\ LoopFree(cancels[c].runner)

CancelMayWrite_StillListed(c) ==     \* expects the process in the dict after the wait
    \/ /\ cancels[c].pc = "checked"
       /\ cancels[c].job \notin processes[cancels[c].runner]
    \/ /\ cancels[c].pc = "waiting"
       /\ worker[cancels[c].job].status = "exited"
       /\ cancels[c].job \in processes[cancels[c].runner]
       /\ LoopFree(cancels[c].runner)

\* There is no process here to wait for, or proc.wait has returned.
CancelMayWrite(c) ==
    \/ /\ cancels[c].pc = "checked"
       /\ cancels[c].job \notin processes[cancels[c].runner]
    \/ /\ cancels[c].pc = "waiting"
       /\ worker[cancels[c].job].status = "exited"
       /\ LoopFree(cancels[c].runner)

\* The last line of cancel: state 'cancelled' with the progress read at first.
CancelWrite(c) ==
    LET j == cancels[c].job
    IN  /\ CancelMayWrite(c)
        /\ SetState(j, "cancelled", cancels[c].progress)
        /\ cancels' = [cancels EXCEPT ![c].pc = "done"]
        /\ UNCHANGED <<job_events, processes, up, worker, task, streams, faults>>

\* That write raises, and cancel with it.
CancelRaises(c) ==
    /\ CancelMayWrite(c) /\ Fault
    /\ cancels' = [cancels EXCEPT ![c].pc = "dead"]
    /\ UNCHANGED <<jobs, job_events, processes, up, worker, task, streams>>

-------------------------------------------------------------------------------
(* stream_events.                                                          *)

StreamOpen(s, r, j) ==
    /\ streams[s].pc = "idle"
    /\ LoopFree(r)
    /\ jobs[j].state # "absent"
    /\ streams' = [streams EXCEPT ![s] =
                     [@ EXCEPT !.pc = "polling", !.job = j, !.runner = r]]
    /\ UNCHANGED <<jobs, job_events, processes, up, worker, task, cancels, faults>>

NewRows_All(s) == job_events[streams[s].job]     \* forgets seq > last_seq

NewRows_NotAtEnd(s) ==     \* looks at the state before it yields
    IF Terminal(streams[s].job) THEN <<>>
    ELSE SubSeq(job_events[streams[s].job], streams[s].last_seq + 1,
                Len(job_events[streams[s].job]))

NewRows(s) == SubSeq(job_events[streams[s].job], streams[s].last_seq + 1,
                     Len(job_events[streams[s].job]))

\* The rows after last_seq and the state, read in one critical section; the
\* rows are yielded, and the stream ends when that state is terminal.
StreamPoll(s) ==
    LET j == streams[s].job
    IN  /\ streams[s].pc = "polling"
        /\ LoopFree(streams[s].runner)
        /\ streams' = [streams EXCEPT ![s] =
                         [@ EXCEPT !.got = streams[s].got \o NewRows(s),
                                   !.last_seq = Len(job_events[j]),
                                   !.pc = IF Terminal(j) THEN "ended" ELSE "polling"]]
        /\ UNCHANGED <<jobs, job_events, processes, up, worker, task, cancels, faults>>

\* A poll raises, and the stream with it.
StreamRaises(s) ==
    /\ streams[s].pc = "polling" /\ LoopFree(streams[s].runner) /\ Fault
    /\ streams' = [streams EXCEPT ![s].pc = "dead"]
    /\ UNCHANGED <<jobs, job_events, processes, up, worker, task, cancels>>

-------------------------------------------------------------------------------
(* The app of a runner dies and may be started again.                      *)

Die(rec, r) == IF rec.runner = r /\ rec.pc \notin {"done", "noop", "ended"}
               THEN [rec EXCEPT !.pc = "dead"] ELSE rec

\* The pipes of its workers lose their reading ends, and with them what was not read.
RunnerCrash(r) ==
    /\ up[r] /\ Fault
    /\ up' = [up EXCEPT ![r] = FALSE]
    /\ processes' = [processes EXCEPT ![r] = {}]
    /\ task' = [j \in Jobs |-> Die(task[j], r)]
    /\ cancels' = [c \in Cancels |-> Die(cancels[c], r)]
    /\ streams' = [s \in Streams |-> Die(streams[s], r)]
    /\ worker' = [j \in Jobs |-> IF task[j].runner # r THEN worker[j]
                                 ELSE [worker[j] EXCEPT !.stdout = <<>>, !.orphan = TRUE]]
    /\ UNCHANGED <<jobs, job_events>>

\* __init__ on an existing database: an empty dict, the tables as they were.
RunnerStart(r) ==
    /\ ~up[r]
    /\ up' = [up EXCEPT ![r] = TRUE]
    /\ UNCHANGED <<jobs, job_events, processes, worker, task, cancels, streams, faults>>

-------------------------------------------------------------------------------

Init ==
    /\ jobs = [j \in Jobs |-> [state |-> "absent", progress |-> 0, started |-> FALSE,
                               finished |-> FALSE, error |-> "none"]]
    /\ job_events = [j \in Jobs |-> <<>>]
    /\ processes = [r \in Runners |-> {}]
    /\ up = [r \in Runners |-> TRUE]
    /\ worker = [j \in Jobs |-> [status |-> "none", script |-> <<>>, rc |-> "zero",
                                 pos |-> 0, stdout |-> <<>>, closed |-> FALSE,
                                 stderr |-> 0, term |-> FALSE, orphan |-> FALSE]]
    /\ task = [j \in Jobs |-> [pc |-> "none", runner |-> None]]
    /\ cancels = [c \in Cancels |-> [pc |-> "idle", job |-> None, runner |-> None,
                                     progress |-> 0]]
    /\ streams = [s \in Streams |-> [pc |-> "idle", job |-> None, runner |-> None,
                                     last_seq |-> 0, got |-> <<>>]]
    /\ faults = 0

Next ==
    \/ \E r \in Runners, j \in Jobs : Submit(r, j) \/ SubmitWithProcess(r, j)
    \/ \E j \in Jobs, cmd \in Cmds : Spawn(j, cmd) \/ SpawnUnrecorded(j, cmd)
    \/ \E j \in Jobs : \/ SpawnFails(j) \/ WorkerStep(j)
                       \/ DrainLine(j) \/ DrainRaises(j) \/ DrainEnd(j)
                       \/ SuperviseExit(j) \/ SuperviseFails(j) \/ SuperviseLost(j)
    \/ \E c \in Cancels, r \in Runners, j \in Jobs : CancelCheck(c, r, j)
    \/ \E c \in Cancels : CancelSignal(c) \/ CancelWrite(c) \/ CancelRaises(c)
    \/ \E s \in Streams, r \in Runners, j \in Jobs : StreamOpen(s, r, j)
    \/ \E s \in Streams : StreamPoll(s) \/ StreamRaises(s)
    \/ \E r \in Runners : RunnerCrash(r) \/ RunnerStart(r)

Spec == Init /\ [][Next]_vars

\* Fairness.  The operating system runs the worker and delivers its signal, the
\* executor threads run, and the event loop resumes every ready coroutine and
\* wakes every sleeping stream.  Nothing makes a caller submit, cancel or open a
\* stream, nothing restarts an app, and no fault ever has to happen.
Fairness ==
    /\ \A j \in Jobs : /\ WF_vars(\E cmd \in Cmds : Spawn(j, cmd))
                       /\ WF_vars(WorkerStep(j))
                       /\ WF_vars(DrainLine(j) \/ DrainRaises(j) \/ DrainEnd(j))
                       /\ WF_vars(SuperviseExit(j) \/ SuperviseFails(j))
    /\ \A c \in Cancels : WF_vars(CancelSignal(c) \/ CancelWrite(c))
    /\ \A s \in Streams : WF_vars(StreamPoll(s))

FairSpec == Spec /\ Fairness

-------------------------------------------------------------------------------
(* Properties.                                                             *)

TypeOK ==
    /\ jobs \in [Jobs -> Row]
    /\ job_events \in [Jobs -> Seq(Nat)]
    /\ processes \in [Runners -> SUBSET Jobs]
    /\ up \in [Runners -> BOOLEAN]
    /\ worker \in [Jobs -> Worker]
    /\ task \in [Jobs -> Task]
    /\ cancels \in [Cancels -> Cancel]
    /\ streams \in [Streams -> Stream]
    /\ faults \in 0..MaxFaults
    /\ \A s \in Streams : streams[s].pc = "polling" => streams[s].job \in Jobs

\* The lines of job j that went into its stdout pipe and become events.
Output(j) ==
    {n \in 1..worker[j].pos :
        /\ Captured(worker[j].script[n])
        /\ \A m \in 1..n : worker[j].script[m] # "close"}

Recorded(j) == Range(job_events[j])

InPipe(j) == Range(worker[j].stdout)

Increasing(seq) == \A i, k \in DOMAIN seq : i < k => seq[i] < seq[k]

\* Nobody reads what the worker of job j writes: its supervision raised, with or without
\* a row that says so, its spawn did, or its app died.
Unread(j) == \/ task[j].pc \in {"raised", "lost", "dead"}
             \/ task[j].pc = "done" /\ jobs[j].error = "exception"

\* The event log is the worker's output: recorded once, in the order written and without
\* a gap, whatever fails.  What is missing at its end is still in the pipe, unless nobody
\* reads that any more: a cancel, another runner or a full pipe loses nothing
\* (_drain_stdout, _append_event).
LogFollowsOutput ==
    \A j \in Jobs :
        /\ Increasing(job_events[j])
        /\ Recorded(j) \subseteq Output(j)
        /\ \A m \in Output(j), n \in Recorded(j) : m < n => m \in Recorded(j)
        /\ Unread(j) \/ Output(j) \subseteq Recorded(j) \cup InPipe(j)

\* A verdict on the worker is never premature: whoever reads 'succeeded' or the
\* exit code's 'failed' finds the worker gone, with that outcome, and its whole
\* output in the log (_supervise drains, waits and only then sets the state),
\* whatever cancels, crashes and other runners did to the row in between.
VerdictMatchesWorker ==
    \A j \in Jobs :
        jobs[j].state = "succeeded" \/ (jobs[j].state = "failed" /\ jobs[j].error = "exit")
        => /\ worker[j].status = "exited"
           /\ worker[j].rc = (IF jobs[j].state = "succeeded" THEN "zero" ELSE "nonzero")
           /\ Output(j) = Recorded(j)

\* What a stream has yielded is always a prefix of the event log: no event
\* twice, none skipped, none out of order (stream_events, last_seq).
StreamIsPrefix ==
    \A s \in Streams : \A j \in Jobs :
        streams[s].job = j =>
            /\ streams[s].last_seq <= Len(job_events[j])
            /\ streams[s].got = SubSeq(job_events[j], 1, streams[s].last_seq)

\* A stream that ended by itself has yielded every event its job will ever have,
\* unless a cancel touched the job or an append failed: rows and state are read
\* in one critical section, and the supervisor sets the state after the drain.
StreamComplete ==
    \A s \in Streams : \A j \in Jobs :
        /\ streams[s].pc = "ended" /\ streams[s].job = j
        /\ ~Touched(j) /\ jobs[j].error # "exception"
        => /\ worker[j].status = "exited"
           /\ Range(streams[s].got) = Output(j)

\* A call of cancel() by another runner than the job's own has written its row.
CancelledElsewhere(j) ==
    \E c \in Cancels : /\ cancels[c].job = j /\ cancels[c].pc = "done"
                      /\ cancels[c].runner # task[j].runner

CancelledSomewhere(j) ==
    \E c \in Cancels : cancels[c].job = j /\ cancels[c].pc = "done"

\* The runner that owns the worker of job j no longer knows it: its app died, or its
\* supervision gave up on it and could not write that down.
Forgotten(j) == \/ task[j].pc = "dead"
                \/ task[j].pc = "lost" /\ j \notin processes[task[j].runner]

\* A live worker behind a terminal row is always explained: its supervision raised, or
\* cancel was called where the subprocess is not known (another runner of the suite,
\* the app after a restart, the runner that has forgotten it).  A runner that knows its
\* worker, supervised or not, calls the job cancelled only when the worker has exited
\* (cancel waits before it writes).
TerminalMeansExited ==
    \A j \in Jobs :
        Terminal(j) /\ worker[j].status = "alive"
        => \/ jobs[j].error = "exception"
           \/ CancelledElsewhere(j)
           \/ CancelledSomewhere(j) /\ Forgotten(j)

\* Without a cancel a terminal state is final: nothing writes the row again,
\* not even a supervisor whose drain failed or an app that starts again.
UntouchedIsFinal ==
    [][\A j \in Jobs : Terminal(j) /\ ~Touched(j) => jobs'[j] = jobs[j]]_vars

\* A terminal job goes back to a non-terminal state only when another runner
\* cancelled it between the INSERT and the 'running' of its own runner.
RevivedOnlyAcrossRunners ==
    [][\A j \in Jobs :
         Terminal(j) /\ ~Terminal(j)'
         => task[j].pc = "spawn" /\ CancelledElsewhere(j)]_vars

\* A cancelled job stays cancelled (the tests of cancel() expect that state after
\* the call).  It does not: the supervisor of a terminated worker reports the
\* exit code on top of it, and cancel may write on top of 'succeeded' likewise.
CancelledStays ==
    [][\A j \in Jobs : jobs[j].state = "cancelled" => jobs'[j].state = "cancelled"]_vars

\* A job given to a supervisor reaches a terminal state (_supervise: "Drain
\* worker stdout into events, wait for exit, and set terminal state").
SupervisedEnds ==
    \A j \in Jobs : task[j].pc \in {"spawn", "drain", "wait"} ~> Terminal(j)

\* The row of a supervised job settles: the last of the supervisor and the
\* cancels to write leaves it terminal for good, never back at 'running'.
SupervisedSettles ==
    \A j \in Jobs : task[j].pc = "drain" ~> []Terminal(j)

\* A cancel that found its job running returns, also when the job's worker is
\* blocked in a write and when the supervisor reaps the worker first.
CancelReturns ==
    \A c \in Cancels : cancels[c].pc = "checked" ~> cancels[c].pc = "done"

-------------------------------------------------------------------------------
(* The inductive invariant behind the safety properties (LongJobsProofs).  *)

\* Lines in the pipe: what job j wrote before it closed its stdout.
Piped(j) == {n \in 1..worker[j].pos : /\ worker[j].script[n] \in LineKinds
                                      /\ \A m \in 1..n : worker[j].script[m] # "close"}

\* The task and the worker of a job begin together, and the row precedes them.
TaskInv(j) ==
    /\ task[j].pc # "none" <=> task[j].runner \in Runners
    /\ task[j].pc \in {"none", "spawn"} => worker[j].status = "none"
    /\ task[j].pc \in {"drain", "raised", "wait"} =>
          /\ worker[j].status # "none"
          /\ j \in processes[task[j].runner]
    /\ task[j].pc \in {"none", "spawn", "drain", "wait"} => ~worker[j].orphan
    /\ task[j].pc # "done" => jobs[j].error = "none"
    /\ task[j].pc = "done" /\ worker[j].status = "alive" => jobs[j].error = "exception"
    /\ jobs[j].state = "absent" => task[j].pc = "none"

\* The worker's position, its pipe and the log stay in step.
PipeInv(j) ==
    /\ worker[j].pos <= Len(worker[j].script)
    /\ worker[j].status = "none" => /\ worker[j].pos = 0
                                   /\ worker[j].stdout = <<>>
                                   /\ job_events[j] = <<>>
                                   /\ ~worker[j].closed
    /\ worker[j].closed <=> \E m \in 1..worker[j].pos : worker[j].script[m] = "close"
    /\ worker[j].orphan => worker[j].stdout = <<>>
    /\ Increasing(worker[j].stdout) /\ InPipe(j) \subseteq Piped(j)
    /\ \A m \in Recorded(j), n \in InPipe(j) : m < n

\* Terminal rows: who wrote them, and what was true then and stays true.
RowInv(j) ==
    /\ Terminal(j) /\ ~Touched(j) => task[j].pc = "done"
    /\ jobs[j].state = "cancelled" => Touched(j)
    /\ jobs[j].state = "failed" => jobs[j].error # "none"
    /\ jobs[j].state \in {"succeeded", "failed"} => task[j].pc = "done"
    /\ Terminal(j) /\ task[j].pc = "spawn" => CancelledElsewhere(j)

\* Past the drain there is nothing left to read.
DrainedInv(j) ==
    \/ task[j].pc = "wait"
    \/ task[j].pc = "done" /\ worker[j].status = "exited" /\ jobs[j].error # "exception"
    \/ jobs[j].state = "succeeded" \/ (jobs[j].state = "failed" /\ jobs[j].error = "exit")
    => /\ worker[j].stdout = <<>>
       /\ worker[j].closed \/ worker[j].status = "exited"

StreamInv(s) ==
    /\ streams[s].pc = "idle" => streams[s].job = None
    /\ streams[s].job = None => streams[s].last_seq = 0 /\ streams[s].got = <<>>
    /\ \A j \in Jobs : streams[s].pc = "ended" /\ streams[s].job = j /\ ~Touched(j)
                      => Terminal(j) /\ streams[s].last_seq = Len(job_events[j])

CancelInv(c) ==
    cancels[c].pc \in {"checked", "waiting", "done"} =>
        /\ cancels[c].job \in Jobs /\ cancels[c].runner \in Runners
        /\ jobs[cancels[c].job].state # "absent"
        /\ cancels[c].pc = "checked" =>
              \/ task[cancels[c].job].pc # "spawn"
              \/ cancels[c].runner # task[cancels[c].job].runner

IInv ==
    /\ TypeOK /\ LogFollowsOutput /\ VerdictMatchesWorker /\ StreamIsPrefix
    /\ TerminalMeansExited
    /\ \A j \in Jobs : TaskInv(j) /\ PipeInv(j) /\ RowInv(j) /\ DrainedInv(j)
    /\ \A s \in Streams : StreamInv(s)
    /\ \A c \in Cancels : CancelInv(c)

-------------------------------------------------------------------------------
(* The event feed this module implements, for the jobs no cancel touched.  *)

\* Nothing will be recorded any more.
Closed == [j \in Jobs |-> Terminal(j) /\ ~Touched(j)]

Following == [s \in Streams |-> streams[s].job]
Received == [s \in Streams |-> streams[s].got]

\* The stream ended with all there is.
Served == [s \in Streams |-> streams[s].pc = "ended" /\ Closed[streams[s].job]]

Feed == INSTANCE EventFeed WITH
    Topics  <- Jobs,
    Readers <- Streams,
    Events  <- UNION {1..Len(cmd.script) : cmd \in Cmds},
    Nothing <- None,
    log     <- job_events,
    closed  <- Closed,
    topic   <- Following,
    got     <- Received,
    ended   <- Served

\* The runner implements the abstract feed: an append-only log per job that is
\* closed once, and readers that get all of it and then end.
ImplementsFeed == Feed!FairSpec
===============================================================================
