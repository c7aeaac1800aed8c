--------------------------- MODULE ProfileSupervisor ---------------------------
(***************************************************************************)
(* The supervisor of the Hermes bridge's profile workers                   *)
(* (profile_supervisor.py) and the command loop of a worker                *)
(* (profile_worker.py).                                                    *)
(*                                                                         *)
(* Every native profile has a child process of its own.  The message loop  *)
(* of the bridge hands dispatches over to it, tasks of their own hand over *)
(* structured jobs, a reaper stops idle workers, and the end of a          *)
(* connection stops all of them.  They share a registry under an asyncio   *)
(* lock; what lies between two awaits is one step.                         *)
(*                                                                         *)
(* A worker reads one command at a time.  A dispatch starts a run that     *)
(* goes on beside the commands, a structured job is executed before the    *)
(* next command is read.                                                   *)
(***************************************************************************)
EXTENDS Naturals, Sequences, FiniteSets

CONSTANTS
    Dispatch,       \* dispatches, handed over by the message loop
    Job,            \* structured jobs, each handed over by a task of its own
    NoWork,
    Profile,        \* external ids of native profiles
    ProfileOf,      \* the profile of a dispatch or job
    EpochOf,        \* its binding epoch
    NoEpoch,
    Process,        \* names for child processes; one that is gone is used again
    NoProcess,
    MaxWorkers,     \* MAX_PROFILE_WORKERS
    MaxRestarts,    \* MAX_RESTARTS_PER_MINUTE
    Redelivered,    \* what Relay delivers twice; the rest once (a bound)
    Faults          \* what may go wrong: "death" of a process, "drop" of the
                    \* socket, "post" of a result refused, "idle" timeout

Work == Dispatch \cup Job

ASSUME SupervisorAssumption ==
    /\ IsFiniteSet(Profile) /\ Profile # {}
    /\ IsFiniteSet(Process)
    /\ Dispatch \cap Job = {}
    /\ NoWork \notin Work
    /\ ProfileOf \in [Work -> Profile]
    /\ NoEpoch \notin {EpochOf[w] : w \in Work}
    /\ NoProcess \notin Process
    /\ Work \cap {"loop", "reaper", "none"} = {}
    /\ MaxWorkers \in Nat \ {0}
    /\ MaxRestarts \in Nat \ {0}
    /\ Redelivered \subseteq Work
    /\ Faults \subseteq {"death", "drop", "post", "idle"}

VARIABLES
    workers,   \* _workers: the process registered for each profile
    lock,      \* the task that holds _registry_lock, or "none"
    task,      \* the tasks of the bridge: the message loop, the reaper, jobs
    restarts,  \* _restart_times: starts of each profile in the last minute
    conn,      \* whether the websocket is open
    mapped,    \* the keys of _native_dispatch_profiles
    proc,      \* the child processes
    inbox,     \* the commands written to each process and not yet read
    pipe,      \* the results each process has written and nobody has read
    reader,    \* whether the reader task of each process is there
    ledger,    \* the dispatches in the state file of each profile's home
    delivered, \* how often each dispatch or job was received
    execs,     \* how often each dispatch was executed
    answered,  \* the dispatches and jobs whose result was passed on
    overlap    \* the profiles that ever had two live processes

bridgeVars == <<workers, lock, task, restarts, conn, mapped>>
procVars == <<proc, inbox, pipe, reader>>
ghostVars == <<delivered, execs, answered, overlap>>
vars == <<bridgeVars, procVars, ledger, ghostVars>>

--------------------------------------------------------------------------------
Task == Job \cup {"loop", "reaper"}

\* Where a task is.  A job's task is "new" until it first runs.  A task that
\* hands work over waits for the registry lock, or holds it while it stops or
\* starts a process.  The reaper sleeps ("idle"), waits, holds the lock ("reap"),
\* or is not there.  The message loop is between two connections, or stops every
\* worker.
TaskState ==
    [at : {"off", "offline", "idle", "new", "lock", "stop", "start", "reap",
           "closing", "drain"},
     work : Work \cup {NoWork},          \* what is handed over
     process : Process \cup {NoProcess}, \* the process being stopped
     todo : SUBSET Process]              \* the processes to stop after it

Resting(at) == [at |-> at, work |-> NoWork, process |-> NoProcess, todo |-> {}]
Handing(at, w, q) == [at |-> at, work |-> w, process |-> q, todo |-> {}]
Stopping(at, q, todo) == [at |-> at, work |-> NoWork, process |-> q, todo |-> todo]

\* A process has "ended", and is "gone" when its returncode is set.
ProcState ==
    [at : {"gone", "live", "ended"},
     epoch : {EpochOf[w] : w \in Work} \cup {NoEpoch},
     home : Profile,
     idle : BOOLEAN,                     \* last_used is older than the timeout
     known : SUBSET Dispatch,            \* the process's copy of its ledger
     running : SUBSET Dispatch,
     job : Job \cup {NoWork}]

Ended(at, e, p, i) == [at |-> at, epoch |-> e, home |-> p, idle |-> i,
                       known |-> {}, running |-> {}, job |-> NoWork]
Gone == Ended("gone", NoEpoch, CHOOSE p \in Profile : TRUE, FALSE)

Command == [type : {"initialize", "work", "cancel", "shutdown"},
            work : Work \cup {NoWork}]
Cmd(type, w) == [type |-> type, work |-> w]

RegisteredIn(W) == {p \in Profile : W[p] # NoProcess}
Registered == {workers[p] : p \in RegisteredIn(workers)}
Live(q) == proc[q].at = "live"

\* A write to a process that has ended goes nowhere.
Write(q, c) == inbox' = IF Live(q) THEN [inbox EXCEPT ![q] = Append(@, c)]
                        ELSE inbox

\* A name nothing in the bridge refers to.
Free(q) == /\ proc[q].at = "gone"
           /\ \A p \in Profile : workers[p] # q
           /\ \A t \in Task : task[t].process # q /\ q \notin task[t].todo

Init ==
    /\ workers = [p \in Profile |-> NoProcess]
    /\ lock = "none"
    /\ task = [t \in Task |-> Resting(IF t = "reaper" THEN "off"
                                      ELSE IF t = "loop" THEN "offline"
                                      ELSE "idle")]
    /\ restarts = [p \in Profile |-> 0]
    /\ conn = FALSE
    /\ mapped = {}
    /\ proc = [q \in Process |-> Gone]
    /\ inbox = [q \in Process |-> <<>>]
    /\ pipe = [q \in Process |-> <<>>]
    /\ reader = [q \in Process |-> FALSE]
    /\ ledger = [p \in Profile |-> {}]
    /\ delivered = [w \in Work |-> 0]
    /\ execs = [d \in Dispatch |-> 0]
    /\ answered = {}
    /\ overlap = {}

--------------------------------------------------------------------------------
\* Work arrives.  The message loop goes on with its next message only when a
\* dispatch is handed over; a job gets a task.

EnsureReaper(T) == IF T["reaper"].at = "off"
                   THEN [T EXCEPT !["reaper"] = Resting("idle")] ELSE T

MayReceive(w) == delivered[w] < IF w \in Redelivered THEN 2 ELSE 1

\* A dispatch for a native profile, live or from the backfill.
ReceiveDispatch(d) ==
    /\ conn /\ task["loop"].at = "idle" /\ MayReceive(d)
    /\ delivered' = [delivered EXCEPT ![d] = @ + 1]
    /\ task' = EnsureReaper([task EXCEPT !["loop"] = Handing("lock", d, NoProcess)])
    /\ UNCHANGED <<workers, lock, restarts, conn, mapped, procVars, ledger,
                   execs, answered, overlap>>

ReceiveJob(j) ==
    /\ conn /\ task["loop"].at = "idle" /\ task[j].at = "idle"
    /\ MayReceive(j)
    /\ delivered' = [delivered EXCEPT ![j] = @ + 1]
    /\ task' = [task EXCEPT ![j] = Handing("new", j, NoProcess)]
    /\ UNCHANGED <<workers, lock, restarts, conn, mapped, procVars, ledger,
                   execs, answered, overlap>>

JobBegins(j) ==
    /\ task[j].at = "new"
    /\ task' = EnsureReaper([task EXCEPT ![j] = Handing("lock", j, NoProcess)])
    /\ UNCHANGED <<workers, lock, restarts, conn, mapped, procVars, ledger,
                   ghostVars>>

\* Work is refused: the failure is sent for a dispatch, posted for a job.
Refuse(t) ==
    /\ task' = [task EXCEPT ![t] = Resting("idle")]
    /\ mapped' = mapped \ {task[t].work}
    /\ answered' = answered \cup {task[t].work}

\* What becomes of the work written to a worker.
Handed(t) ==
    /\ task' = [task EXCEPT ![t] = Resting("idle")]
    /\ mapped' = mapped \cup ({task[t].work} \cap Dispatch)

\* The registered worker of a profile is used when its process has not been
\* seen to end and its binding epoch is the same.
Usable(q, w) == /\ q # NoProcess
                /\ proc[q].at # "gone" /\ proc[q].epoch = EpochOf[w]

\* The lookup does not wait for the registry lock.
Bug_UseWorkerUnlocked(t) ==
    LET w == task[t].work
        q == workers[ProfileOf[w]]
    IN  /\ task[t].at = "lock" /\ w # NoWork /\ Usable(q, w)
        /\ Handed(t)
        /\ Write(q, Cmd("work", w))
        /\ proc' = [proc EXCEPT ![q].idle = FALSE]
        /\ UNCHANGED <<workers, lock, restarts, conn, pipe, reader, ledger,
                       ghostVars>>

\* The lookup finds a usable worker and the command is written to it.  Writing
\* to one that has ended fails, or is lost.
UseWorker(t) ==
    LET w == task[t].work
        q == workers[ProfileOf[w]]
    IN  /\ task[t].at = "lock" /\ lock = "none" /\ w # NoWork /\ Usable(q, w)
        /\ \/ /\ Handed(t)
              /\ Write(q, Cmd("work", w))
              /\ answered' = answered
           \/ ~Live(q) /\ Refuse(t) /\ inbox' = inbox
        /\ proc' = [proc EXCEPT ![q].idle = FALSE]
        /\ UNCHANGED <<workers, lock, restarts, conn, pipe, reader, ledger,
                       delivered, execs, overlap>>

\* With the lock, and no worker registered for the profile in W: start one,
\* within the limits of the registry and of the restarts of the last minute.
Admit(t, W) ==
    LET p == ProfileOf[task[t].work]
    IN  /\ workers' = W
        /\ \/ /\ Cardinality(RegisteredIn(W)) < MaxWorkers
              /\ restarts[p] < MaxRestarts
              /\ restarts' = [restarts EXCEPT ![p] = @ + 1]
              /\ lock' = t
              /\ task' = [task EXCEPT ![t] = Handing("start", task[t].work, NoProcess)]
              /\ UNCHANGED <<mapped, answered>>
           \/ /\ \/ Cardinality(RegisteredIn(W)) >= MaxWorkers
                 \/ restarts[p] >= MaxRestarts
              /\ lock' = "none" /\ Refuse(t) /\ UNCHANGED restarts

\* The end of _stop_worker: its reader is cancelled, what it had not read is
\* lost.
Dispose(q) ==
    /\ proc' = [proc EXCEPT ![q] = Gone]
    /\ reader' = [reader EXCEPT ![q] = FALSE]
    /\ inbox' = [inbox EXCEPT ![q] = <<>>]
    /\ pipe' = [pipe EXCEPT ![q] = <<>>]

\* The registry lock is only held for the lookup.
Bug_NewWorkerUnlocked(t) ==
    LET w == task[t].work
        q == workers[ProfileOf[w]]
    IN  /\ task[t].at = "lock" /\ w # NoWork /\ q = NoProcess
        /\ Admit(t, workers)
        /\ UNCHANGED <<procVars, conn, ledger, delivered, execs, overlap>>

\* No worker is registered, or one that has been seen to end.
NewWorker(t) ==
    LET w == task[t].work
        q == workers[ProfileOf[w]]
    IN  /\ task[t].at = "lock" /\ lock = "none" /\ w # NoWork
        /\ \/ q = NoProcess /\ Admit(t, workers) /\ UNCHANGED procVars
           \/ /\ q # NoProcess /\ proc[q].at = "gone"
              /\ Admit(t, [workers EXCEPT ![ProfileOf[w]] = NoProcess])
              /\ Dispose(q)
        /\ UNCHANGED <<conn, ledger, delivered, execs, overlap>>

\* A worker of another epoch is told to shut down and waited for, with the lock.
ReplaceWorker(t) ==
    LET w == task[t].work
        q == workers[ProfileOf[w]]
    IN  /\ task[t].at = "lock" /\ lock = "none" /\ w # NoWork
        /\ q # NoProcess /\ proc[q].at # "gone" /\ ~Usable(q, w)
        /\ lock' = t
        /\ task' = [task EXCEPT ![t] = Handing("stop", w, q)]
        /\ Write(q, Cmd("shutdown", NoWork))
        /\ UNCHANGED <<workers, restarts, conn, mapped, proc, pipe, reader,
                       ledger, ghostVars>>

ReplaceEnds(t) ==
    LET q == task[t].process
    IN  /\ task[t].at = "stop" /\ ~Live(q)
        /\ Admit(t, [workers EXCEPT ![ProfileOf[task[t].work]] = NoProcess])
        /\ Dispose(q)
        /\ UNCHANGED <<conn, ledger, delivered, execs, overlap>>

\* The process is there: its reader starts, it is initialised and registered,
\* the lock is released and the command is written.
Started(t) ==
    LET w == task[t].work
        p == ProfileOf[w]
    IN  /\ task[t].at = "start"
        /\ \E q \in Process : Free(q)
        /\ LET q == CHOOSE x \in Process : Free(x)
           IN  /\ proc' = [proc EXCEPT ![q] = Ended("live", EpochOf[w], p, FALSE)]
               /\ reader' = [reader EXCEPT ![q] = TRUE]
               /\ inbox' = [inbox EXCEPT ![q] = <<Cmd("initialize", NoWork),
                                                  Cmd("work", w)>>]
               /\ workers' = [workers EXCEPT ![p] = q]
        /\ overlap' = IF \E r \in Process : Live(r) /\ proc[r].home = p
                      THEN overlap \cup {p} ELSE overlap
        /\ Handed(t)
        /\ lock' = "none"
        /\ UNCHANGED <<restarts, conn, pipe, ledger, delivered, execs, answered>>

\* The process cannot be created, or it is and ends before "initialize" is
\* written to it: it has its reader, and is never registered.
StartFails(t) ==
    /\ "death" \in Faults
    /\ task[t].at = "start"
    /\ \/ UNCHANGED <<proc, reader>>
       \/ /\ \E q \in Process : Free(q)
          /\ LET q == CHOOSE x \in Process : Free(x)
                 p == ProfileOf[task[t].work]
             IN  /\ proc' = [proc EXCEPT ![q] = Ended("ended", EpochOf[task[t].work],
                                                      p, FALSE)]
                 /\ reader' = [reader EXCEPT ![q] = TRUE]
    /\ Refuse(t)
    /\ lock' = "none"
    /\ UNCHANGED <<workers, restarts, conn, inbox, pipe, ledger, delivered, execs,
                   overlap>>

--------------------------------------------------------------------------------
\* A cancel from Relay.

\* The worker of a mapped dispatch is told, without the registry lock.  One
\* cancel of a dispatch is on its way at a time (a bound of the model).
Cancel(d) ==
    /\ conn /\ task["loop"].at = "idle" /\ d \in mapped
    /\ LET q == workers[ProfileOf[d]]
       IN  /\ q # NoProcess /\ proc[q].at # "gone"
           /\ \A i \in DOMAIN inbox[q] : inbox[q][i] # Cmd("cancel", d)
           /\ Write(q, Cmd("cancel", d))
           /\ proc' = [proc EXCEPT ![q].idle = FALSE]
    /\ UNCHANGED <<bridgeVars, pipe, reader, ledger, ghostVars>>

\* The write to a worker that has ended fails; nothing catches it, and the
\* connection is given up.
CancelFails(d) ==
    /\ conn /\ task["loop"].at = "idle" /\ d \in mapped
    /\ LET q == workers[ProfileOf[d]]
       IN  q # NoProcess /\ proc[q].at = "ended"
    /\ conn' = FALSE
    /\ task' = [task EXCEPT !["loop"] = Resting("offline")]
    /\ UNCHANGED <<workers, lock, restarts, mapped, procVars, ledger, ghostVars>>

--------------------------------------------------------------------------------
\* The connection.

Connect ==
    /\ task["loop"].at = "offline"
    /\ conn' = TRUE
    /\ task' = [task EXCEPT !["loop"] = Resting("idle")]
    /\ UNCHANGED <<workers, lock, restarts, mapped, procVars, ledger, ghostVars>>

SocketDrops ==
    /\ "drop" \in Faults
    /\ conn
    /\ conn' = FALSE
    /\ UNCHANGED <<workers, lock, restarts, task, mapped, procVars, ledger,
                   ghostVars>>

\* The message loop fails with an exception: the workers stay.
LeaveByException ==
    /\ task["loop"].at = "idle" /\ ~conn
    /\ task' = [task EXCEPT !["loop"] = Resting("offline")]
    /\ UNCHANGED <<workers, lock, restarts, conn, mapped, procVars, ledger,
                   ghostVars>>

\* The message loop ends: the reaper is cancelled wherever it waits, and leaves
\* the registry as it is.
ShutdownBegins ==
    /\ task["loop"].at = "idle" /\ ~conn
    /\ task["reaper"].at = "reap" => task["reaper"].process # NoProcess
    /\ task' = [task EXCEPT !["loop"] = Resting("closing"),
                            !["reaper"] = Resting("off")]
    /\ lock' = IF lock = "reaper" THEN "none" ELSE lock
    /\ UNCHANGED <<workers, restarts, conn, mapped, procVars, ledger, ghostVars>>

\* The registry is emptied under the lock, the workers are stopped without it.
ShutdownTakes ==
    /\ task["loop"].at = "closing" /\ lock = "none"
    /\ task' = [task EXCEPT !["loop"] = Stopping("drain", NoProcess, Registered)]
    /\ workers' = [p \in Profile |-> NoProcess]
    /\ UNCHANGED <<lock, restarts, conn, mapped, procVars, ledger, ghostVars>>

--------------------------------------------------------------------------------
\* Stopping several workers one after the other, as the reaper ("reap", with the
\* registry lock) and the end of a connection ("drain") do.

ReaperWakes ==
    /\ task["reaper"].at = "idle"
    /\ task' = [task EXCEPT !["reaper"] = Resting("lock")]
    /\ UNCHANGED <<workers, lock, restarts, conn, mapped, procVars, ledger,
                   ghostVars>>

\* The reaper picks the workers nothing was sent to for the idle timeout.
ReaperTakes ==
    /\ task["reaper"].at = "lock" /\ lock = "none"
    /\ lock' = "reaper"
    /\ task' = [task EXCEPT !["reaper"] = Stopping("reap", NoProcess,
                                                   {q \in Registered : proc[q].idle})]
    /\ UNCHANGED <<workers, restarts, conn, mapped, procVars, ledger, ghostVars>>

StopsSeveral(t) == task[t].at \in {"reap", "drain"}

Unregister(q) == [p \in Profile |-> IF workers[p] = q THEN NoProcess ELSE workers[p]]

StopNext(t) ==
    /\ StopsSeveral(t) /\ task[t].process = NoProcess
    /\ \E q \in task[t].todo :
         /\ proc[q].at # "gone"
         /\ task' = [task EXCEPT ![t] = Stopping(task[t].at, q, task[t].todo \ {q})]
         /\ Write(q, Cmd("shutdown", NoWork))
    /\ UNCHANGED <<workers, lock, restarts, conn, mapped, proc, pipe, reader,
                   ledger, ghostVars>>

StopEnds(t) ==
    /\ StopsSeveral(t)
    /\ LET q == task[t].process
       IN  /\ q # NoProcess /\ ~Live(q)
           /\ workers' = Unregister(q)
           /\ Dispose(q)
    /\ task' = [task EXCEPT ![t] = Stopping(task[t].at, NoProcess, task[t].todo)]
    /\ UNCHANGED <<lock, restarts, conn, mapped, ledger, ghostVars>>

\* One seen to end is not waited for.
StopGone(t) ==
    /\ StopsSeveral(t) /\ task[t].process = NoProcess
    /\ \E q \in task[t].todo :
         /\ proc[q].at = "gone"
         /\ task' = [task EXCEPT ![t] = Stopping(task[t].at, NoProcess,
                                                 task[t].todo \ {q})]
         /\ workers' = Unregister(q)
         /\ Dispose(q)
    /\ UNCHANGED <<lock, restarts, conn, mapped, ledger, ghostVars>>

StopsDone(t) ==
    /\ StopsSeveral(t) /\ task[t].process = NoProcess /\ task[t].todo = {}
    /\ task' = [task EXCEPT ![t] = Resting(IF t = "loop" THEN "offline" ELSE "idle")]
    /\ lock' = IF lock = t THEN "none" ELSE lock
    /\ UNCHANGED <<workers, restarts, conn, mapped, procVars, ledger, ghostVars>>

\* A worker that does not shut down is waited for without end.
Bug_KillNever(q) == Live(q) /\ UNCHANGED vars

\* A process ends, with its runs and the commands it has not read.
Ends(q) ==
    /\ proc' = [proc EXCEPT ![q] = Ended("ended", proc[q].epoch, proc[q].home,
                                         proc[q].idle)]
    /\ inbox' = [inbox EXCEPT ![q] = <<>>]

\* A process that was told to shut down and is waited for: terminated after 5
\* seconds, killed after 3 more.
Kill(q) ==
    /\ Live(q) /\ \E t \in Task : task[t].process = q
    /\ Ends(q)
    /\ UNCHANGED <<bridgeVars, pipe, reader, ledger, ghostVars>>

--------------------------------------------------------------------------------
\* The worker process: commands are read in the order they were written, the
\* next one when the last is executed.

Reads(q, type) == /\ Live(q) /\ proc[q].job = NoWork
                  /\ inbox[q] # <<>> /\ Head(inbox[q]).type = type

Pop(q) == inbox' = [inbox EXCEPT ![q] = Tail(@)]

\* The state file is not loaded.
Bug_ReadInitializeFresh(q) ==
    /\ Reads(q, "initialize")
    /\ proc' = [proc EXCEPT ![q].known = {}]
    /\ Pop(q)
    /\ UNCHANGED <<bridgeVars, pipe, reader, ledger, ghostVars>>

\* The run manager is made, and loads the state file of the home.
ReadInitialize(q) ==
    /\ Reads(q, "initialize")
    /\ proc' = [proc EXCEPT ![q].known = ledger[proc[q].home]]
    /\ Pop(q)
    /\ UNCHANGED <<bridgeVars, pipe, reader, ledger, ghostVars>>

\* A dispatch starts a run unless this process knows it; the state file is
\* written whole, from the process's copy.  (A control command, /reset or /stop,
\* is answered without a run and is left out.)
ReadDispatch(q) ==
    /\ Reads(q, "work") /\ Head(inbox[q]).work \in Dispatch
    /\ LET d == Head(inbox[q]).work
           known == proc[q].known \cup {d}
       IN  \/ /\ d \in proc[q].known
              /\ UNCHANGED <<proc, ledger, execs>>
           \/ /\ d \notin proc[q].known
              /\ proc' = [proc EXCEPT ![q].known = known,
                                      ![q].running = @ \cup {d}]
              /\ ledger' = [ledger EXCEPT ![proc[q].home] = known]
              /\ execs' = [execs EXCEPT ![d] = @ + 1]
    /\ Pop(q)
    /\ UNCHANGED <<bridgeVars, pipe, reader, delivered, answered, overlap>>

\* A run ends, and its outcome is written.
RunEnds(q) ==
    /\ Live(q)
    /\ \E d \in proc[q].running :
         /\ proc' = [proc EXCEPT ![q].running = @ \ {d}]
         /\ pipe' = [pipe EXCEPT ![q] = Append(@, d)]
    /\ UNCHANGED <<bridgeVars, inbox, reader, ledger, ghostVars>>

\* A structured job is executed before the next command is read; so are skill
\* installations and host commands, which a job stands for.
ReadJob(q) ==
    /\ Reads(q, "work") /\ Head(inbox[q]).work \in Job
    /\ proc' = [proc EXCEPT ![q].job = Head(inbox[q]).work]
    /\ Pop(q)
    /\ UNCHANGED <<bridgeVars, pipe, reader, ledger, ghostVars>>

JobEnds(q) ==
    /\ Live(q) /\ proc[q].job # NoWork
    /\ pipe' = [pipe EXCEPT ![q] = Append(@, proc[q].job)]
    /\ proc' = [proc EXCEPT ![q].job = NoWork]
    /\ UNCHANGED <<bridgeVars, inbox, reader, ledger, ghostVars>>

ReadCancel(q) ==
    /\ Reads(q, "cancel")
    /\ LET d == Head(inbox[q]).work
       IN  IF d \in proc[q].running
           THEN /\ proc' = [proc EXCEPT ![q].running = @ \ {d}]
                /\ pipe' = [pipe EXCEPT ![q] = Append(@, d)]
           ELSE UNCHANGED <<proc, pipe>>
    /\ Pop(q)
    /\ UNCHANGED <<bridgeVars, reader, ledger, ghostVars>>

\* The command loop returns: the runs and the commands behind end with it.
ReadShutdown(q) ==
    /\ Reads(q, "shutdown")
    /\ Ends(q)
    /\ UNCHANGED <<bridgeVars, pipe, reader, ledger, ghostVars>>

Die(q) ==
    /\ "death" \in Faults
    /\ Live(q)
    /\ Ends(q)
    /\ UNCHANGED <<bridgeVars, pipe, reader, ledger, ghostVars>>

\* The returncode of an ended process is set.
Notice(q) ==
    /\ proc[q].at = "ended" /\ \A t \in Task : task[t].process # q
    /\ proc' = [proc EXCEPT ![q] = Ended("gone", proc[q].epoch, proc[q].home,
                                         proc[q].idle)]
    /\ UNCHANGED <<bridgeVars, inbox, pipe, reader, ledger, ghostVars>>

--------------------------------------------------------------------------------
\* The reader task of a process passes its results on.

Deliver(q) ==
    /\ reader[q] /\ pipe[q] # <<>>
    /\ answered' = answered \cup {Head(pipe[q])}
    /\ mapped' = mapped \ {Head(pipe[q])}
    /\ pipe' = [pipe EXCEPT ![q] = Tail(@)]
    /\ UNCHANGED <<workers, lock, task, restarts, conn, proc, inbox, reader,
                   ledger, delivered, execs, overlap>>

\* A result that Relay refuses, or an event of a running dispatch while the
\* socket is closed, ends the reader; nothing starts it again.
ReaderFails(q) ==
    /\ reader[q]
    /\ \/ /\ "post" \in Faults
          /\ pipe[q] # <<>> /\ Head(pipe[q]) \in Job
          /\ pipe' = [pipe EXCEPT ![q] = Tail(@)]
       \/ /\ ~conn /\ proc[q].running # {}
          /\ pipe' = pipe
    /\ reader' = [reader EXCEPT ![q] = FALSE]
    /\ UNCHANGED <<bridgeVars, proc, inbox, ledger, ghostVars>>

--------------------------------------------------------------------------------
\* Time.

\* A start is more than a minute ago.
StartAges(p) ==
    /\ restarts[p] > 0
    /\ restarts' = [restarts EXCEPT ![p] = @ - 1]
    /\ UNCHANGED <<workers, lock, task, conn, mapped, procVars, ledger, ghostVars>>

\* Nothing was sent to a worker for the idle timeout.
IdleTimeout(q) ==
    /\ "idle" \in Faults
    /\ \E p \in Profile : workers[p] = q
    /\ ~proc[q].idle
    /\ proc' = [proc EXCEPT ![q].idle = TRUE]
    /\ UNCHANGED <<bridgeVars, inbox, pipe, reader, ledger, ghostVars>>

--------------------------------------------------------------------------------
HandsOver(t) == \/ UseWorker(t) \/ NewWorker(t) \/ ReplaceWorker(t)
                \/ ReplaceEnds(t) \/ Started(t) \/ StartFails(t)

Arrivals == \/ \E d \in Dispatch : ReceiveDispatch(d) \/ Cancel(d) \/ CancelFails(d)
            \/ \E j \in Job : ReceiveJob(j) \/ JobBegins(j)

Connection == \/ Connect \/ SocketDrops \/ LeaveByException
              \/ ShutdownBegins \/ ShutdownTakes

Stops(t) == StopNext(t) \/ StopEnds(t) \/ StopGone(t) \/ StopsDone(t)

WorkerStep(q) == \/ ReadInitialize(q) \/ ReadDispatch(q) \/ ReadJob(q)
                 \/ ReadCancel(q) \/ ReadShutdown(q) \/ RunEnds(q) \/ JobEnds(q)

Reading(q) == Deliver(q) \/ ReaderFails(q)

Next == \/ Arrivals \/ Connection
        \/ \E t \in Job \cup {"loop"} : HandsOver(t)
        \/ ReaperWakes \/ ReaperTakes
        \/ \E t \in {"loop", "reaper"} : Stops(t)
        \/ \E q \in Process : WorkerStep(q) \/ Reading(q) \/ Kill(q) \/ Die(q)
                              \/ Notice(q) \/ IdleTimeout(q)
        \/ \E p \in Profile : StartAges(p)

Spec == Init /\ [][Next]_vars

\* asyncio's lock serves its waiters in the order they came; a process is waited
\* for 8 seconds at most, and the end of one is seen.
Fairness ==
    /\ SF_vars(UseWorker("loop") \/ NewWorker("loop") \/ ReplaceWorker("loop"))
    /\ SF_vars(ShutdownTakes)
    /\ \A t \in Job \cup {"loop"} : WF_vars(ReplaceEnds(t) \/ Started(t))
    /\ \A t \in {"loop", "reaper"} : WF_vars(Stops(t))
    /\ \A q \in Process : WF_vars(Kill(q)) /\ WF_vars(Notice(q))

FairSpec == Spec /\ Fairness

--------------------------------------------------------------------------------
\* The registry, tasks and processes keep their types; the starts counted for a
\* profile stay within the limit.
TypeOK ==
    /\ workers \in [Profile -> Process \cup {NoProcess}]
    /\ lock \in Task \cup {"none"}
    /\ task \in [Task -> TaskState]
    /\ restarts \in [Profile -> 0 .. MaxRestarts]
    /\ conn \in BOOLEAN
    /\ mapped \subseteq Dispatch
    /\ proc \in [Process -> ProcState]
    /\ inbox \in [Process -> Seq(Command)]
    /\ pipe \in [Process -> Seq(Work)]
    /\ reader \in [Process -> BOOLEAN]
    /\ ledger \in [Profile -> SUBSET Dispatch]
    /\ delivered \in [Work -> 0 .. 2]
    /\ execs \in [Dispatch -> Nat]
    /\ answered \subseteq Work
    /\ overlap \subseteq Profile

\* The processes the end of a connection still has to stop.
Draining == IF task["loop"].at = "drain"
            THEN task["loop"].todo \cup {task["loop"].process} ELSE {}

\* Whatever the tasks of the bridge do at once, there are never more processes
\* than the limit, those aside that the end of a connection is stopping.
BoundedWorkers == Cardinality({q \in Process : Live(q)} \ Draining) <= MaxWorkers

\* A profile's home belongs to one process at a time, again with the exception
\* of one that the end of a connection is stopping.
OneHomeOneProcess ==
    \A q, r \in Process \ Draining :
        Live(q) /\ Live(r) /\ proc[q].home = proc[r].home => q = r

\* The state is well typed, and the processes are within the limit and one to a home,
\* however the message loop, the jobs and the reaper interleave.
Consistent == TypeOK /\ BoundedWorkers /\ OneHomeOneProcess

\* A dispatch is executed once at most, over redeliveries, restarts and changes
\* of epoch, as long as no two processes have shared the home.
ExecutedOnce ==
    \A d \in Dispatch : ProfileOf[d] \notin overlap => execs[d] <= 1

\* No dispatch is written behind a shutdown, where the worker would not read it.
NoDispatchBehindShutdown ==
    \A q \in Process : \A i, j \in DOMAIN inbox[q] :
        i < j /\ inbox[q][i].type = "shutdown"
        => inbox[q][j].type # "work" \/ inbox[q][j].work \in Job

\* The message loop comes back from whatever it hands over or shuts down, although
\* it waits for the registry lock while jobs and the reaper stop and start workers
\* with it, and even if a worker neither reads its commands nor ends by itself.
HandoverEnds ==
    task["loop"].at \notin {"idle", "offline"} ~> task["loop"].at \in {"idle", "offline"}

================================================================================
