------------------------------- MODULE HermesRun -------------------------------
(***************************************************************************)
(* The run manager of the Hermes bridge (main.py, HermesRunManager).       *)
(*                                                                         *)
(* A dispatch is started from the event loop, executed by a worker thread  *)
(* under a lock that is shared by the dispatches of one agent or team,     *)
(* cancelled from the event loop, timed out from a timer thread, and its   *)
(* events are forwarded by a task of the event loop.  The threads          *)
(* interleave at every point where the code gives up a lock.               *)
(*                                                                         *)
(* A run's conversation is abstracted to the set of dispatches whose turns *)
(* it contains, and its events to the terminal ones.                       *)
(***************************************************************************)
EXTENDS Naturals, Sequences, FiniteSets

CONSTANTS
    Dispatch,      \* dispatch ids
    NoDispatch,    \* Python's None where a dispatch id is expected
    Key,           \* execution lock keys
    Session,       \* runtime session ids
    KeyOf,         \* the lock key of each dispatch's payload
    SessionOf,     \* the runtime session of each dispatch's payload
    Timed,         \* the dispatches whose payload has a timeoutMs
    Cancellable,   \* the dispatches the user may cancel
    Ended,         \* the dispatches Relay may report as ended in a backfill
    Resettable,    \* the sessions the user may reset
    SetupMayFail,  \* whether the code before _run_agent's try may fail
    MaxCrashes     \* bound on the number of crashes of the bridge

ASSUME RunAssumption ==
    /\ IsFiniteSet(Dispatch)
    /\ NoDispatch \notin Dispatch
    /\ KeyOf \in [Dispatch -> Key]
    /\ SessionOf \in [Dispatch -> Session]
    /\ Timed \subseteq Dispatch
    /\ Cancellable \subseteq Dispatch
    /\ Ended \subseteq Dispatch
    /\ Resettable \subseteq Session
    /\ SetupMayFail \in BOOLEAN
    /\ MaxCrashes \in Nat

VARIABLES
    ledger,    \* dispatch_state: the state recorded for each dispatch
    history,   \* snapshot_store: the turns saved for each session
    execs,     \* how often each dispatch's conversation was started
    sent,      \* the terminal events given to send_event for each dispatch
    crashes,   \* how often the bridge has crashed
    runs,      \* _runs: the dispatches in the map of active runs
    run,       \* the flags of each ActiveRun
    pc,        \* where the worker thread of each dispatch is
    out,       \* the outcome the worker thread is about to emit
    base,      \* the turns the worker loaded from the session's snapshot
    obj,       \* the ScopedRunLock the worker uses, named by its creator
    queue,     \* event_queue, terminal events only
    forwarder, \* _forward_events: "none", "running" or "ended"
    timer,     \* the timeout watchdog
    loop,      \* what the event loop is in the middle of: a cancel or nothing
    entry,     \* _scoped_locks: the lock object registered for each key
    ref,       \* ref_count of each lock object
    held,      \* whether the lock of each lock object is locked
    owner      \* owner_dispatch_id of each lock object

runVars  == <<run, runs, queue, forwarder>>
workVars == <<pc, out, base, obj>>
lockVars == <<entry, ref, held, owner>>
diskVars == <<ledger, history>>
auxVars  == <<execs, sent, crashes>>
vars == <<runVars, workVars, lockVars, diskVars, auxVars, timer, loop>>

--------------------------------------------------------------------------------
None == "none"
Terminal == {"completed", "failed", "cancelled"}

LedgerState == {None, "running", "skipped"} \cup Terminal

\* The worker is inside the with block of _scoped_execution.
CriticalPC == {"load", "build", "exec"}

\* The worker has counted itself in ref_count and not yet left.
ScopedPC == {"wait", "poll", "got", "owned", "release", "deref"} \cup CriticalPC

PC == ScopedPC \cup {None, "begin", "enter", "emit", "put", "save", "final",
                     "record", "quit", "end", "died"}

RunFlags == [terminal : Terminal \cup {None}, cancel : BOOLEAN, done : BOOLEAN,
             interrupted : BOOLEAN, expired : BOOLEAN]

Outcome == [kind : Terminal \cup {None},
            then : {"deref", "release", "final", "quit"}]

TimerState == [at : {"off", "armed", "put", "record", "release", "done"},
               kind : Terminal \cup {None}]

LoopState == [d : Dispatch \cup {NoDispatch},
              at : {"idle", "mark", "put", "record", "release", "done"}]

NewRun == [terminal |-> None, cancel |-> FALSE, done |-> FALSE,
           interrupted |-> FALSE, expired |-> FALSE]

NoOut == [kind |-> None, then |-> "final"]

TimerOff == [at |-> "off", kind |-> None]

LoopIdle == [d |-> NoDispatch, at |-> "idle"]

Executing(d) == pc[d] \in CriticalPC

\* emit() leaves the flag _state_lock protects with the first terminal type
\* only; a later terminal event is dropped.
Mark(d, kind) ==
    run' = [run EXCEPT ![d].terminal = IF @ = None THEN kind ELSE @]

Goto(d, label) == pc' = [pc EXCEPT ![d] = label]

\* The lock objects an event can release: the one registered for d's key, if d
\* is recorded as its owner.
OwnedBy(d) == {o \in Dispatch : o = entry[KeyOf[d]] /\ owner[o] = d}

--------------------------------------------------------------------------------
\* The event loop thread.

Init ==
    /\ ledger = [d \in Dispatch |-> None]
    /\ history = [s \in Session |-> {}]
    /\ execs = [d \in Dispatch |-> 0]
    /\ sent = [d \in Dispatch |-> <<>>]
    /\ crashes = 0
    /\ runs = {}
    /\ run = [d \in Dispatch |-> NewRun]
    /\ pc = [d \in Dispatch |-> None]
    /\ out = [d \in Dispatch |-> NoOut]
    /\ base = [d \in Dispatch |-> {}]
    /\ obj = [d \in Dispatch |-> NoDispatch]
    /\ queue = [d \in Dispatch |-> <<>>]
    /\ forwarder = [d \in Dispatch |-> None]
    /\ timer = [d \in Dispatch |-> TimerOff]
    /\ loop = LoopIdle
    /\ entry = [k \in Key |-> NoDispatch]
    /\ ref = [d \in Dispatch |-> 0]
    /\ held = [d \in Dispatch |-> FALSE]
    /\ owner = [d \in Dispatch |-> NoDispatch]

\* Bug: start looks at the run map only.
Bug_StartUnrecorded(d) ==
    /\ loop = LoopIdle
    /\ d \notin runs
    /\ runs' = runs \cup {d}
    /\ run' = [run EXCEPT ![d] = NewRun]
    /\ ledger' = [ledger EXCEPT ![d] = "running"]
    /\ queue' = [queue EXCEPT ![d] = <<>>]
    /\ forwarder' = [forwarder EXCEPT ![d] = "running"]
    /\ Goto(d, "begin")
    /\ UNCHANGED <<history, out, base, obj, lockVars, auxVars, timer, loop>>

\* start: refuses a dispatch the ledger or the run map knows; otherwise records
\* it and starts its worker thread and its forwarder.
Start(d) ==
    /\ loop = LoopIdle
    /\ ledger[d] = None
    /\ d \notin runs
    /\ runs' = runs \cup {d}
    /\ run' = [run EXCEPT ![d] = NewRun]
    /\ ledger' = [ledger EXCEPT ![d] = "running"]
    /\ queue' = [queue EXCEPT ![d] = <<>>]
    /\ forwarder' = [forwarder EXCEPT ![d] = "running"]
    /\ Goto(d, "begin")
    /\ UNCHANGED <<history, out, base, obj, lockVars, auxVars, timer, loop>>

\* A backfilled dispatch that Relay reports as ended is recorded as skipped,
\* whatever the ledger says of it.
SkipTerminal(d) ==
    /\ loop = LoopIdle
    /\ d \in Ended
    /\ ledger' = [ledger EXCEPT ![d] = "skipped"]
    /\ UNCHANGED <<runVars, workVars, lockVars, history, auxVars, timer, loop>>

\* /new and /reset delete the session's snapshot without the execution lock.
ResetSession(s) ==
    /\ loop = LoopIdle
    /\ s \in Resettable
    /\ history[s] # {}
    /\ history' = [history EXCEPT ![s] = {}]
    /\ UNCHANGED <<runVars, workVars, lockVars, ledger, auxVars, timer, loop>>

\* cancel: sets cancel_requested and interrupts the agent if there is one ...
CancelBegin(d) ==
    /\ loop = LoopIdle
    /\ d \in runs \cap Cancellable
    /\ run' = [run EXCEPT ![d].cancel = TRUE,
                          ![d].interrupted = @ \/ pc[d] = "exec"]
    /\ loop' = [d |-> d, at |-> "mark"]
    /\ UNCHANGED <<runs, queue, forwarder, workVars, lockVars, diskVars,
                   auxVars, timer>>

\* ... emits run.cancelled (the flag first, the queue after it) ...
CancelMark(d) ==
    /\ loop = [d |-> d, at |-> "mark"]
    /\ Mark(d, "cancelled")
    /\ loop' = [loop EXCEPT !.at = IF run[d].terminal = None THEN "put"
                                                             ELSE "record"]
    /\ UNCHANGED <<runs, queue, forwarder, workVars, lockVars, diskVars,
                   auxVars, timer>>

CancelPut(d) ==
    /\ loop = [d |-> d, at |-> "put"]
    /\ queue' = [queue EXCEPT ![d] = Append(@, "cancelled")]
    /\ loop' = [loop EXCEPT !.at = "record"]
    /\ UNCHANGED <<runs, run, forwarder, workVars, lockVars, diskVars,
                   auxVars, timer>>

\* ... records the cancellation, whether or not its event was dropped ...
CancelRecord(d) ==
    /\ loop = [d |-> d, at |-> "record"]
    /\ ledger' = [ledger EXCEPT ![d] = "cancelled"]
    /\ loop' = [loop EXCEPT !.at = "release"]
    /\ UNCHANGED <<runVars, workVars, lockVars, history, auxVars, timer>>

\* _force_release_run_lock: releases the lock registered for d's key if d is
\* recorded as its owner, while d's thread may still be inside.
ForceRelease(d) ==
    /\ held' = [o \in Dispatch |-> held[o] /\ o \notin OwnedBy(d)]
    /\ owner' = [o \in Dispatch |-> IF o \in OwnedBy(d) THEN NoDispatch
                                                        ELSE owner[o]]
    /\ UNCHANGED <<entry, ref>>

CancelRelease(d) ==
    /\ loop = [d |-> d, at |-> "release"]
    /\ ForceRelease(d)
    /\ loop' = [loop EXCEPT !.at = "done"]
    /\ UNCHANGED <<runVars, workVars, diskVars, auxVars, timer>>

\* done.set() and _finish end a run for whoever settles it.
Settle(d) ==
    /\ run' = [run EXCEPT ![d].done = TRUE]
    /\ runs' = runs \ {d}

CancelDone(d) ==
    /\ loop = [d |-> d, at |-> "done"]
    /\ Settle(d)
    /\ loop' = LoopIdle
    /\ UNCHANGED <<queue, forwarder, workVars, lockVars, diskVars, auxVars,
                   timer>>

Cancel(d) == \/ CancelBegin(d) \/ CancelMark(d) \/ CancelPut(d)
             \/ CancelRecord(d) \/ CancelRelease(d) \/ CancelDone(d)

\* _forward_events takes the next event and gives it to send_event.
Forward(d) ==
    /\ loop = LoopIdle
    /\ forwarder[d] = "running"
    /\ queue[d] # <<>>
    /\ sent' = [sent EXCEPT ![d] = Append(@, Head(queue[d]))]
    /\ queue' = [queue EXCEPT ![d] = Tail(@)]
    /\ UNCHANGED <<run, runs, forwarder, workVars, lockVars, diskVars, execs,
                   crashes, timer, loop>>

\* Bug: the forwarder ends as soon as the run is done.
Bug_ForwardEndEarly(d) ==
    /\ loop = LoopIdle
    /\ forwarder[d] = "running"
    /\ run[d].done
    /\ forwarder' = [forwarder EXCEPT ![d] = "ended"]
    /\ UNCHANGED <<run, runs, queue, workVars, lockVars, diskVars, auxVars,
                   timer, loop>>

\* It ends once the run is done and the queue is found empty.
ForwardEnd(d) ==
    /\ loop = LoopIdle
    /\ forwarder[d] = "running"
    /\ queue[d] = <<>>
    /\ run[d].done
    /\ forwarder' = [forwarder EXCEPT ![d] = "ended"]
    /\ UNCHANGED <<run, runs, queue, workVars, lockVars, diskVars, auxVars,
                   timer, loop>>

--------------------------------------------------------------------------------
\* The worker thread, _run_agent.

\* Go on to emit a terminal event, and then to the label after it.
ToEmit(d, kind, label) ==
    /\ out' = [out EXCEPT ![d] = [kind |-> kind, then |-> label]]
    /\ Goto(d, "emit")

\* Bug: emit puts every terminal event.
Bug_EmitAlways(d) ==
    /\ pc[d] = "emit"
    /\ Mark(d, out[d].kind)
    /\ Goto(d, "put")
    /\ UNCHANGED <<out, runs, queue, forwarder, base, obj, lockVars, diskVars,
                   auxVars, timer, loop>>

\* emit by the worker: mark the run, then put the event ...
EmitMark(d) ==
    /\ pc[d] = "emit"
    /\ Mark(d, out[d].kind)
    /\ IF run[d].terminal = None
       THEN Goto(d, "put") /\ UNCHANGED out
       ELSE Goto(d, out[d].then) /\ out' = [out EXCEPT ![d] = NoOut]
    /\ UNCHANGED <<runs, queue, forwarder, base, obj, lockVars, diskVars,
                   auxVars, timer, loop>>

\* ... which is a separate step: _state_lock is released in between.
EmitPut(d) ==
    /\ pc[d] = "put"
    /\ queue' = [queue EXCEPT ![d] = Append(@, out[d].kind)]
    /\ Goto(d, out[d].then)
    /\ out' = [out EXCEPT ![d] = NoOut]
    /\ UNCHANGED <<run, runs, forwarder, base, obj, lockVars, diskVars,
                   auxVars, timer, loop>>

\* Before the try: the workspace root is resolved and the local app prepared.
\* A missing root ends the run; an exception here ends the thread.
Setup(d) ==
    /\ pc[d] = "begin"
    /\ \/ Goto(d, "enter") /\ UNCHANGED out
       \/ ToEmit(d, "failed", "quit")
       \/ SetupMayFail /\ Goto(d, "died") /\ UNCHANGED out
    /\ UNCHANGED <<runVars, base, obj, lockVars, diskVars, auxVars, timer, loop>>

\* Bug: every run creates a lock object of its own.
Bug_EnterOwnLock(d) ==
    /\ pc[d] = "enter"
    /\ obj' = [obj EXCEPT ![d] = d]
    /\ ref' = [ref EXCEPT ![d] = @ + 1]
    /\ entry' = [entry EXCEPT ![KeyOf[d]] = d]
    /\ Goto(d, "wait")
    /\ UNCHANGED <<runVars, out, base, held, owner, diskVars, auxVars, timer,
                   loop>>

\* _scoped_execution: look up or create the key's lock object and count oneself.
EnterScope(d) ==
    /\ pc[d] = "enter"
    /\ LET o == IF entry[KeyOf[d]] = NoDispatch THEN d ELSE entry[KeyOf[d]]
       IN /\ obj' = [obj EXCEPT ![d] = o]
          /\ ref' = [ref EXCEPT ![o] = @ + 1]
          /\ entry' = [entry EXCEPT ![KeyOf[d]] = o]
    /\ Goto(d, "wait")
    /\ UNCHANGED <<runVars, out, base, held, owner, diskVars, auxVars, timer,
                   loop>>

\* The lock timeout passes while the run waits.
Expire(d) ==
    /\ pc[d] \in {"wait", "poll"}
    /\ ~run[d].expired
    /\ run' = [run EXCEPT ![d].expired = TRUE]
    /\ UNCHANGED <<runs, queue, forwarder, workVars, lockVars, diskVars,
                   auxVars, timer, loop>>

\* Bug: the lock timeout is never looked at.
Bug_WaitForever(d) ==
    /\ pc[d] = "wait"
    /\ IF run[d].done \/ run[d].cancel
       THEN ToEmit(d, "cancelled", "deref")
       ELSE Goto(d, "poll") /\ UNCHANGED out
    /\ UNCHANGED <<runVars, base, obj, lockVars, diskVars, auxVars, timer, loop>>

\* The head of the wait loop: give up if cancelled or out of time.
CheckWait(d) ==
    /\ pc[d] = "wait"
    /\ \/ /\ run[d].done \/ run[d].cancel
          /\ ToEmit(d, "cancelled", "deref")
       \/ /\ ~run[d].done /\ ~run[d].cancel /\ run[d].expired
          /\ ToEmit(d, "failed", "deref")
       \/ /\ ~run[d].done /\ ~run[d].cancel /\ ~run[d].expired
          /\ Goto(d, "poll") /\ UNCHANGED out
    /\ UNCHANGED <<runVars, base, obj, lockVars, diskVars, auxVars, timer, loop>>

\* lock.acquire with a timeout of at most a second: it succeeds ...
Acquire(d) ==
    /\ pc[d] = "poll"
    /\ ~held[obj[d]]
    /\ held' = [held EXCEPT ![obj[d]] = TRUE]
    /\ Goto(d, "got")
    /\ UNCHANGED <<runVars, out, base, obj, entry, ref, owner, diskVars,
                   auxVars, timer, loop>>

\* ... or the lock is held until that timeout passes.
AcquireFails(d) ==
    /\ pc[d] = "poll"
    /\ held[obj[d]]
    /\ Goto(d, "wait")
    /\ UNCHANGED <<runVars, out, base, obj, lockVars, diskVars, auxVars, timer,
                   loop>>

\* The owner is recorded in a critical section of its own.
RecordOwner(d) ==
    /\ pc[d] = "got"
    /\ owner' = [owner EXCEPT ![obj[d]] = d]
    /\ Goto(d, "owned")
    /\ UNCHANGED <<runVars, out, base, obj, entry, ref, held, diskVars,
                   auxVars, timer, loop>>

\* Bug: a run cancelled after it got the lock leaves without unlocking it.
Bug_GiveUpLocked(d) ==
    /\ pc[d] = "owned"
    /\ IF run[d].done \/ run[d].cancel
       THEN ToEmit(d, "cancelled", "deref")
       ELSE Goto(d, "load") /\ UNCHANGED out
    /\ UNCHANGED <<runVars, base, obj, lockVars, diskVars, auxVars, timer, loop>>

\* The check after the acquisition: enter the with block or give up.
CheckOwned(d) ==
    /\ pc[d] = "owned"
    /\ IF run[d].done \/ run[d].cancel
       THEN ToEmit(d, "cancelled", "release")
       ELSE Goto(d, "load") /\ UNCHANGED out
    /\ UNCHANGED <<runVars, base, obj, lockVars, diskVars, auxVars, timer, loop>>

LoadSnapshot(d) ==
    /\ pc[d] = "load"
    /\ base' = [base EXCEPT ![d] = history[SessionOf[d]]]
    /\ Goto(d, "build")
    /\ UNCHANGED <<runVars, out, obj, lockVars, diskVars, auxVars, timer, loop>>

\* Bug: the watchdog is not started.
Bug_NoWatchdog(d) ==
    /\ pc[d] = "build"
    /\ Goto(d, "exec")
    /\ execs' = [execs EXCEPT ![d] = @ + 1]
    /\ UNCHANGED <<runVars, out, base, obj, lockVars, diskVars, sent, crashes,
                   timer, loop>>

\* The agent is built, the watchdog started and the conversation begun, or an
\* exception leaves the with block.
BuildAgent(d) ==
    /\ pc[d] = "build"
    /\ \/ /\ Goto(d, "exec")
          /\ execs' = [execs EXCEPT ![d] = @ + 1]
          /\ timer' = IF d \in Timed
                      THEN [timer EXCEPT ![d] = [at |-> "armed", kind |-> None]]
                      ELSE timer
          /\ UNCHANGED out
       \/ /\ Goto(d, "release")
          /\ out' = [out EXCEPT ![d] = [kind |-> "failed", then |-> "final"]]
          /\ UNCHANGED <<execs, timer>>
    /\ UNCHANGED <<runVars, base, obj, lockVars, diskVars, sent, crashes, loop>>

\* run_conversation returns or raises.  A result that arrives after the run was
\* settled is dropped by the return inside the with block.
AgentReturns(d) ==
    /\ pc[d] = "exec"
    /\ \E kind \in Terminal \cup {None} :
         /\ kind = None <=> run[d].done
         /\ kind = "cancelled" => run[d].interrupted
         /\ out' = [out EXCEPT ![d] = [kind |-> kind, then |-> "final"]]
    /\ Goto(d, "release")
    /\ UNCHANGED <<runVars, base, obj, lockVars, diskVars, auxVars, timer, loop>>

AgentRaises(d) ==
    /\ pc[d] = "exec"
    /\ out' = [out EXCEPT ![d] = [kind |-> "failed", then |-> "final"]]
    /\ Goto(d, "release")
    /\ UNCHANGED <<runVars, base, obj, lockVars, diskVars, auxVars, timer, loop>>

\* The finally of _scoped_execution: unlock only if still the recorded owner.
ReleaseLock(d) ==
    /\ pc[d] = "release"
    /\ LET o == obj[d]
       IN IF owner[o] = d
          THEN /\ held' = [held EXCEPT ![o] = FALSE]
               /\ owner' = [owner EXCEPT ![o] = NoDispatch]
          ELSE UNCHANGED <<held, owner>>
    /\ Goto(d, "deref")
    /\ UNCHANGED <<runVars, out, base, obj, entry, ref, diskVars, auxVars,
                   timer, loop>>

\* Leave the scope; the last one out removes the lock object from the map.
LeaveScope(d) ==
    /\ pc[d] = "deref"
    /\ LET o == obj[d]
       IN /\ ref' = [ref EXCEPT ![o] = @ - 1]
          /\ entry' = IF ref[o] <= 1
                      THEN [entry EXCEPT ![KeyOf[d]] = NoDispatch]
                      ELSE entry
    /\ obj' = [obj EXCEPT ![d] = NoDispatch]
    /\ Goto(d, CASE out[d].kind = None        -> "final"
                 [] out[d].kind = "completed" -> "save"
                 [] OTHER                     -> "emit")
    /\ UNCHANGED <<runVars, out, base, held, owner, diskVars, auxVars, timer,
                   loop>>

\* The conversation is saved after the lock has been given up; the completed
\* event follows, or a failed one if the save raises.
SaveSnapshot(d) ==
    /\ pc[d] = "save"
    /\ \/ /\ history' = [history EXCEPT ![SessionOf[d]] = base[d] \cup {d}]
          /\ UNCHANGED out
       \/ /\ out' = [out EXCEPT ![d].kind = "failed"]
          /\ UNCHANGED history
    /\ Goto(d, "emit")
    /\ UNCHANGED <<runVars, base, obj, lockVars, ledger, auxVars, timer, loop>>

\* The finally of _run_agent: stop the watchdog, make sure of a terminal event,
Finally(d) ==
    /\ pc[d] = "final"
    /\ timer' = [timer EXCEPT ![d] = IF @.at = "armed" THEN TimerOff ELSE @]
    /\ IF run[d].terminal = None
       THEN ToEmit(d, "failed", "final")
       ELSE Goto(d, "record") /\ UNCHANGED out
    /\ UNCHANGED <<runVars, base, obj, lockVars, diskVars, auxVars, loop>>

\* record it in the ledger,
RecordTerminal(d) ==
    /\ pc[d] = "record"
    /\ ledger' = [ledger EXCEPT ![d] = run[d].terminal]
    /\ Goto(d, "quit")
    /\ UNCHANGED <<runVars, out, base, obj, lockVars, history, auxVars, timer,
                   loop>>

\* and settle the run.
Quit(d) ==
    /\ pc[d] = "quit"
    /\ Settle(d)
    /\ Goto(d, "end")
    /\ UNCHANGED <<queue, forwarder, out, base, obj, lockVars, diskVars,
                   auxVars, timer, loop>>

\* Every step of the worker but the return of the agent, which is not ours.
WorkerStep(d) ==
    \/ EmitMark(d) \/ EmitPut(d) \/ Setup(d) \/ EnterScope(d)
    \/ CheckWait(d) \/ Acquire(d) \/ AcquireFails(d) \/ RecordOwner(d)
    \/ CheckOwned(d) \/ LoadSnapshot(d) \/ BuildAgent(d) \/ ReleaseLock(d)
    \/ LeaveScope(d) \/ SaveSnapshot(d) \/ Finally(d) \/ RecordTerminal(d)
    \/ Quit(d)

AgentStep(d) == AgentReturns(d) \/ AgentRaises(d)

--------------------------------------------------------------------------------
\* The timer thread, _start_run_timeout_watchdog.

\* on_timeout: nothing if the run is done; otherwise interrupt the agent, choose
\* the terminal type and mark the run with it ...
TimerFire(d) ==
    /\ timer[d].at = "armed"
    /\ LET kind == IF run[d].cancel THEN "cancelled" ELSE "failed"
       IN IF run[d].done
          THEN /\ timer' = [timer EXCEPT ![d] = TimerOff]
               /\ UNCHANGED run
          ELSE /\ run' = [run EXCEPT
                            ![d].interrupted = TRUE,
                            ![d].terminal = IF @ = None THEN kind ELSE @]
               /\ timer' = [timer EXCEPT ![d] =
                              [at |-> IF run[d].terminal = None THEN "put"
                                                                ELSE "record",
                               kind |-> kind]]
    /\ UNCHANGED <<runs, queue, forwarder, workVars, lockVars, diskVars,
                   auxVars, loop>>

\* ... put the event ...
TimerPut(d) ==
    /\ timer[d].at = "put"
    /\ queue' = [queue EXCEPT ![d] = Append(@, timer[d].kind)]
    /\ timer' = [timer EXCEPT ![d].at = "record"]
    /\ UNCHANGED <<run, runs, forwarder, workVars, lockVars, diskVars, auxVars,
                   loop>>

\* ... record the type chosen, whether or not its event was dropped ...
TimerRecord(d) ==
    /\ timer[d].at = "record"
    /\ ledger' = [ledger EXCEPT ![d] = timer[d].kind]
    /\ timer' = [timer EXCEPT ![d].at = "release"]
    /\ UNCHANGED <<runVars, workVars, lockVars, history, auxVars, loop>>

\* ... force the lock's release and settle the run.
TimerRelease(d) ==
    /\ timer[d].at = "release"
    /\ ForceRelease(d)
    /\ timer' = [timer EXCEPT ![d].at = "done"]
    /\ UNCHANGED <<runVars, workVars, diskVars, auxVars, loop>>

TimerDone(d) ==
    /\ timer[d].at = "done"
    /\ Settle(d)
    /\ timer' = [timer EXCEPT ![d] = TimerOff]
    /\ UNCHANGED <<queue, forwarder, workVars, lockVars, diskVars, auxVars, loop>>

TimerStep(d) == \/ TimerFire(d) \/ TimerPut(d) \/ TimerRecord(d)
                \/ TimerRelease(d) \/ TimerDone(d)

--------------------------------------------------------------------------------
\* The process dies and is started again: the threads, the run map, the locks
\* and the queues are gone; the ledger and the snapshots are read back.
Crash ==
    /\ crashes < MaxCrashes
    /\ crashes' = crashes + 1
    /\ runs' = {}
    /\ run' = [d \in Dispatch |-> NewRun]
    /\ pc' = [d \in Dispatch |-> None]
    /\ out' = [d \in Dispatch |-> NoOut]
    /\ base' = [d \in Dispatch |-> {}]
    /\ obj' = [d \in Dispatch |-> NoDispatch]
    /\ queue' = [d \in Dispatch |-> <<>>]
    /\ forwarder' = [d \in Dispatch |-> None]
    /\ timer' = [d \in Dispatch |-> TimerOff]
    /\ loop' = LoopIdle
    /\ entry' = [k \in Key |-> NoDispatch]
    /\ ref' = [d \in Dispatch |-> 0]
    /\ held' = [d \in Dispatch |-> FALSE]
    /\ owner' = [d \in Dispatch |-> NoDispatch]
    /\ UNCHANGED <<diskVars, execs, sent>>

LoopStep(d) == Cancel(d) \/ Forward(d) \/ ForwardEnd(d)

Next ==
    \/ \E d \in Dispatch :
         \/ Start(d) \/ SkipTerminal(d) \/ LoopStep(d)
         \/ WorkerStep(d) \/ AgentStep(d) \/ Expire(d)
         \/ TimerStep(d)
    \/ \E s \in Session : ResetSession(s)
    \/ Crash

Spec == Init /\ [][Next]_vars

\* The operating system schedules the threads and lets time pass; a cancel that
\* has begun and a forwarder with work are run by the event loop.
Fairness ==
    \A d \in Dispatch :
      /\ WF_vars(WorkerStep(d))
      /\ WF_vars(Expire(d))
      /\ WF_vars(TimerStep(d))
      /\ WF_vars(CancelMark(d) \/ CancelPut(d) \/ CancelRecord(d)
                 \/ CancelRelease(d) \/ CancelDone(d))
      /\ WF_vars(Forward(d) \/ ForwardEnd(d))

FairSpec == Spec /\ Fairness

\* Every conversation with the agent comes to an end.
AgentsReturn == \A d \in Dispatch : WF_vars(AgentStep(d))

--------------------------------------------------------------------------------
\* Type correctness of the manager's state (ActiveRun, ScopedRunLock and the
\* positions of the threads).
TypeOK ==
    /\ ledger \in [Dispatch -> LedgerState]
    /\ history \in [Session -> SUBSET Dispatch]
    /\ execs \in [Dispatch -> Nat]
    /\ sent \in [Dispatch -> Seq(Terminal)]
    /\ crashes \in Nat
    /\ runs \subseteq Dispatch
    /\ run \in [Dispatch -> RunFlags]
    /\ pc \in [Dispatch -> PC]
    /\ out \in [Dispatch -> Outcome]
    /\ base \in [Dispatch -> SUBSET Dispatch]
    /\ obj \in [Dispatch -> Dispatch \cup {NoDispatch}]
    /\ queue \in [Dispatch -> Seq(Terminal)]
    /\ forwarder \in [Dispatch -> {None, "running", "ended"}]
    /\ timer \in [Dispatch -> TimerState]
    /\ loop \in LoopState
    /\ entry \in [Key -> Dispatch \cup {NoDispatch}]
    /\ ref \in [Dispatch -> Nat]
    /\ held \in [Dispatch -> BOOLEAN]
    /\ owner \in [Dispatch -> Dispatch \cup {NoDispatch}]

\* Two runs with the same lock key are inside _scoped_execution together only
\* if one of them already has its terminal event: a cancel or a timeout may
\* take the lock away from a run, nothing else may, and no race over the map of
\* lock objects gives two runs different locks for one key.
OneUnsettledRunPerKey ==
    \A d, e \in Dispatch :
        /\ d # e /\ KeyOf[d] = KeyOf[e]
        /\ Executing(d) /\ Executing(e)
        => run[d].terminal # None \/ run[e].terminal # None

\* A locked ScopedRunLock always has a run inside that will unlock it: forced
\* releases, give-ups and the window between lock.acquire and the recording of
\* the owner never leave a lock that nobody releases.
LockedByALivingRun ==
    \A o \in Dispatch :
        held[o] => \E d \in Dispatch :
                      /\ obj[d] = o
                      /\ pc[d] = "got" \/ owner[o] = d

\* A lock object in the map is in use, and a run in _scoped_execution uses the
\* one in the map (_scoped_locks.pop never takes it from under a waiter).
MapHoldsTheLocksInUse ==
    /\ \A k \in Key : entry[k] # NoDispatch =>
          \E d \in Dispatch : KeyOf[d] = k /\ obj[d] = entry[k]
    /\ \A d \in Dispatch : obj[d] # NoDispatch => obj[d] = entry[KeyOf[d]]

\* The manager's state is well typed, and its lock objects, their map and the runs
\* that use them fit together.
Consistent == TypeOK /\ LockedByALivingRun /\ MapHoldsTheLocksInUse

\* A run that is done, out of the run map or recorded as ended has produced its
\* terminal event, whoever of worker, canceller and watchdog settled it.
SettledHasOutcome ==
    \A d \in Dispatch :
        /\ pc[d] # None
        /\ run[d].done \/ d \notin runs \/ ledger[d] \in Terminal
        => run[d].terminal # None

\* Relay is told one outcome of a dispatch at most, over redeliveries, cancels,
\* timeouts and restarts.
OneTerminalEvent == \A d \in Dispatch : Len(sent[d]) + Len(queue[d]) <= 1

\* Whoever settles a run has produced its outcome, and Relay is told one only.
SettledHasOneOutcome == SettledHasOutcome /\ OneTerminalEvent

\* What the manager promises Relay (RunPromise): a dispatch is given to the
\* agent at most once and reported at most once, over redeliveries, cancels,
\* timeouts and restarts, and only after it was recorded.
Promise == INSTANCE RunPromise WITH known <- {d \in Dispatch : ledger[d] # None}

KeepsPromise == Promise!Spec

--------------------------------------------------------------------------------
\* Nobody waits for the execution lock for ever, even behind an agent that
\* never returns.
LockWaitEnds ==
    \A d \in Dispatch : pc[d] = "wait" ~> pc[d] \notin {"wait", "poll"}

\* A run with a timeout is settled even if its agent never returns.
TimedRunSettles ==
    \A d \in Timed : pc[d] = "exec" ~> run[d].done \/ pc[d] = None

\* When agents return and the bridge is not restarted, a started dispatch that is
\* neither cancelled nor timed has its outcome given to send_event, whatever
\* becomes of the run it waits for.
OutcomeIsForwarded ==
    AgentsReturn => \A d \in Dispatch \ (Timed \cup Cancellable) :
                        pc[d] = "begin" ~> sent[d] # <<>>

================================================================================
