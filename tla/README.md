# Verification of the Relay bridge plugins

TLA+ modules of the two bridges in `plugins/` that connect an agent runtime to
Relay (ClawChat): the Hermes bridge (Python, one asyncio event loop, worker
threads and child processes) and the OpenClaw bridge (TypeScript, one event
loop). The modules are model-checked with TLC on small instances, and the
safety properties that matter most are proved for every instance with TLAPS.

Paths below are relative to the repository; `main.py` is
`plugins/hermes-agent-bridge/src/main.py`.

## 1. The system

| Component | State | Operations | Interacts with |
|---|---|---|---|
| Run manager (`main.py`, `HermesRunManager`) | map of active runs, one lock object per agent or team, event queue of each run, `dispatch_state.json`, session snapshots | start, worker, cancel, watchdog, forward, reset | event loop, worker and timer threads, terminal outbox |
| Terminal outbox (`main.py`, `_terminal_outbox`) | pending events in memory and in `terminal_event_outbox.json` | offer, attempt, retry loop, reconnect flush, acknowledge | websocket, Relay |
| Native operation fence (`native_controls.py`, `native_operation_store.py`, `native_agent_removal.py`, OpenClaw `native-controls.ts`) | SQLite journal of operations with phase, receipt, acknowledged | recover, reserve, claim, start, apply, finish, post, acknowledge | Relay (HTTP), native agents |
| Connection and device authentication (`_connect_once`, `_authenticate_device`; OpenClaw `bridge-auth.ts`) | one-use device credential in memory and in the config file, access tokens | authenticate, refresh after a 401, rotate, reconnect | everything that posts |
| Reconnect backfill (`_run_reconnect_backfill`) | none of its own | fetch, accept, skip | run manager |
| Profile supervisor (`profile_supervisor.py`, `profile_worker.py`) | child process per profile, restart times, dispatch to profile map | dispatch, cancel, reap, shut down | worker processes, terminal outbox |
| Agent synchronisation (`_exchange_agent_replicas`, `document_policy.py`) | `agent_sync_state.json`: entries of documents and canonical ids | scan, exchange, apply | files of agents, Relay, removals (shared lock) |
| Provisioning (`provisioning.py`, `handle_agent_provision`) | markers by idempotency key, callback outbox and its file | provision, queue, post, flush | native profiles, Relay, connection |
| Native replies (`_send_native_reply`; OpenClaw `file-response-relay.ts`) | at most 16 recent replies, 30 seconds | reply, flush on reconnect | websocket |
| Structured jobs (`HermesStructuredJobRunner`; OpenClaw `structured-job.ts`) | attempts of a job | run, repair, post result | profile supervisor |
| Local app runtime (`LocalAppRuntimeManager`, one in the bridge and one in each profile worker; `MarketplaceLocalAppAgentApiRequestProxy`) | processes by repository and command | status, ensure, restart, prepare for a dispatch, pass a call on | message loop, run manager, app processes |
| Agent files (`agent_file_store.py`, `handle_agent_file`, OpenClaw `agent-files.ts`) | SQLite receipts, files with base versions | recover, reserve, claim, execute, complete, settle | Relay (HTTP), files of agents |
| Workspace manager (`HermesWorkspaceManager`) | files | read, write, move, delete | Relay requests |
| Marketplace tools (`_ensure_scoped_tool_registry`, `MarketplaceRuntimeToolProxy`) | overlay of the tool registry, a scope per context, scope counts | install, enter, resolve, call, leave | runs, Hermes's registry and its memo |
| OpenClaw gateway (`gateway.ts`, `dispatch-journal.ts`) | dispatch journal, queue before readiness, active dispatches by session | claim, execute, complete, release | OpenClaw runtime |
| OpenClaw attachments, documents, adapters | upload sessions; otherwise files | upload, read, publish | gateway |
| Lifecycle scripts (`scripts/`) | installed release, backups | install, update, roll back | service manager |

What is hard here is concurrency and failure. Threads and asyncio tasks
interleave at every lock and every `await`; the bridge may be killed at any
step and reads its files back; Relay redelivers, answers late, or not at all.
Correctness is, component by component:

- *Run manager*: a dispatch is executed and reported at most once; runs of one
  lock key exclude each other until one is settled; no lock is leaked; waiting
  ends; a settled run has an outcome and the outcome is forwarded.
- *Outbox*: no terminal event is lost, none comes back after its
  acknowledgement, every one is delivered in the end.
- *Fence*: a native change is made at most once, Relay hears one story about
  it, and the story is true.
- *Authentication*: the only valid credential is never lost between its
  consumption and its persistence, tokens are used after it, and the bridge
  comes back; authentications are serialised.
- *Supervisor*: one process per profile home and sixteen in all; a hand-over
  ends; a dispatch is executed once over restarts of its worker.
- *Synchronisation*: no edit of a known document is overwritten that nobody else
  has; nothing is reported as deleted that a scan tried to read and could not;
  nothing deleted or removed comes back; both sides agree in the end.
- *Provisioning*: a request takes no existing profile, a completed one is
  complete, and its result reaches Relay.
- *Local apps*: one process per app and command and manager, a retried call is
  handled once, every request is answered.
- *Agent files*: one true outcome per operation, and it is told before it is
  settled.
- *Tools*: concurrent runs that use the same names reach their own handlers.
- *Gateway*: a dispatch is claimed by one execution at a time and completed
  dispatches are not executed again.

`PROJECT.json` lists the hazards line by line, with the properties that cover
them or, where there is none, why.

## 2. Modules

| Module | Models |
|---|---|
| `HermesRun` | the run manager, `DispatchStateStore`, `SnapshotStore`, `ActiveRun` |
| `RunPromise` | what the run manager promises Relay (abstract) |
| `NativeOps` | the native operation fence of both bridges |
| `OperationPromise` | what the fence promises (abstract) |
| `TerminalOutbox` | the outbox of terminal events, its tasks and the socket |
| `ProfileSupervisor` | the registry of profile workers, its tasks, the pipes and a worker's command loop |
| `DeviceSession` | the connection of the Hermes bridge, its processes and the one-use device credential |
| `AgentSync` | the exchange of documents between the files of agents and Relay |
| `Provisioning` | the creation of native profiles, their markers and the callback outbox |
| `LocalApps` | the processes of local apps, requests about them and calls passed on to them |
| `AgentFiles` | file operations over the receipts database, in both bridges, and native replies |
| `ScopedTools` | the tool registry as concurrent runs see it |
| `MC...` | constants and values of the TLC instances |
| `HermesRunProofs`, `NativeOpsProofs`, `ProfileSupervisorProofs`, `DeviceSessionProofs`, `ProvisioningProofs`, `AgentFilesProofs` | theorems and proofs about the component of that name |
| `ExchangeProofs` | theorems and proofs about `TerminalOutbox` and `AgentSync`, the two exchanges of state with Relay |
| `MarketplaceProofs` | theorems and proofs about `ScopedTools` and `LocalApps`, what the marketplace adds to a run |

Definitions named `Bug_...` in the component modules are the faulty variants
against which the properties are tested: each property is violated when the
action it guards is replaced by such a variant (`mutants` in `PROJECT.json`).
`AgentSync` and `LocalApps` prefix the customary names (`SyncInit`, `AppsNext`,
`AppsConsistent`), since their proofs share a module with another component's.

### HermesRun

One step is what a thread does between two points where another thread can
change something it looks at: a critical section of `_scoped_locks_guard` or
`_state_lock`, a blocking call, a put. `pc[d]` is where the worker thread of
dispatch `d` is (`_run_agent` with `_scoped_execution` inlined), `timer[d]`
the watchdog's callback, `loop` the cancel the event loop is in the middle of:
the event loop is one thread, so that `Start`, `CancelBegin`, `Forward`,
`SkipTerminal` and `ResetSession` wait for it to be idle.

| Code | Model |
|---|---|
| `_runs`, the flags of `ActiveRun` | `runs`, `run[d]` |
| `_scoped_locks`, `ScopedRunLock` | `entry`; `ref`, `held`, `owner`, an object being named by the dispatch that created it |
| `event_queue`, `_forward_events` | `queue`, `forwarder`; terminal events only |
| `dispatch_state.json`, session snapshots | `ledger`, `history`; a conversation is the set of dispatches whose turns it contains |
| calls of `run_conversation`, of `send_event` | `execs`, `sent`, which only the properties read |
| `emit` of a terminal event | two steps, `...Mark` under `_state_lock` and `...Put` |
| `_scoped_execution` | `EnterScope`, `CheckWait`, `Acquire`, `AcquireFails`, `RecordOwner`, `CheckOwned`, `ReleaseLock`, `LeaveScope` |
| `_run_agent` | `Setup`, `LoadSnapshot`, `BuildAgent`, `AgentReturns`, `AgentRaises`, `SaveSnapshot`, `Finally`, `RecordTerminal`, `Quit` |
| restart of the bridge | `Crash` |

`Expire` lets the lock timeout pass; the watchdog may fire at any time after it
is armed. `AgentReturns` may give any result, a cancelled one only after an
interrupt.

### NativeOps

`handler` is the envelope being handled under the operation lock (an
`asyncio.Lock` in Hermes, a promise chain per state directory in OpenClaw), one
step per journal call, post or native change. `journal` is the SQLite table.
`received` and `recorded` are Relay's side, `effects` counts native changes.
The bridges differ in two constants. `Checked`: the operations whose handler
looks at the answer's `recorded` before it acknowledges (agent removals and
recovery do; profile and cron controls, and all of OpenClaw's `perform`, do
not). `LostReplies`: whether a journal call may commit and then be reported as
failed, which is so when the journal is a child process that is killed after
five seconds. A post may arrive and its answer be lost. The removal of an
agent and an edit of a profile are one atomic `Change`, made or not when
`Apply` raises.

### TerminalOutbox

Steps lie between two `await`s. `sending` are the sends that are awaited,
`flushing` and `todo` the two flushes, `conn` the socket, `disk` the file.
Everything on its way is lost when the socket closes, and Relay may drop what
it reads unless the connection is `stable`, a choice made at authentication
that is used in the fairness condition only. `extra` counts attempts past the
maximum since the last authentication and is read by properties only. An
acknowledgement without an event id, or with one the outbox does not have, removes
an event of its dispatch and type, and without a type any of the dispatch: what it
names beside the id is `AckNames`.

### ProfileSupervisor

Steps lie between two `await`s of the bridge. `task` says where the message
loop, the reaper and the task of each job are (its work, the process it waits for
and those it has yet to stop), `lock` which of them holds `_registry_lock`. Stopping a worker takes two steps (the shutdown is written;
the process has ended), starting one as well (the lock is taken; the process is
there). The message loop hands dispatches over one at a time and stops all
workers when a connection ends in order; when it ends with an exception the
workers stay.

| Code | Model |
|---|---|
| `_workers`, `_restart_times` | `workers`, `restarts`, the starts of the last minute; `StartAges` lets the oldest pass |
| `_worker_for` | `UseWorker`, `NewWorker`, `ReplaceWorker`, `ReplaceEnds`, `Started`, `StartFails` |
| `last_used_monotonic` against the cutoff | `proc[q].idle`, set by `IdleTimeout`, cleared by a write |
| `returncode` of a process | `proc[q].at`: live, ended, gone (noticed) |
| `stdin`, `stdout`, `_read_worker` | `inbox`, `pipe`, `reader` |
| `dispatch_state.json` of a home, the worker's copy | `ledger`, `proc[q].known` |
| `_stop_worker` | `StopNext` or `ReplaceWorker`, `Kill`, then `StopEnds` or `ReplaceEnds` |
| `shutdown` | `ShutdownBegins`, `ShutdownTakes`, then stops without the lock |

`StartFails` covers a process that cannot be created and one that has ended when
`initialize` is written to it, which is then never registered; a write that fails
while the process lives is left out, since the pipe breaks by its end.
A worker that reads a shutdown ends with the runs it has; a job is executed
before the next command is read, so that a shutdown behind it waits and the
process is killed. While the end of a connection stops the workers, a job may
start a second process of a home, with its own copy of the state file: a
dispatch delivered again may then be executed by both, so that `ExecutedOnce`
excepts the profiles that ever had two processes (`overlap`). What happens
inside a run is `HermesRun`. The time limits
are choices: `Kill` may come at any moment of a wait. A job stands for skill
installations and host commands too.

### DeviceSession

Of a credential or a token only the age matters: `"now"` is of Relay's current
generation, anything older is stale. `disk` is the credential in the config
file; `b[p]` is a bridge process: where its connection is, the credential in
memory, the access token, the socket, the lock `_native_http_lock`, and for the
message loop and for the sync task the post and the authentication they have
under way. `Relay` answers an authentication: the credential is consumed,
everything older is outdated and its sockets are closed; a consumed one that is
submitted again revokes the device. `orphans` are requests whose sender has
gone. `lost` and `overlap` are read by properties only: an answer was lost on
its way or with a process, and two authentications were under way at once.

The order inside `Keep` and `SaveOr` is that of the code: the replacement goes to
memory first and to the file after it, and `MayUse` is false when the write
failed. `LeaveByException` is a handler that raises: the cleanup behind the
message loop is skipped and the sync task lives on.

### AgentSync

One document per agent stands for its path; a content is the number of the edit
that made it and stands for its hash. `kind` says of each content whether it is
too large, has a NUL byte or is not UTF-8; `hidden` are the agents whose document
is in a directory that cannot be listed. `x` is the exchange in progress, with its
own copy of the state file (`x.state`), what it found and what it uploads;
`saved` is the file, which `Save` replaces at the end. Scanning and applying take
a step per agent, so that files change in between. `Merge` is how Relay is used
here: an upload is taken when it is based on Relay's version and is kept as a
conflict otherwise; it is external.

`ScanOf` has the difference that matters for tombstones: a missing home and a file
that cannot be read or decoded leave the scan incomplete; a directory that `rglob`
may not list, a file that is too large and one with a NUL byte are passed over, and
the scan is complete (`PassedOver`). `Apply` makes directories as the code does: the
root of a workspace whose agent has a document in the answer, and the directory
above a document that is written, also in the home of a profile that somebody has
removed since the request.

`Remove` is a native removal, which takes the lock of the exchange; `Vanish` is a
user or a mount that takes a directory away at any moment. Ghosts for the
properties: `known[a]` are the contents Relay has had, `refused` the agents that the
last answer *received* did not call connected, `unsaved` those of them whose answer
was lost again by an error or a restart before the state file was written, and
`removed` the profiles that a native removal removed. Left out: the workspace beside
the profiles to which a document is written when the profile is removed and the
list of profiles is refreshed in the middle of an exchange.

### Provisioning

`h` is the handler of one request in `handle_agent_provision`, from the check of
marker and profiles to the post of its result and its removal from the queue;
`flush` and `popping` are the sync task's pass over the queue beside it. `queue`
is in memory, `saved` the file that `Crash` reads back. A user of the host creates
and removes profiles at any moment; `h.found` is what the list of profiles said when
it was fetched, and is what `Create` goes by: a profile made since is in the way, and
one removed since is made again by the first document (`WriteDoc`). `wrote`, `existed` and `unsaved` are read by
properties only. A profile created under the name of a started marker is taken
over by a redelivery; the property speaks of profiles that were there before.

### LocalApps

The message loop of the bridge serves one request at a time (`loop`), dispatches
prepare their app beside it (`run[r]`, for each `r` of the constant `Dispatch`). A
dispatch of a profile does so in the worker process of that profile, which has a
`LocalAppRuntimeManager` of its own: `Manager` are the bridge and the workers,
`run[r].by` is the one a dispatch went to, and `processes[m]` the map of each by
repository and command. A step ends at a system call, a sleep or the lock.
`proc` are the processes of the host: `by` is the manager that started one, as long
as it lives; one listens at its port from level 1 on and serves the agent API at
level 2. `Restart(m)` ends the bridge or a worker: its map and its threads are lost
and its processes live on, in no map. `LookAtPorts` and `LookAtUrls` are the two
halves of `_status_result`; what they see is used later. The map is searched without
its lock; a key that is added after the search began may raise (`SearchRaises`), and
`ps` may fail. The verdict on a start command is an operator over the shapes the code
tells apart, not over text.

A call ends in one of four ways. `CallUnreached`: nothing took the connection, a
`URLError`. `CallLost`: what took it did nothing. `CallHandled`: the app handled it,
and the answer is its response (an error or a refused credential, too), or a timeout
or a proxy error when the response was lost. `CallTurned`: the app handled it and
then made `urlopen` raise `URLError`, by a redirect to where nothing answers or by
closing the connection while the body was being sent. The proxy takes every
`URLError` to say that the request was not sent (`NotSent`), whatever its reason.

### AgentFiles

`hd` is the handler of either bridge, `st` the store process: it reads the file
(`Read`), writes a temporary one and looks again (`Reread`), renames or deletes
(`Swap`) and saves its result (`Save`); `KillStore` and `Crash` end it between any
two. `row` is the table of receipts, with the statuses `reserved` and `started`
before there is a result, and `settled`. `told` is what Relay has received,
`shown` what the requester has; `effects` counts changes of the file and
`st.moved` marks an edit by another between the last look and the rename. At the
path there may be a directory (`Folder`), made by a command or by somebody: it is made
without a look before, and reading, replacing or deleting one is an error. The
bridges differ in the timer that kills the store (OpenClaw) and in the replies
kept for a reconnect (Hermes); the module has both.

### ScopedTools

`pc[r]` is where a run is in `registered_for_payload` with
`_ensure_scoped_tool_registry` inlined: the look without the lock, the lock, the
wrap, the patch of `model_tools`. `PatchFails` is the import or the attribute that
fails: the overlay stays and nobody patches any more. `scope` is the ContextVar of a
run's thread and of the worker that copied its context. `memo` is what Hermes keeps
of a generation of its registry, `called` the last call with the entry it reached,
`shown` the definitions each run was given. A run that enters its scope while
`model_tools` is not patched is given what Hermes remembers, and what is computed
for it is remembered for others: those answers, and what was remembered so, are
marked `early`, each for as long as it is used.

## 3. Runs

All instances are finite because the counters are: each dispatch starts once
per ledger entry, each event is offered once, crashes are bounded by
`MaxCrashes`, attempts by `MaxAttempts`, requests, deliveries, edits and faults by
the constant of that name.

| Run | Instance | Shows |
|---|---|---|
| `run_crash` | 2 dispatches of one key and session; d1 cancellable, d2 ended in a backfill, reset, failing set-up, 1 crash | exclusion, no leaked lock, one terminal event; implements `RunPromise` |
| `run_waits` | 2 dispatches, d1 timed, agents that may never return | waiting for the lock ends; timed runs are settled; if agents return, the outcome of d2 is forwarded |
| `ops` | 2 commands on 2 ids (one `Checked`), 1 crash, lost replies of the journal, a recovery limit of 1, fair | at most once, one true story; implements `OperationPromise`; every saved receipt is delivered |
| `outbox` | 2 events of one dispatch and type, 2 attempts, 1 crash, fair | no loss, current file, one extra attempt; the outbox drains |
| `supervisor` | 1 profile, 1 worker, 1 start a minute; a dispatch delivered twice and a job under two epochs; dying workers, lost connections, refused results, idle timeouts | one process per home, the bound on processes, no dispatch behind a shutdown, executed once; the message loop comes back |
| `local_apps` | 1 app, the bridge and a worker, 2 requests or restarts, 1 dispatch that either serves, 2 processes, one of them possibly by hand | no second process of a manager and none out of its reach, a call is handled once; requests are answered, approvals stop the process |
| `session` | 2 processes on one configuration, 5 faults | bearer tokens after the write, the credential is held; the bridge reconnects |
| `session_serial` | the same with 2 faults | *violated*: two authentications at once |
| `agent_sync` | a profile and a workspace, a Relay with all protocols or the oldest, 4 edits, all text or of four kinds (text, NUL, too large, not UTF-8), directories that vanish or cannot be listed, 1 fault | consent, edits kept, tombstones only for what a scan passes over or does not find, nothing deleted or removed comes back; both sides agree in the end |
| `provisioning` | 2 keys, 2 names, 1 document, 3 deliveries, 2 faults | completed means written, existing profiles untouched; results are reported |
| `agent_files` | 2 operations of any kind, directories included (all but those `MCAsked` leaves out), 2 contents, 3 deliveries, 1 edit by another, 2 faults | one true report, settled means told, unseen edits kept |
| `scoped_tools` | 2 runs, payloads with a shared callable name, an alias, a collision and a tool without a route | a call reaches the handler described under its name, definitions are a run's own once patched, counts |

`Consistent` (`SyncConsistent`, `AppsConsistent`) is the invariant each module has
under that name: its type and how the parts of its state agree. The runs' other properties are stated, with the
code they are about, above their definitions.

Two dispatches are enough for the lock: a lock object is disputed by an owner,
whoever takes it from it and one who waits, and a third waiter behaves as the
second; the theorems hold for any number. Two ids, a redelivered command and a
recovery limit of 1 (100 in the code) cover redelivery during recovery and the
head of the line; an id that two commands share is covered by the theorems. With two events
of the same dispatch and type an acknowledgement can remove the wrong one; a
third adds none. One crash after another is the same as one, except where a
counter survives; the theorems on the fence hold for any number. The attempts (8)
are 2, so that they run out. One worker slot (16 in the code) makes a second
epoch meet the limit, and two processes of one home need two names; deliveries
and starts are bounded by `Redelivered` and `MaxRestarts`, and one cancel of a
dispatch is on its way at a time. A worker serves its commands in order whatever
their number, so a dispatch and a job put every kind of command behind every
other. For local apps two starters, a request and a dispatch, dispute a key of one map or
have one each, a process by hand or from before a restart disputes the port, and two
requests or restarts let a restart meet a process that lives on; with a second app another repository's
process of the same command is adopted, which is a search over more keys. Two
processes of the bridge and five faults take a credential through a failed
write, a lost socket, an expired token and a restart in any order. In the
exchange, an edit, its counterpart at Relay, a deletion and a change of rights or of
consent fit into four edits (native removals are not counted), and one fault
separates an upload from its answer, or an answer from its save. Two deliveries
and a third after a fault cover a redelivery to a marker in each status. Two
operations on one file cover a conflict and a recovery of one by the other. Two
runs cover every race for the installation, which has one winner.

Deadlock checking is off where the bounds let the system stop: `HermesRun`
(a bridge with no dispatch left to do), `LocalApps`, `Provisioning`, `AgentFiles`
(no request left) and `ScopedTools` (runs over). `agent_files` uses symmetry, which
is sound there since nothing chooses an operation or a content by name and no
liveness is checked.

### Fairness

- `HermesRun!Fairness`: threads that can run are scheduled, time passes, the
  event loop finishes a cancel it began and forwards. The agent's return is
  not included; `OutcomeIsForwarded` assumes it (`AgentsReturn => ...`).
- `NativeOps!Fairness`: the handler does not stand still, envelopes keep
  arriving (strongly: each command is delivered again and again, and recovery,
  which leaves the delivered operation out, gets to read the journal under each),
  and journal calls and posts that are tried again and again for whatever row
  succeed in the end. The code needs all of it: recovery runs only when an
  envelope arrives.
- `TerminalOutbox!Fairness`: tasks run, acknowledgements are read, the bridge
  reconnects (`run_forever`), and again and again a connection lasts until
  what was sent over it is answered. Once its attempts are exhausted an event
  can only be delivered after reconnecting, so some assumption on connections
  is needed.
- `ProfileSupervisor!Fairness`: the registry lock is served in order (asyncio's
  locks are fair), so the message loop gets it again and again it is free; a task
  that has it goes on once the process it waits for has ended, the end of a process
  is noticed (by asyncio's child watcher), the loop and the reaper stop what they
  took, and a process that is waited for is killed in the end (after 5 and 3
  seconds). Workers may do nothing at all.
- `DeviceSession!Fairness`: the connection loop and the steps of a post go on; a
  post waits for a lock that is served in order. Failed writes are bounded
  faults, so the fair steps are those whose write succeeds.
- `AgentSync`: the steps of an exchange (`ExchangeStep`) go on; the sync loop
  starts the next one every ten seconds. Edits and faults are bounded, which is
  the premise of agreement in the end, and a directory that cannot be listed is
  excepted, since it fails every exchange that has a document for it.
- `Provisioning!FairSpec`: the handler and the flush of the sync task go on.
- `LocalApps!Fairness`: threads run, the deadline of the wait for health passes
  in the end (strongly, since looks alternate with the wait), and a process that
  was told to end does.

### Disagreement

One run exhibits behaviour that a document of the repository excludes, quoted in
`PROJECT.json` under `findings`: authentications of one device are not serialised
across the message loop and the sync task. It takes a handler that raises over
a closed socket while the sync task waits for a refresh.

Some behaviour of the code that a reader might not expect is in the models and
restricts what the properties say. Where a property has an exception for it, the
comment of the property names it:

- *Tombstones of what is there.* `rglob` passes over a directory it may not list
  (`document_policy.py:56`), files that are too large are skipped (`:73`) and those
  with a NUL byte (`:79-80`), with the scan complete: a known document there is
  reported as deleted although it exists. `contracts/bridge-plugin-contract.md:168-171`
  asks for partial scans to infer no tombstones. `TombstoneIsTruthful` excepts what a scan passes over.
- *A workspace that was gone.* `_agent_workspace_root` makes it again (`main.py:8133`)
  when its agent has a document in an answer; if nothing was written then, the next
  scan of it is complete and empty and reports what is known as deleted.
- *The first link.* A document the bridge has no entry of is overwritten by Relay's,
  whether it was ever uploaded or not: the code has only entries to compare with,
  and `contracts/bridge-plugin-contract.md:181-184` lets Relay win the first link.
  One that cannot be decoded is overwritten in any case. Both are exceptions of
  `UnseenEditIsKept`.
- *Consent.* An answer that takes consent back has no effect when applying it ends
  with an error (`main.py:9636`, or a directory that cannot be entered, then in every
  exchange) or the bridge is restarted before the state file is written
  (`main.py:9710`): the next exchange uploads the agent's contents once more.
  `NoContentWithoutConsent` excepts `unsaved`. With the older protocols contents are
  uploaded without asking at all, where `contracts/bridge-plugin-contract.md:194-195`
  says that a fallback inventory cannot upload before explicit consent.
- *Homes that come back.* A profile whose directory a user removes during an exchange
  is made again by `mkdir(parents=True)`; only native removals are excluded by the
  lock, and `NothingComesBack` speaks of those.
- *Two managers, two processes.* The bridge and a profile worker have no lock in
  common and may start the same command of an app at the same time; a restart in
  one does not know the other's process, nor any from before its own start.
- *Calls handled twice.* A call the app handled and then turned away with a
  `URLError` is sent a second time after the app was looked at; `CallIsHandledOnce`
  allows two then.
- *Definitions before the patch.* Until `model_tools` is patched, and for good if
  that fails, a model may be shown definitions of another run.
- *Profiles that were there.* A profile made under the name of a started marker is
  taken over by a redelivery, and one removed after the look is made again.

The hazards without a property are listed under `hazards` with the reason: a snapshot
saved after the execution lock was released, team dispatches beside plain ones of an
agent, an exception before the `try` of `_run_agent`, ledger writes that fail,
idleness measured by commands alone, results refused by Relay that end a worker's
reader, and the journal of the OpenClaw gateway, which is not modelled.

## 4. Theorems

Every safety property that a run checks, invariant or action property, is
stated by a theorem. The proofs hold for every finite set of dispatches, ids,
events, keys, operations, profiles, processes or agents and every bound on
crashes, edits and faults; the assumptions are the `ASSUME`s of the component
modules, which TLC evaluates on the instances. Each module proves that its
inductive invariant holds (`Invariance`, `PromiseInvariance`, `SyncInvariance`,
`AppsInvariance`) and takes the properties from it.

**`HermesRunProofs`.** `OneUnsettledRunPerKey` is not inductive: it follows from
the lock, which follows from who owns it. `IInv` has the types, `LockInv` (a
run in scope uses the lock object the map holds for its key; the reference
count is the number of runs that use it; it is locked exactly by its owner or
by a run that has acquired it and not yet recorded itself; `LockedByALivingRun`),
`SettleInv` (the terminal flag is set before anything that settles a run, and
stays) and `UnsettledOwns` (a run in the critical section without a terminal
event owns its lock object: only a forced release takes it away, and that comes
after the event). Theorems: `Exclusion`; `Consistency`, which joins `TypeCorrect`,
`NoLeakedLock` and `LockMap`; `SettledOutcome`.

The second part of the module is about the promise. `PInv` adds that what is sent, queued or about to
be put is one event for each marked run (`EventInv`), that a dispatch whose
worker has not begun has not been executed (`ExecInv`), and that an unknown
dispatch has left no trace (`UnknownInv`). It gives `OneOutcome`, `SettledOnce` and the
refinement `Implements`: each step of `HermesRun` is a step of `RunPromise` or
a stutter under `known <- {d : ledger[d] # None}`.

**`NativeOpsProofs`.** `IInv` has the types, `RowInv` (what a row's phase says of
the effects and of what Relay received), `RecoverInv` (the rows recovery has
read are still pending, unstarted and not the current one) and `CurrentInv`
(the same for the operation in hand, by program point). Theorems:
`AtMostOnce`; `OneTrueStory`, from `OneStory` and `Truth`; `Consistency`, from
`TypeCorrect` and `Acknowledged`; and the refinement `Implements` of
`OperationPromise`.

**`ProfileSupervisorProofs`.** The argument for one process per home starts at the
lock. `TaskInv`: the registry lock is held by exactly the task that stops or starts
a process with it, and where a task is says what it waits for. `RegInv`: a process
is registered for its own home, a live one is registered unless the end of a
connection is stopping it, and what a task replaces is the registered process.
`BoundInv`: the registry has room while a process is started, since whoever starts
one counted under the lock. They give `Consistency`. For `NothingBehindShutdown`,
`ShutInv` says that a process that was told to shut down is waited for by the task
that told it, so that `_worker_for` cannot find it free; the reaper alone can be
cancelled in that wait, and the connection that cancels it dispatches nothing
until it has taken the process too. For `AtMostOnce`, `OnceInv` says that without
overlap a home has one process, that this process knows what the state file says
once it read its first command, and that what was executed is in the file;
`MailInv` that work waits for a process of its own profile only.

**`ExchangeProofs`, the outbox.** `OneExtraAttempt` needs `ExtraInv`: extra attempts
are made by the reconnect flush, which has the event in `todo` until then.
`NoLoss`, `CurrentDisk` and so `Consistency` assume `~DiskMayFail`, since the code
swallows a failed write: with it the file names exactly the outbox. `TypeCorrect`
and `ExtraAttempts` need no such assumption.

**`ExchangeProofs`, the replicas.** The state file is old as soon as it is read:
Relay goes on, files change under the exchange, a restart keeps what the last one
saved. `HeldInv` says what stays true of every version the host holds, in the
file, in the copy of the exchange in progress and in the answer: Relay had it, and it is Relay's
if its number is. `CurrentInv`: where such an entry knows of Relay's deletion, the
file is gone or new to Relay, so that a scan cannot take an old content for an edit.
`EditInv`: contents are younger than what Relay has had, and files are in homes.
`UploadInv`: a request is based on the entry of the state file, and a content that would
revive a deleted document is new to Relay. `SeenInv`: what a complete scan found is in
the request, and Relay has had it once the answer is there. `PhaseInv` says what an
exchange knows by where it is; `ConsentInv` that an agent the last answer did not call
connected has no canonical id in memory, and none in the file unless that answer was
not saved; `RemovedInv` that no exchange lists a profile that a native removal
removed, since the removal waits for the lock. Theorems: `SyncConsistency`, and the
action properties `NoUnseenEditIsLost` (from `HeldInv`, `SeenInv` and `PhaseInv`),
`TombstonesAreTruthful` (from `PhaseInv`) and `NothingRevives` (from `CurrentInv`,
`UploadInv` and `RemovedInv`). They hold for an exchange with any number of agents, of
one document each, of contents of any kinds.

**`DeviceSessionProofs`.** `OnlyAnswer` carries the argument: while an answer is on
its way, nobody else has a current credential, not in memory, in the file or in
another request, so that an answer is never outdated by another and what is
written to the file is current. `TokenInv` says that tokens, and a current
credential in the file, follow the file and the memory; `HeldInv` that without lost
answers and overlaps there is one request at most, with the current credential.
Theorems: `Consistency`, `CredentialHeld`.

**`MarketplaceProofs`, the tools.** `ScopeInv` says that a scope is its own run's, of
a run that has begun and has no name of Hermes's own tools; `InstallInv` that the
overlay follows the lock, which makes it one; `NamesInv` what a payload describes;
`CallInv` that the last call reached the entry of its name; `SeenInv` that what a
model was shown, and what is remembered, is the run's own or marked as early;
`CountInv` is about the runs that use a name. That a name with entries has a last
one, which `EntryOf` chooses, is `LastEntry`, by the well-foundedness of the natural
numbers. Theorems: `Apart`, `Consistency`.

**`MarketplaceProofs`, the local apps.** `MapInv` has `LiveProcessIsInTheMap` for each
manager, whatever a search of a map without its lock has seen. `LoopInv` says that a
request that waits for a started process has one, and that the app has handled a
call that is still being served only if it turned it away, which is not possible
before the first attempt; with `AnswerInv`, what the answer says of the app, it gives
`CallsAreHandledOnce`. `OrderInv` keeps a dispatch within its startup order.
Theorems: `AppsConsistency`, `CallsAreHandledOnce`.

**`ProvisioningProofs`.** That a completed report is true for good (part of
`Consistency`) needs to know where a report comes from: `DoneInv` says that a
completed result in hand, queued, saved or being flushed belongs to a completed
marker, `WriteInv` that such a marker stands for all documents written, and that
the handler has written what it has no longer to write. `KeepsOff` follows from
`NameInv`: a marker's name was never among the profiles that existed when its
request was first taken up, and the handler writes under the marker's name.

**`AgentFilesProofs`.** `RowInv` says what a receipt's status implies for what was
told and what was done; `ToldFirst` that the requester hears a result only once
Relay has it; `Interrupted` that a started row whose store no longer runs is left to the
next recovery; `HandlerInv` and `StoreInv` the same by program point.
Theorems: `TrueReports` (one outcome, and a true one), `EditsAreKept` (from the
last part of `StoreInv`: who is about to rename has seen the version it was made
for, or somebody edited since), `Consistency`.

Only model-checked: the liveness properties (`LockWaitEnds`, `TimedRunSettles`,
`OutcomeIsForwarded`, `ReceiptIsDelivered`, `OutboxDrains`, `HandoverEnds`,
`RequestIsAnswered`, `ApprovalStopsProcess`, `Reconnects`, `EventuallyInSync`,
`ResultIsReported`), since liveness under fairness and `ENABLED` are out of the
prover's reach; and what the outbox loses when a write of its file fails, which
no property speaks of. Induction over data and recursive operators are not used in
proved modules for the same reason. The invariants above were given to TLC on the
instances before they were proved.

## 5. Not modelled

- *OpenClaw gateway and dispatch journal*: claims over concurrent first loads, the
  half-hour reclaim, the queue before readiness. The largest part left; its
  hazards are listed.
- *OpenClaw bridge authentication*: the protocol of `DeviceSession` with a promise
  chain in place of the lock, and rotation outside of it.
- *Process-wide contexts* (working directory, environment, skill roots): what a
  concurrent run reads of them happens inside the agent, outside of the repository.
- *Workspace manager, payload normalisation, schema checks, document references,
  prompts*: sequential functions of their input.
- *Structured jobs' attempts, file response relay, upload sessions*: state with
  one owner and no concurrency.
- *Cron adapter, model catalogues, channel registration, release gates*: no state.
- *Lifecycle scripts*: shell scripts over the service manager and directories.

Within the modelled parts these are left out: the missing-tool queue file, fake
mode, non-terminal events and failed ledger writes of the run manager; control
commands and full pipes of the workers; registration messages, profile metadata
and the limits on agents and documents of an exchange; listings, reads,
expiry and path confinement of file operations; the ports of local apps other than
their own and their backends' processes; the HTTP request of
a marketplace tool; the fields of a provision request.

## 6. Next

In order of weight:

1. Abstract specifications of the supervisor (each dispatch taken and executed at
   most once) and of the outbox (events delivered, none forgotten), and the
   refinements, as `RunPromise` and `OperationPromise` have them.
2. The OpenClaw gateway with its dispatch journal: claims, the reclaim of a
   dispatch after half an hour, the queue before readiness.
3. The composition of connection, reconnect backfill, run manager and outbox, with
   Relay's redelivery between them, in place of the choices each module makes for
   the others.
4. OpenClaw's authentication chain as an instance of `DeviceSession`, with a chain of
   promises for the lock.
