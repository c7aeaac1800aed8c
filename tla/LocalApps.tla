------------------------------- MODULE LocalApps -------------------------------
(***************************************************************************)
(* Local apps of the Hermes bridge (main.py): LocalAppRuntimeManager,      *)
(* which looks at, starts and restarts development servers on the host,    *)
(* and MarketplaceLocalAppAgentApiRequestProxy, which passes a request on  *)
(* to an app and starts the app when it cannot be reached.                 *)
(*                                                                         *)
(* The message loop of the bridge serves one request at a time, in a       *)
(* thread; beside it the worker threads of dispatches prepare the app of   *)
(* their agent.  The bridge has a manager for the requests and for the     *)
(* dispatches of agents without a profile of their own; the worker process *)
(* of each profile has another, for the dispatches of that profile.  Each  *)
(* manager has its map _processes.  The lock of the map is held while a    *)
(* process is started or told to end, and not while the map is searched.   *)
(* The map dies with its manager; the processes do not, they have sessions *)
(* of their own.  A step ends where another thread can change what this    *)
(* one looks at: at a system call, a sleep, or the lock.                   *)
(*                                                                         *)
(* The texts for the agent and the log are left out.                       *)
(***************************************************************************)
EXTENDS Naturals, Sequences, FiniteSets

CONSTANTS
    App,          \* repositories of apps
    Command,      \* start commands, the same text in every repository
    StartCommand, \* runtimeProfile.startCommand of each app
    Startup,      \* the startup order of each app's configuration
    Allowed,      \* LOCAL_APP_ALLOWED_START_COMMANDS
    Method, Path, \* methods and paths of requests, the latter split at "/"
    Port,         \* the port each app listens at
    Backend,      \* what a backend's health check may say: "none" without one
    Manager,      \* those that have a LocalAppRuntimeManager:
    Bridge,       \* the bridge, and the workers of profiles
    NoManager,
    Dispatch,     \* dispatches that prepare an app
    AppOf,        \* the app of each dispatch
    Process,      \* names for operating system processes
    ByUser,       \* those somebody may start by hand (a bound)
    NoProcess,
    MaxEvents     \* how many requests and restarts there are (a bound)

ASSUME LocalAppsAssumption ==
    /\ App # {}
    /\ StartCommand \in [App -> Command]
    /\ Startup \in [App -> Seq(Command)]
    /\ Allowed \subseteq Command
    /\ Backend \subseteq {"none", "up", "down"}
    /\ Path \subseteq Seq(STRING)
    /\ AppOf \in [Dispatch -> App]
    /\ Bridge \in Manager
    /\ NoManager \notin Manager
    /\ NoProcess \notin Process
    /\ ByUser \subseteq Process
    /\ MaxEvents \in Nat

VARIABLES
    processes, \* _processes of each manager: the process started for each
               \* repository and command
    proc,      \* the processes of the host
    loop,      \* the request being served
    run,       \* where the preparation of each dispatch is
    events,    \* how many requests and restarts there were
    answer     \* the last answer to a call, which only the properties read

appsVars == <<processes, proc, loop, run, events, answer>>

--------------------------------------------------------------------------------
Key == App \X Command

\* A process listens at its port from level 1 on and serves the agent API at
\* level 2.  "by" is the manager that started it and still is, "read" that the
\* manager reads its output for questions, as it does for a request; "hard" is such
\* a question noted, "term" SIGTERM sent.
ProcState == [at : {"gone", "live"}, key : Key, level : 0..2,
              by : Manager \cup {NoManager}, read : BOOLEAN,
              term : BOOLEAN, hard : BOOLEAN]

Live(p) == proc[p].at = "live"
Spawned(k, by, read) == [at |-> "live", key |-> k, level |-> 0, by |-> by,
                         read |-> read, term |-> FALSE, hard |-> FALSE]
Gone == [Spawned(CHOOSE k \in Key : TRUE, NoManager, FALSE) EXCEPT !.at = "gone"]

\* What answers at an app's port need not be a process of its repository.
Serving(a, l) == \E p \in Process : /\ Live(p)
                                    /\ Port[proc[p].key[1]] = Port[a]
                                    /\ proc[p].level >= l

\* ps finds the processes with the words of the command and that directory.
FoundByPs(a, c) == \E p \in Process : Live(p) /\ proc[p].key = <<a, c>>

\* What _status_result returns.
Status == [port : BOOLEAN, app : BOOLEAN, agent : BOOLEAN,
           backend : {"none", "up", "down"}]
Unseen == [port |-> FALSE, app |-> FALSE, agent |-> FALSE, backend |-> "none"]

\* _runtime_state.  The backend's port is one of the expected ports.
Running(s) == s.app /\ s.agent /\ s.backend # "down" /\ s.port
\* What ensure_running and _wait_for_healthy ask for; not the ports.
Healthy(s) == s.app /\ s.agent /\ s.backend # "down"

\* Shapes of a start command and what _validate_start_command says of them.
Shape == {"empty", "chained", "other", "no_script", "blocked_word",
          "blocked_script", "dev_script"}
Verdict(shape) ==
    CASE shape = "dev_script"                           -> "allowed"
      [] shape \in {"blocked_word", "blocked_script"}   -> "hard_stop_required"
      [] OTHER                                          -> "start_command_missing"

\* With these the command is the app's StartCommand; the package may have changed.
SameText(shape) == shape \in {"dev_script", "no_script", "blocked_script"}

\* A runtimeProfile, as far as the decisions depend on it.
Profile == [auto : BOOLEAN, repo : BOOLEAN, shape : Shape]
Good == [auto |-> TRUE, repo |-> TRUE, shape |-> "dev_script"]
\* One thing may be wrong with it, and it may be missing (NoProfile).
Flawed == {[Good EXCEPT !.auto = FALSE], [Good EXCEPT !.repo = FALSE]}
              \cup {[Good EXCEPT !.shape = s] : s \in Shape}
NoProfile == [auto |-> FALSE, repo |-> FALSE, shape |-> "empty"]

\* The first reason not to start, after the app was seen not to run.
Refusals == {"no_profile", "auto_start_disabled", "repo_not_found",
             "start_command_missing", "hard_stop_required", "allowed"}
Refusal(f) ==
    IF f = NoProfile THEN "no_profile"
    ELSE IF ~f.auto THEN "auto_start_disabled"
    ELSE IF ~f.repo THEN "repo_not_found"
    ELSE Verdict(f.shape)

\* A request of the agent API: whether it has a credential, its method, whether
\* the URL names this host and port 3052, and the segments of its path.
Request == [bearer : BOOLEAN, method : Method, local : BOOLEAN, path : Path]
AllowedMethod == {"GET", "POST", "PUT", "PATCH", "DELETE"}

\* _normalize_openclaw_path: the path without empty and "." segments.
NormalPath(path) == SelectSeq(path, LAMBDA s : s \notin {"", "."})
TargetAllowed(q) ==
    /\ q.local
    /\ ".." \notin {q.path[i] : i \in DOMAIN q.path}
    /\ Len(NormalPath(q.path)) >= 2
    /\ SubSeq(NormalPath(q.path), 1, 2) = <<"api", "openclaw">>

Rejection(q) ==
    IF ~q.bearer THEN "missing_bearer"
    ELSE IF q.method \notin AllowedMethod THEN "invalid_payload"
    ELSE IF ~TargetAllowed(q) THEN "source_host_rejected_target"
    ELSE "none"

LoopState ==
    [at : {"idle", "kill", "ports", "urls", "scan", "occupied", "start", "settle",
           "wait", "call"},
     kind : {"none", "status", "ensure", "call"},
     app : App, refusal : Refusals,    \* what the runtimeProfile comes down to
     look : {"first", "adopt", "started", "waiting"}, \* which look is going on
     seen : Status,
     keys : SUBSET Key,                \* the map when its search began
     process : Process \cup {NoProcess}, \* what this request started
     asked : BOOLEAN,                  \* and that it asked for an approval
     again : BOOLEAN,                  \* the second attempt of a call
     handled : 0..2,                   \* how often the app handled the call
     turned : BOOLEAN]                 \* it was handled and sent somewhere else

RunState == [at : {"begin", "look", "inspect", "command", "scan", "start", "wait",
                   "last", "done", "raised"},
             next : Nat, keys : SUBSET Key, by : Manager]

Idle == [at |-> "idle", kind |-> "none", app |-> CHOOSE a \in App : TRUE,
         refusal |-> "allowed", look |-> "first", seen |-> Unseen, keys |-> {},
         process |-> NoProcess, asked |-> FALSE, again |-> FALSE,
         handled |-> 0, turned |-> FALSE]

NoAnswer == [code |-> "none", handled |-> 0, turned |-> FALSE]
NoMap == [k \in Key |-> NoProcess]
NotBegun == [at |-> "begin", next |-> 1, keys |-> {}, by |-> Bridge]

AppsInit ==
    /\ processes = [m \in Manager |-> NoMap]
    /\ proc = [p \in Process |-> Gone]
    /\ loop = Idle
    /\ run = [r \in Dispatch |-> NotBegun]
    /\ events = 0
    /\ answer = NoAnswer

--------------------------------------------------------------------------------
(* Answers.                                                                *)

OwnKey == <<loop.app, StartCommand[loop.app]>>
KeysOf(m) == {k \in Key : processes[m][k] # NoProcess}

AnswerTo(l, code) ==
    /\ loop' = Idle
    /\ answer' = IF l.kind # "call" THEN NoAnswer
                 ELSE [code |-> code, handled |-> l.handled, turned |-> l.turned]
Answer(code) == AnswerTo(loop, code)

\* The result of ensure_running.  A call goes on with it.
Result(code) ==
    IF loop.kind # "call" THEN Answer(code)
    ELSE IF code \in {"status", "already", "started"}
         THEN /\ loop' = [Idle EXCEPT !.at = "call", !.kind = "call", !.again = TRUE,
                             !.app = loop.app, !.handled = loop.handled,
                             !.turned = loop.turned]
              /\ UNCHANGED answer
         ELSE Answer("runtime_recovery_failed")

\* What an earlier look and an earlier search saw is not used again.
LookFor(l, which) == [l EXCEPT !.at = "ports", !.look = which,
                               !.seen = Unseen, !.keys = {}]
Look(which) == LookFor(loop, which)

--------------------------------------------------------------------------------
(* Requests: handle_action, ensure_running, restart, and the proxy's       *)
(* handle with _execute_with_recovery.                                     *)

ReceiveAction(kind, a, f) ==
    /\ kind \in {"status", "ensure", "restart"}
    /\ loop.at = "idle" /\ events < MaxEvents
    /\ events' = events + 1
    /\ IF f = NoProfile
       THEN loop' = loop   \* runtime_profile_missing
       ELSE loop' = [Idle EXCEPT
                       !.kind = IF kind = "restart" THEN "ensure" ELSE kind,
                       !.app = a, !.refusal = Refusal(f),
                       !.at = IF kind = "restart" /\ f.repo /\ SameText(f.shape)
                              THEN "kill" ELSE "ports"]
    /\ answer' = NoAnswer
    /\ UNCHANGED <<processes, proc, run>>

ReceiveCall(a, f, q) ==
    /\ loop.at = "idle" /\ events < MaxEvents
    /\ events' = events + 1
    /\ IF Rejection(q) # "none"
       THEN loop' = loop /\ answer' = [NoAnswer EXCEPT !.code = Rejection(q)]
       ELSE /\ loop' = [Idle EXCEPT !.kind = "call", !.app = a,
                                    !.refusal = Refusal(f), !.at = "call"]
            /\ answer' = NoAnswer
    /\ UNCHANGED <<processes, proc, run>>

\* restart tells the managed process to end, does not wait for it, and goes on as
\* ensure_running.  Another command than the app's has no process.
Kill ==
    /\ loop.at = "kill"
    /\ LET p == processes[Bridge][OwnKey] IN
       IF p # NoProcess THEN proc' = [proc EXCEPT ![p].term = @ \/ Live(p)]
       ELSE proc' = proc
    /\ loop' = Look("first")
    /\ UNCHANGED <<processes, run, events, answer>>

\* _status_result: the ports and ps first, then the URLs.
LookAtPorts ==
    /\ loop.at = "ports"
    /\ \E b \in Backend :
         loop' = [loop EXCEPT !.at = "urls",
                    !.seen = [Unseen EXCEPT
                        !.port = Serving(loop.app, 1) /\ b # "down",
                        !.backend = b]]
    /\ UNCHANGED <<processes, proc, run, events, answer>>

\* ensure_running up to the search of the map.
Decide(s) ==
    IF loop.kind = "status" THEN Answer("status")
    ELSE IF Running(s) THEN Result("already")
    ELSE IF loop.refusal # "allowed" THEN Result(loop.refusal)
    ELSE /\ loop' = [loop EXCEPT !.at = "scan", !.seen = s,
                                 !.keys = KeysOf(Bridge)]
         /\ UNCHANGED answer

LookAtUrls ==
    /\ loop.at = "urls"
    /\ LET s == [loop.seen EXCEPT !.app = Serving(loop.app, 1),
                                  !.agent = Serving(loop.app, 2)]
       IN CASE loop.look = "first"  -> Decide(s)
            [] loop.look = "adopt"  -> Result("already")
            [] loop.look = "waiting" /\ Healthy(s) -> Result("started")
            [] OTHER -> /\ loop' = [loop EXCEPT !.at = "wait", !.seen = s]
                        /\ UNCHANGED answer
    /\ UNCHANGED <<processes, proc, run, events>>

\* _command_appears_running compares the commands of the processes in the map,
\* whatever their directory, and then asks ps, which may fail.
InTheMap(m, c) == \E k \in KeysOf(m) : k[2] = c /\ Live(processes[m][k])
AppearsRunning(m, a, c) == InTheMap(m, c) \/ FoundByPs(a, c)
MayAppearIdle(m, c) == ~InTheMap(m, c)

\* The map is searched without its lock: a key that is added meanwhile raises,
\* unless it was added before the search began.
SearchRaises(m, keys) == keys # KeysOf(m)

Scan ==
    /\ loop.at = "scan"
    /\ \/ /\ SearchRaises(Bridge, loop.keys)
          /\ IF loop.kind = "call" THEN Answer("source_host_proxy_failed")
                                   ELSE Answer("raised")
       \/ /\ AppearsRunning(Bridge, loop.app, StartCommand[loop.app])
          /\ loop' = Look("adopt")
          /\ UNCHANGED answer
       \/ /\ MayAppearIdle(Bridge, StartCommand[loop.app])
          /\ loop' = [loop EXCEPT !.at = "occupied", !.keys = {}]
          /\ UNCHANGED answer
    /\ UNCHANGED <<processes, proc, run, events>>

\* The port was looked at before the search.
CheckOccupied ==
    /\ loop.at = "occupied"
    /\ IF ~loop.seen.port
       THEN loop' = [loop EXCEPT !.at = "start", !.seen = Unseen] /\ UNCHANGED answer
       ELSE IF Healthy(loop.seen) THEN Result("already")
       ELSE Result("health_check_failed")
    /\ UNCHANGED <<processes, proc, run, events>>

\* What was started is not looked up again under the lock.
Bug_Vacant(m, k) == TRUE

\* The critical section of _start_runtime_command and _start_command.
Vacant(m, k) == ~(processes[m][k] # NoProcess /\ Live(processes[m][k]))

Unnamed(p) == /\ ~Live(p) /\ loop.process # p
              /\ \A m \in Manager, k \in Key : processes[m][k] # p
Spawn(m, k, read, p) ==
    /\ Unnamed(p)
    /\ proc' = [proc EXCEPT ![p] = Spawned(k, m, read)]
    /\ processes' = [processes EXCEPT ![m][k] = p]

StartCommandOf ==
    /\ loop.at = "start"
    /\ \/ /\ Vacant(Bridge, OwnKey)
          /\ \E p \in Process :
               /\ Spawn(Bridge, OwnKey, TRUE, p)
               /\ loop' = [loop EXCEPT !.at = "settle", !.process = p]
          /\ UNCHANGED answer
       \/ /\ Result("start_command_failed")  \* a live process, or Popen raises
          /\ UNCHANGED <<processes, proc>>
    /\ UNCHANGED <<run, events>>

\* After a second and a half.
Settle ==
    /\ loop.at = "settle"
    /\ IF loop.asked THEN Result("hard_stop_required")
       ELSE IF ~Live(loop.process) THEN Result("start_command_failed")
       ELSE loop' = Look("started") /\ UNCHANGED answer
    /\ UNCHANGED <<processes, proc, run, events>>

WaitGoesOn ==
    /\ loop.at = "wait"
    /\ IF loop.asked THEN Result("hard_stop_required")
       ELSE loop' = Look("waiting") /\ UNCHANGED answer
    /\ UNCHANGED <<processes, proc, run, events>>

\* The deadline moves on with every look.
Bug_WaitExpires == FALSE /\ UNCHANGED appsVars

WaitExpires ==
    /\ loop.at = "wait"
    /\ Result(IF ~loop.seen.app THEN "health_check_failed"
              ELSE IF ~loop.seen.agent THEN "agent_api_still_unreachable"
              ELSE IF loop.seen.backend = "down" THEN "backend_health_check_failed"
              ELSE "runtime_recovery_timeout")
    /\ UNCHANGED <<processes, proc, run, events>>

\* _execute raises URLError, which is taken to say that the request was not sent:
\* the app is started and the request sent once more, if that can be done.
NotSent(l) ==
    IF l.again THEN AnswerTo(l, "app_still_unreachable")
    ELSE IF l.refusal = "no_profile"
         THEN AnswerTo(l, "linkcrest_unreachable") \/ AnswerTo(l, "linkcrest_timeout")
    ELSE loop' = LookFor(l, "first") /\ UNCHANGED answer

\* Nothing takes the connection, or not in time.
CallUnreached ==
    /\ loop.at = "call"
    /\ NotSent(loop)
    /\ UNCHANGED <<processes, proc, run, events>>

\* What takes the connection does nothing with the request.
CallLost ==
    /\ loop.at = "call" /\ Serving(loop.app, 1)
    /\ Answer("linkcrest_timeout") \/ Answer("source_host_proxy_failed")
    /\ UNCHANGED <<processes, proc, run, events>>

\* The proxy starts the app and tries again after a lost response, too.
Bug_CallHandled ==
    /\ loop.at = "call" /\ Serving(loop.app, 1)
    /\ \/ AnswerTo([loop EXCEPT !.handled = @ + 1], "ok")
       \/ /\ ~loop.again /\ loop.refusal # "no_profile"
          /\ loop' = LookFor([loop EXCEPT !.handled = 1], "first")
          /\ UNCHANGED answer
    /\ UNCHANGED <<processes, proc, run, events>>

Responses == {"ok", "linkcrest_agent_api_error", "linkcrest_auth_failed"}

\* The app has handled the request; its response may be lost on the way, in time or
\* by a connection that closes.
CallHandled ==
    /\ loop.at = "call" /\ Serving(loop.app, 1)
    /\ \E code \in Responses \cup {"linkcrest_timeout", "source_host_proxy_failed"} :
         AnswerTo([loop EXCEPT !.handled = @ + 1], code)
    /\ UNCHANGED <<processes, proc, run, events>>

\* The app has handled the request and redirects to where nothing answers, which
\* urlopen reports like an app that cannot be reached; so does a connection that
\* the app closes while the body is being sent.
CallTurned ==
    /\ loop.at = "call" /\ Serving(loop.app, 1)
    /\ NotSent([loop EXCEPT !.handled = @ + 1, !.turned = TRUE])
    /\ UNCHANGED <<processes, proc, run, events>>

--------------------------------------------------------------------------------
(* prepare_for_run, in the worker thread of a dispatch.                    *)

Moves(r, at, next, keys, by) ==
    run' = [run EXCEPT ![r] = [at |-> at, next |-> next, keys |-> keys, by |-> by]]
Set(r, at) == Moves(r, at, run[r].next, {}, run[r].by)
Ends(r, at) == Moves(r, at, 1, {}, Bridge)
NextCommand(r) == Moves(r, "command", run[r].next + 1, {}, run[r].by)
Searches(r, at) == Moves(r, at, run[r].next, KeysOf(run[r].by), run[r].by)

\* A dispatch goes to the worker of its agent's profile, or to the bridge when the
\* agent has none.  Without a runtime context or a repository there is nothing to
\* prepare.
Prepare(r) ==
    /\ run[r].at = "begin"
    /\ \/ \E m \in Manager : Moves(r, "look", 1, {}, m)
       \/ Ends(r, "done")
    /\ UNCHANGED <<processes, proc, loop, events, answer>>

\* _inspect_status looks at the URL and then searches for every command; nothing
\* is started when the app answers or may not be started.
LookAtApp(r) ==
    /\ run[r].at = "look"
    /\ \/ Searches(r, "last")
       \/ ~Serving(AppOf[r], 1) /\ Searches(r, "inspect")
    /\ UNCHANGED <<processes, proc, loop, events, answer>>

\* What raises ends the worker thread: prepare_for_run is called before its try.
InspectEnds(r) ==
    /\ run[r].at \in {"inspect", "last"}
    /\ \/ SearchRaises(run[r].by, run[r].keys) /\ Ends(r, "raised")
       \/ run[r].at = "last" /\ Ends(r, "done")
       \/ run[r].at = "inspect" /\ Set(r, "command")
    /\ UNCHANGED <<processes, proc, loop, events, answer>>

\* The next command of the startup order; one outside the allowlist is refused.
TakeCommand(r) ==
    /\ run[r].at = "command"
    /\ LET order == Startup[AppOf[r]] IN
       IF run[r].next > Len(order)              THEN Set(r, "wait")
       ELSE IF order[run[r].next] \notin Allowed THEN NextCommand(r)
       ELSE Searches(r, "scan")
    /\ UNCHANGED <<processes, proc, loop, events, answer>>

RunKey(r) == <<AppOf[r], Startup[AppOf[r]][run[r].next]>>

SearchForRun(r) ==
    /\ run[r].at = "scan"
    /\ \/ SearchRaises(run[r].by, run[r].keys) /\ Ends(r, "raised")
       \/ AppearsRunning(run[r].by, RunKey(r)[1], RunKey(r)[2]) /\ NextCommand(r)
       \/ MayAppearIdle(run[r].by, RunKey(r)[2]) /\ Set(r, "start")
    /\ UNCHANGED <<processes, proc, loop, events, answer>>

StartForRun(r) ==
    /\ run[r].at = "start"
    /\ \/ /\ Vacant(run[r].by, RunKey(r))
          /\ \E p \in Process : Spawn(run[r].by, RunKey(r), FALSE, p)
          /\ NextCommand(r)
       \/ /\ ~Vacant(run[r].by, RunKey(r)) /\ NextCommand(r)
          /\ UNCHANGED <<processes, proc>>
       \/ Ends(r, "raised") /\ UNCHANGED <<processes, proc>>   \* Popen raises
    /\ UNCHANGED <<loop, events, answer>>

\* _wait_for_app_url ends when the app answers or after 45 seconds, and the app is
\* inspected once more.
WaitForRun(r) ==
    /\ run[r].at = "wait"
    /\ Searches(r, "last")
    /\ UNCHANGED <<processes, proc, loop, events, answer>>

--------------------------------------------------------------------------------
(* The processes.                                                          *)

\* A second server does not get the port.
Boot(p) ==
    /\ Live(p) /\ proc[p].level < 2
    /\ proc[p].level = 0 => ~Serving(proc[p].key[1], 1)
    /\ proc' = [proc EXCEPT ![p].level = @ + 1]
    /\ UNCHANGED <<processes, loop, run, events, answer>>

End(p) ==
    /\ Live(p)
    /\ proc' = [proc EXCEPT ![p] = Gone]
    /\ UNCHANGED <<processes, loop, run, events, answer>>

\* The thread that reads the output of a process started by a request: it notes
\* the line, then tells the process to end.
AsksApproval(p) ==
    /\ Live(p) /\ proc[p].read /\ ~proc[p].hard
    /\ proc' = [proc EXCEPT ![p].hard = TRUE]
    /\ loop' = [loop EXCEPT !.asked = @ \/ loop.process = p]
    /\ UNCHANGED <<processes, run, events, answer>>

\* The process is told to end only while the request still waits for it.
Bug_StopForApproval(p) ==
    /\ Live(p) /\ proc[p].hard /\ ~proc[p].term /\ loop.process = p
    /\ proc' = [proc EXCEPT ![p].term = TRUE]
    /\ UNCHANGED <<processes, loop, run, events, answer>>

StopForApproval(p) ==
    /\ Live(p) /\ proc[p].hard /\ ~proc[p].term
    /\ proc' = [proc EXCEPT ![p].term = TRUE]
    /\ UNCHANGED <<processes, loop, run, events, answer>>

\* Somebody starts the app by hand.
StartedByUser(p, a) ==
    /\ p \in ByUser /\ Unnamed(p)
    /\ proc' = [proc EXCEPT ![p] = Spawned(<<a, StartCommand[a]>>, NoManager, FALSE)]
    /\ UNCHANGED <<processes, loop, run, events, answer>>

\* The bridge or a worker ends and is started again: its map, its threads and what
\* they noted are lost, and its processes live on.  A dispatch may come again.
Restart(m) ==
    /\ events < MaxEvents
    /\ events' = events + 1
    /\ processes' = [processes EXCEPT ![m] = NoMap]
    /\ proc' = [p \in Process |->
                  IF proc[p].by = m
                  THEN [proc[p] EXCEPT !.by = NoManager, !.read = FALSE, !.hard = FALSE]
                  ELSE proc[p]]
    /\ run' = [r \in Dispatch |-> IF run[r].by = m /\ run[r].at \notin {"done", "raised"}
                                  THEN NotBegun ELSE run[r]]
    /\ IF m = Bridge THEN loop' = Idle /\ answer' = NoAnswer
                     ELSE UNCHANGED <<loop, answer>>

--------------------------------------------------------------------------------
LoopStep == \/ Kill \/ LookAtPorts \/ LookAtUrls \/ Scan \/ CheckOccupied
            \/ StartCommandOf \/ Settle \/ WaitGoesOn \/ WaitExpires
            \/ CallUnreached \/ CallLost \/ CallHandled \/ CallTurned

RunStep(r) == \/ LookAtApp(r) \/ InspectEnds(r) \/ TakeCommand(r) \/ SearchForRun(r)
              \/ StartForRun(r) \/ WaitForRun(r)

AppsNext ==
    \/ \E a \in App, kind \in {"status", "ensure", "restart"},
          f \in Flawed \cup {NoProfile} : ReceiveAction(kind, a, f)
    \/ \E a \in App, f \in {Good, NoProfile}, q \in Request : ReceiveCall(a, f, q)
    \/ Kill \/ LookAtPorts \/ LookAtUrls \/ Scan \/ CheckOccupied
    \/ StartCommandOf \/ Settle \/ WaitGoesOn \/ WaitExpires
    \/ CallUnreached \/ CallLost \/ CallHandled \/ CallTurned
    \/ \E r \in Dispatch :
          \/ Prepare(r) \/ LookAtApp(r) \/ InspectEnds(r) \/ TakeCommand(r)
          \/ SearchForRun(r) \/ StartForRun(r) \/ WaitForRun(r)
    \/ \E p \in Process : Boot(p) \/ End(p) \/ AsksApproval(p) \/ StopForApproval(p)
    \/ \E p \in Process, a \in App : StartedByUser(p, a)
    \/ \E m \in Manager : Restart(m)

\* Threads run, time passes, and a process that was told to end does.
Fairness ==
    /\ WF_appsVars(LoopStep)
    /\ SF_appsVars(WaitExpires)
    /\ \A r \in Dispatch : WF_appsVars(RunStep(r))
    /\ \A p \in Process : /\ WF_appsVars(StopForApproval(p))
                           /\ WF_appsVars(proc[p].term /\ End(p))

AppsSpec == AppsInit /\ [][AppsNext]_appsVars /\ Fairness

--------------------------------------------------------------------------------
(* Properties.                                                             *)

\* The state keeps its types, and a request waits only for a process of its own.
AppsTypeOK ==
    /\ processes \in [Manager -> [Key -> Process \cup {NoProcess}]]
    /\ proc \in [Process -> ProcState]
    /\ loop \in LoopState
    /\ loop.at \in {"settle", "wait"} => loop.process # NoProcess
    /\ run \in [Dispatch -> RunState]
    /\ events \in 0..MaxEvents
    /\ answer.handled \in 0..2

\* Whatever requests and runs start the same app at the same time, each manager has
\* at most one live process of a command in a repository, and its map holds the
\* handle of every live process it started since it was itself started, so that a
\* restart finds it.  Two managers may have one each: they have no lock in common.
LiveProcessIsInTheMap ==
    \A p \in Process : Live(p) /\ proc[p].by \in Manager
                        => processes[proc[p].by][proc[p].key] = p

\* The state is well typed, and no process is out of reach of the manager it has.
AppsConsistent == AppsTypeOK /\ LiveProcessIsInTheMap

\* A call of the agent API that is sent again after the app was started was not
\* handled before, unless the app itself turned the first one away: it is handled at
\* most once.  It was handled when the answer has the app's response, and not when
\* the answer is that the app could not be reached or started; a lost response or
\* an error of the proxy says neither.
CallIsHandledOnce ==
    /\ answer.handled <= IF answer.turned THEN 2 ELSE 1
    /\ answer.code \in Responses => answer.handled >= 1
    /\ answer.code \notin Responses \cup {"linkcrest_timeout", "source_host_proxy_failed"}
       /\ ~answer.turned => answer.handled = 0

\* Every request is answered, whatever the app does: the message loop does not
\* wait for an app for ever.
RequestIsAnswered == (loop.at # "idle") ~> (loop.at = "idle")

\* A process whose output asks for an approval is ended, also when the request
\* that started it was answered long ago, unless the bridge itself ends first.
ApprovalStopsProcess ==
    \A p \in Process : (Live(p) /\ proc[p].hard) ~> ~(Live(p) /\ proc[p].hard)

================================================================================
