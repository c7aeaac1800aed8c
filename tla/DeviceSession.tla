----------------------------- MODULE DeviceSession -----------------------------
(***************************************************************************)
(* The connection of the Hermes bridge and its device credential           *)
(* (main.py): BridgeConfig, run_forever and _connect_once,                 *)
(* _authenticate_device, the refresh in _post_native_control, the          *)
(* callbacks the agent sync task posts, rotate and enroll, and the lock of *)
(* the process.                                                            *)
(*                                                                         *)
(* Every authentication consumes the credential that was submitted and     *)
(* returns the next one with new bearer tokens.  Of a credential or a      *)
(* token only its age matters: "now" is of Relay's current generation.     *)
(* Relay closes the sockets of older generations, answers 401 to their     *)
(* tokens, and revokes a device that submits a consumed credential.        *)
(***************************************************************************)
EXTENDS Naturals, FiniteSets

CONSTANTS
    Proc,     \* bridge processes somebody may start with this configuration
    MaxFaults \* lost connections, failed writes and crashes (a bound)

ASSUME DeviceSessionAssumption == MaxFaults \in Nat

VARIABLES
    b,       \* the processes
    disk,    \* the credential in config.json
    queued,  \* whether provision callbacks are queued
    orphans, \* ages of credentials in requests whose sender has gone
    revoked, \* Relay has revoked the device
    faults,
    lost,    \* a replacement credential was lost, which only the properties read
    overlap  \* two authentications were under way at once, likewise

vars == <<b, disk, queued, orphans, revoked, faults, lost, overlap>>

--------------------------------------------------------------------------------
Age == {"now", "stale"}
Who == {"loop", "task"}   \* the connection's own task, and the agent sync task

\* An authentication: not sent, sent with a credential, answered with a
\* replacement, or refused.
Request == {"none", "sent_now", "sent_stale", "ok_now", "ok_stale", "refused"}

Process == [at : {"down", "dial", "auth", "flush", "connect", "open", "backoff"},
            mem : Age,                         \* config.device_token
            access : Age \cup {"none"},        \* access_token
            session : BOOLEAN,                 \* the HTTP session is open
            ws : {"none", "open", "closed"},
            token : Age,                       \* ws_token
            lock : Who \cup {"none"},          \* _native_http_lock
            post : [Who -> {"none", "lock", "send", "auth", "again"}],
            request : [Who -> Request],
            task : BOOLEAN]                    \* the sync task lives

Down == [at |-> "down", mem |-> "stale", access |-> "none", session |-> FALSE,
         ws |-> "none", token |-> "stale", lock |-> "none",
         post |-> [w \in Who |-> "none"], request |-> [w \in Who |-> "none"],
         task |-> FALSE]

Init ==
    /\ b = [p \in Proc |-> Down]
    /\ disk = "now"
    /\ queued = FALSE
    /\ orphans = {}
    /\ revoked = FALSE
    /\ faults = 0
    /\ lost = FALSE /\ overlap = FALSE

Fault == faults < MaxFaults /\ faults' = faults + 1
NoFault == UNCHANGED faults

Older(v) == CASE v = "now" -> "stale" [] v = "sent_now" -> "sent_stale"
              [] v = "ok_now" -> "ok_stale" [] OTHER -> v

\* A new generation: everything the old one has given out is stale, and its
\* sockets are closed.
Outdated(q) == [q EXCEPT !.mem = Older(@), !.access = Older(@), !.token = Older(@),
                         !.ws = IF @ = "open" THEN "closed" ELSE @,
                         !.request = [w \in Who |-> Older(q.request[w])]]

--------------------------------------------------------------------------------
(* An authentication.                                                      *)

UnderWay == \E p \in Proc, w \in Who : b[p].request[w] # "none"

\* What process p becomes when w sends the credential in its memory.
Sent(q, w) == [q EXCEPT !.request[w] = IF q.mem = "now" THEN "sent_now"
                                                         ELSE "sent_stale"]

\* Relay: consume and replace, or revoke.
Relay(p, w) ==
    /\ \/ /\ b[p].request[w] = "sent_now" /\ ~revoked
          /\ b' = [q \in Proc |-> IF q = p THEN [Outdated(b[q]) EXCEPT
                                                   !.request[w] = "ok_now"]
                                           ELSE Outdated(b[q])]
          /\ disk' = "stale"
          /\ orphans' = {Older(o) : o \in orphans}
          /\ UNCHANGED revoked
       \/ /\ b[p].request[w] \in {"sent_now", "sent_stale"}
          /\ b[p].request[w] = "sent_stale" \/ revoked
          /\ revoked' = TRUE
          /\ b' = [b EXCEPT ![p].request[w] = "refused"]
          /\ UNCHANGED <<disk, orphans>>
    /\ NoFault
    /\ UNCHANGED <<queued, lost, overlap>>

\* A request whose sender has gone may still arrive.
RelayOrphan(o) ==
    /\ o \in orphans
    /\ \/ /\ orphans' = orphans \ {o}
          /\ UNCHANGED <<b, disk, revoked, lost>>
       \/ /\ o = "now" /\ ~revoked
          /\ b' = [q \in Proc |-> Outdated(b[q])]
          /\ disk' = "stale"
          /\ orphans' = {Older(i) : i \in orphans \ {o}}
          /\ lost' = TRUE
          /\ UNCHANGED revoked
       \/ /\ o = "stale"
          /\ revoked' = TRUE
          /\ orphans' = orphans \ {o}
          /\ UNCHANGED <<b, disk, lost>>
    /\ NoFault
    /\ UNCHANGED <<queued, overlap>>

Answered(r) == r \in {"ok_now", "ok_stale"}
AgeOf(r) == IF r = "ok_now" THEN "now" ELSE "stale"

\* The replacement is kept in memory only when it was written.
Bug_Keep(q, w, saved) ==
    [q EXCEPT !.mem = IF saved THEN AgeOf(q.request[w]) ELSE @, !.request[w] = "none"]

\* _authenticate_device: the replacement goes to memory and then to the file.
Keep(q, w, saved) == [q EXCEPT !.mem = AgeOf(q.request[w]), !.request[w] = "none"]

\* The tokens are used although the replacement could not be written.
Bug_MayUse(saved) == TRUE

\* The tokens of an answer are used only after the replacement was written.
MayUse(saved) == saved

SaveOr(p, w, saved) ==
    /\ disk' = IF saved THEN AgeOf(b[p].request[w]) ELSE disk
    /\ IF saved THEN NoFault ELSE Fault

\* The senders of requests give up, and with them answers on their way.
Abandon(requests) ==
    /\ orphans' = orphans \cup {o \in Age :
                      (IF o = "now" THEN "sent_now" ELSE "sent_stale") \in requests}
    /\ lost' = (lost \/ requests \cap {"sent_now", "sent_stale", "ok_now"} # {})
RequestsOf(p) == {b[p].request[w] : w \in Who}

--------------------------------------------------------------------------------
(* run_forever and _connect_once.                                          *)

Start(p) ==
    /\ \A q \in Proc : b[q].at = "down"   \* _bridge_process_lock
    /\ b' = [b EXCEPT ![p] = [Down EXCEPT !.at = "dial", !.mem = disk]]
    /\ UNCHANGED <<disk, queued, orphans, revoked, faults, lost, overlap>>

Dial(p) ==
    /\ b[p].at = "dial"
    /\ b' = [b EXCEPT ![p] = [Sent(b[p], "loop") EXCEPT !.at = "auth",
                                                         !.session = TRUE]]
    /\ overlap' = (overlap \/ UnderWay)
    /\ UNCHANGED <<disk, queued, orphans, revoked, faults, lost>>

\* A post that ends with its session keeps the lock.
Bug_Closed(q) == [q EXCEPT !.at = "backoff", !.session = FALSE,
                           !.post["task"] = IF @ \in {"send", "auth", "again"} THEN "none"
                                                                                ELSE @,
                           !.request["task"] = "none"]

\* The session is closed on the way out; what the sync task has sent over it fails.
Closed(q) == [q EXCEPT !.at = "backoff", !.session = FALSE,
                       !.post["task"] = IF @ \in {"send", "auth", "again"} THEN "none"
                                                                            ELSE @,
                       !.lock = IF @ = "task" THEN "none" ELSE @,
                       !.request["task"] = "none"]

Authenticated(p, saved) ==
    /\ b[p].at = "auth" /\ Answered(b[p].request["loop"])
    /\ SaveOr(p, "loop", saved)
    /\ LET q == Keep(b[p], "loop", saved) IN
       IF MayUse(saved)
       THEN /\ b' = [b EXCEPT ![p] = [q EXCEPT !.at = "flush",
                                         !.access = AgeOf(b[p].request["loop"]),
                                         !.token = AgeOf(b[p].request["loop"])]]
            /\ UNCHANGED <<orphans, lost>>
       ELSE b' = [b EXCEPT ![p] = Closed(q)] /\ Abandon({b[p].request["task"]})
    /\ UNCHANGED <<queued, revoked, overlap>>

\* A refused authentication, or one whose answer does not come.
AuthFails(p) ==
    /\ b[p].at = "auth"
    /\ IF b[p].request["loop"] = "refused" THEN NoFault ELSE Fault
    /\ Abandon(RequestsOf(p))
    /\ b' = [b EXCEPT ![p] = Closed([b[p] EXCEPT !.request["loop"] = "none"])]
    /\ UNCHANGED <<disk, queued, revoked, overlap>>

\* Queued callbacks are posted before the socket is opened.
Flush(p) ==
    /\ b[p].at = "flush" /\ b[p].post["loop"] = "none"
    /\ b' = [b EXCEPT ![p] = IF queued THEN [@ EXCEPT !.post["loop"] = "lock"]
                                       ELSE [@ EXCEPT !.at = "connect"]]
    /\ UNCHANGED <<disk, queued, orphans, revoked, faults, lost, overlap>>

\* A token of an older generation is refused: auth_error.
Connect(p) ==
    /\ b[p].at = "connect"
    /\ IF b[p].token = "now" /\ ~revoked
       THEN /\ b' = [b EXCEPT ![p].at = "open", ![p].ws = "open", ![p].task = TRUE]
            /\ UNCHANGED <<orphans, lost>>
       ELSE b' = [b EXCEPT ![p] = Closed(b[p])] /\ Abandon({b[p].request["task"]})
    /\ UNCHANGED <<disk, queued, revoked, faults, overlap>>

Drop(p) ==
    /\ b[p].ws = "open" /\ Fault
    /\ b' = [b EXCEPT ![p].ws = "closed"]
    /\ UNCHANGED <<disk, queued, orphans, revoked, lost, overlap>>

\* Access tokens are short-lived.
Expire(p) ==
    /\ b[p].access = "now" /\ Fault
    /\ b' = [b EXCEPT ![p].access = "stale"]
    /\ UNCHANGED <<disk, queued, orphans, revoked, lost, overlap>>

\* The socket has ended and the loop over its messages with it; the sync task is
\* cancelled, wherever it is.
Leave(p) ==
    /\ b[p].at = "open" /\ b[p].post["loop"] = "none" /\ b[p].ws = "closed"
    /\ b' = [b EXCEPT ![p] = [Closed(@) EXCEPT !.ws = "none", !.task = FALSE,
                                               !.post["task"] = "none"]]
    /\ Abandon({b[p].request["task"]})
    /\ UNCHANGED <<disk, queued, revoked, faults, overlap>>

\* A handler raises, as when it answers over a closed socket: what follows the
\* loop is not reached and the sync task lives on.
LeaveByException(p) ==
    /\ b[p].at = "open" /\ b[p].post["loop"] = "none" /\ b[p].ws = "closed"
    /\ b' = [b EXCEPT ![p] = Closed(@)]
    /\ Abandon({b[p].request["task"]})
    /\ UNCHANGED <<disk, queued, revoked, faults, overlap>>

Again(p) ==
    /\ b[p].at = "backoff"
    /\ b' = [b EXCEPT ![p].at = "dial"]
    /\ UNCHANGED <<disk, queued, orphans, revoked, faults, lost, overlap>>

\* stop(), while nothing is under way.
Stop(p) ==
    /\ b[p].at \in {"open", "backoff"}
    /\ \A w \in Who : b[p].request[w] = "none"
    /\ b' = [b EXCEPT ![p] = Down]
    /\ lost' = (lost \/ b[p].mem # disk)
    /\ UNCHANGED <<disk, queued, orphans, revoked, faults, overlap>>

Crash(p) ==
    /\ b[p].at # "down" /\ Fault
    /\ b' = [b EXCEPT ![p] = Down]
    /\ Abandon(RequestsOf(p) \cup (IF b[p].mem = disk THEN {} ELSE {"ok_now"}))
    /\ UNCHANGED <<disk, queued, revoked, overlap>>

--------------------------------------------------------------------------------
(* _post_native_control, by the loop for a handler and by the sync task.   *)

\* A handler of the loop posts the receipt of a native operation.
Handle(p) ==
    /\ b[p].at = "open" /\ b[p].post["loop"] = "none"
    /\ b' = [b EXCEPT ![p].post["loop"] = "lock"]
    /\ UNCHANGED <<disk, queued, orphans, revoked, faults, lost, overlap>>

\* hermes.agent.provision leaves a callback that could not be posted.
Queue ==
    /\ ~queued
    /\ \E p \in Proc : b[p].at = "open"
    /\ queued' = TRUE
    /\ UNCHANGED <<b, disk, orphans, revoked, faults, lost, overlap>>

\* _agent_sync_loop wakes up and flushes the callbacks before it looks at the
\* socket.
Wake(p) ==
    /\ b[p].task /\ b[p].post["task"] = "none"
    /\ b' = [b EXCEPT ![p] = IF queued THEN [@ EXCEPT !.post["task"] = "lock"]
                                       ELSE [@ EXCEPT !.task = b[p].task /\ b[p].ws = "open"]]
    /\ UNCHANGED <<disk, queued, orphans, revoked, faults, lost, overlap>>

EndPost(q, w) == [q EXCEPT !.post[w] = "none", !.lock = "none",
                   !.at = IF w = "loop" /\ q.at = "flush" THEN "connect" ELSE @]

TakeLock(p, w) ==
    /\ b[p].post[w] = "lock" /\ b[p].lock = "none"
    /\ b' = [b EXCEPT ![p] = IF b[p].session THEN [@ EXCEPT !.lock = w, !.post[w] = "send"]
                                             ELSE EndPost(@, w)]
    /\ UNCHANGED <<disk, queued, orphans, revoked, faults, lost, overlap>>

Accepts(p) == b[p].access = "now" /\ ~revoked

\* A callback that was accepted leaves the queue.
Delivered(p, w) == queued' = (queued /\ w = "loop" /\ b[p].at = "open")

\* Accepted, or 401 and then a new authentication, or failed.
Post(p, w) ==
    /\ b[p].post[w] = "send"
    /\ \/ /\ Accepts(p)
          /\ b' = [b EXCEPT ![p] = EndPost(b[p], w)]
          /\ Delivered(p, w)
          /\ UNCHANGED <<faults, overlap>>
       \/ /\ ~Accepts(p)
          /\ b' = [b EXCEPT ![p] = [Sent(b[p], w) EXCEPT !.post[w] = "auth"]]
          /\ overlap' = (overlap \/ UnderWay)
          /\ UNCHANGED <<queued, faults>>
       \/ /\ Fault
          /\ b' = [b EXCEPT ![p] = EndPost(b[p], w)]
          /\ UNCHANGED <<queued, overlap>>
    /\ UNCHANGED <<disk, orphans, revoked, lost>>

Refreshed(p, w, saved) ==
    /\ b[p].post[w] = "auth" /\ Answered(b[p].request[w])
    /\ SaveOr(p, w, saved)
    /\ LET q == Keep(b[p], w, saved) IN
       b' = [b EXCEPT ![p] = IF MayUse(saved)
                             THEN [q EXCEPT !.access = AgeOf(b[p].request[w]),
                                            !.post[w] = "again"]
                             ELSE EndPost(q, w)]
    /\ UNCHANGED <<queued, orphans, revoked, lost, overlap>>

RefreshFails(p, w) ==
    /\ b[p].post[w] = "auth"
    /\ IF b[p].request[w] = "refused" THEN NoFault ELSE Fault
    /\ Abandon({b[p].request[w]})
    /\ b' = [b EXCEPT ![p] = EndPost([b[p] EXCEPT !.request[w] = "none"], w)]
    /\ UNCHANGED <<disk, queued, revoked, overlap>>

\* The second attempt is the last, whatever comes of it.
PostAgain(p, w) ==
    /\ b[p].post[w] = "again"
    /\ b' = [b EXCEPT ![p] = EndPost(b[p], w)]
    /\ IF Accepts(p) THEN Delivered(p, w) ELSE UNCHANGED queued
    /\ UNCHANGED <<disk, orphans, revoked, faults, lost, overlap>>

--------------------------------------------------------------------------------
(* Commands; the lifecycle script stops the bridge before it rotates.      *)

AllDown == \A p \in Proc : b[p].at = "down"

Rotate(saved) ==
    /\ AllDown /\ ~revoked
    /\ IF disk = "now"
       THEN /\ IF saved THEN NoFault ELSE Fault
            /\ disk' = IF saved THEN "now" ELSE "stale"
            /\ orphans' = {Older(o) : o \in orphans}
            /\ lost' = (lost \/ ~saved)
            /\ overlap' = (overlap \/ UnderWay)
            /\ UNCHANGED revoked
       ELSE /\ saved /\ revoked' = TRUE
            /\ UNCHANGED <<disk, orphans, faults, lost, overlap>>
    /\ UNCHANGED <<b, queued>>

\* A new device, with a code from the user.
Enroll ==
    /\ AllDown /\ revoked
    /\ disk' = "now" /\ orphans' = {} /\ revoked' = FALSE
    /\ lost' = FALSE /\ overlap' = FALSE
    /\ UNCHANGED <<b, queued, faults>>

--------------------------------------------------------------------------------
LoopStep(p) ==
    \/ Dial(p) \/ Authenticated(p, TRUE) \/ AuthFails(p) \/ Flush(p) \/ Connect(p)
    \/ Leave(p) \/ Again(p) \/ Relay(p, "loop")

PostStep(p, w) ==
    \/ TakeLock(p, w) \/ Post(p, w) \/ Refreshed(p, w, TRUE) \/ RefreshFails(p, w)
    \/ PostAgain(p, w) \/ Relay(p, w)

Next ==
    \/ Queue \/ Enroll
    \/ \E saved \in BOOLEAN : Rotate(saved)
    \/ \E o \in Age : RelayOrphan(o)
    \/ \E p \in Proc :
         \/ Start(p) \/ Dial(p) \/ AuthFails(p) \/ Flush(p) \/ Connect(p) \/ Drop(p)
         \/ Expire(p)
         \/ Leave(p) \/ LeaveByException(p) \/ Again(p) \/ Stop(p) \/ Crash(p)
         \/ Handle(p) \/ Wake(p)
         \/ \E saved \in BOOLEAN : Authenticated(p, saved)
         \/ \E w \in Who : \/ Relay(p, w) \/ TakeLock(p, w) \/ Post(p, w)
                            \/ RefreshFails(p, w) \/ PostAgain(p, w)
                            \/ \E saved \in BOOLEAN : Refreshed(p, w, saved)

Fairness == \A p \in Proc : /\ WF_vars(LoopStep(p))
                            /\ \A w \in Who : SF_vars(PostStep(p, w))

Spec == Init /\ [][Next]_vars /\ Fairness

--------------------------------------------------------------------------------
(* Properties.                                                             *)

\* The state keeps its types, and one process at a time owns the configuration.
TypeOK ==
    /\ b \in [Proc -> Process]
    /\ \A p, q \in Proc : b[p].at # "down" /\ b[q].at # "down" => p = q
    /\ disk \in Age /\ queued \in BOOLEAN /\ orphans \subseteq Age /\ revoked \in BOOLEAN
    /\ faults \in 0..MaxFaults
    /\ lost \in BOOLEAN /\ overlap \in BOOLEAN

\* No bearer token is used before the replacement that came with it is on disk:
\* while a process holds a current token, the file holds the current credential.
BearerAfterDisk ==
    \A p \in Proc : b[p].at # "down" =>
        (b[p].access = "now" \/ b[p].ws = "open" => disk = "now")

\* One process runs, well typed, and it uses no token ahead of the file.
Consistent == TypeOK /\ BearerAfterDisk

\* The bridge always holds the credential Relay expects next, in memory, in an
\* answer on its way or on disk, and never submits a consumed one, as long as no
\* answer was lost and no two authentications ran at once.  Failed writes, 401s,
\* reconnects and restarts after a write do not lose it.
CredentialIsHeld ==
    ~lost /\ ~overlap =>
        /\ ~revoked
        /\ \/ AllDown /\ disk = "now"
           \/ \E p \in Proc : /\ b[p].at # "down"
                              /\ \/ b[p].mem = "now"
                                 \/ \E w \in Who : b[p].request[w] = "ok_now"

\* A bridge that runs gets its connection back after every lost socket, 401 and
\* failed write, unless its credential was lost.
Reconnects ==
    \A p \in Proc : (b[p].at # "down" /\ ~lost /\ ~overlap) ~>
                        (b[p].at \in {"open", "down"} \/ lost \/ overlap)

\* No credential is submitted a second time while the bridge and its network
\* work: authentications of one device are serialized.
AuthenticationsAreSerialized == ~overlap

================================================================================
