------------------------------ MODULE Provisioning -----------------------------
(***************************************************************************)
(* Native profiles that Relay asks a Hermes bridge to create               *)
(* (provisioning.py, native_profiles.py, handle_agent_provision and the    *)
(* provision callback outbox of main.py).                                  *)
(*                                                                         *)
(* The message loop handles one request at a time; a marker per            *)
(* idempotency key survives crashes.  The result is queued, saved, posted  *)
(* and taken out of the queue; the agent sync task posts what is queued    *)
(* beside it.  Requests are delivered again, and the host's user creates   *)
(* and removes profiles, too.                                              *)
(***************************************************************************)
EXTENDS Naturals, FiniteSets

CONSTANTS
    Key,           \* idempotency keys
    Name,          \* profile names
    Doc,           \* the documents of a request
    NoKey,
    MaxDeliveries, \* how often requests are delivered (a bound)
    MaxFaults      \* crashes, failed calls and failed writes (a bound)

ASSUME ProvisioningAssumption ==
    /\ NoKey \notin Key /\ Name # {}
    /\ MaxDeliveries \in Nat /\ MaxFaults \in Nat

VARIABLES
    profile,    \* the profiles: who created each
    marker,     \* the marker files
    h,          \* handle_agent_provision
    queue,      \* _provision_callback_outbox
    saved,      \* its file
    flush,      \* the callbacks the sync task is going through
    popping,    \* the one it has posted and not yet taken out of the queue
    deliveries, faults,
    heard,      \* what Relay was told of each key
    wrote,      \* documents each key has written, for the properties
    existed,    \* names that existed when a key was first taken up, likewise
    unsaved     \* a write of the queue failed, likewise

vars == <<profile, marker, h, queue, saved, flush, popping, deliveries, faults,
          heard, wrote, existed, unsaved>>
outbox == <<queue, saved, flush, popping, heard, unsaved>>

--------------------------------------------------------------------------------
Callback == Key \X {"complete", "fail"}
Marker == [status : {"none", "started", "completed"}, name : Name]

Handler == [at : {"idle", "check", "create", "files", "enqueue", "post", "pop"},
            key : Key \cup {NoKey}, name : Name, found : BOOLEAN, left : SUBSET Doc,
            result : {"complete", "fail"}]
SomeName == CHOOSE n \in Name : TRUE
Idle == [at |-> "idle", key |-> NoKey, name |-> SomeName, found |-> FALSE,
         left |-> {}, result |-> "complete"]

Init ==
    /\ profile = [n \in Name |-> "none"]
    /\ marker = [k \in Key |-> [status |-> "none", name |-> SomeName]]
    /\ h = Idle
    /\ queue = {} /\ saved = {} /\ flush = {} /\ popping = {}
    /\ deliveries = 0 /\ faults = 0
    /\ heard = [k \in Key |-> {}]
    /\ wrote = [k \in Key |-> {}]
    /\ existed = [k \in Key |-> {}]
    /\ unsaved = FALSE

Fault == faults < MaxFaults /\ faults' = faults + 1
Exists(n) == profile[n] # "none"

--------------------------------------------------------------------------------
(* provision_native_profile.                                               *)

Deliver(k, n) ==
    /\ h.at = "idle" /\ deliveries < MaxDeliveries
    /\ deliveries' = deliveries + 1
    /\ h' = [Idle EXCEPT !.at = "check", !.key = k, !.name = n]
    /\ UNCHANGED <<profile, marker, outbox, faults, wrote, existed>>

\* A profile of that name is taken over, whoever made it.
Bug_Verdict(k, n) ==
    IF marker[k].status # "none" /\ marker[k].name # n        THEN "fail"
    ELSE IF marker[k].status = "completed"
         THEN IF Exists(n) THEN "replay" ELSE "fail"
    ELSE "start"

\* What the marker and the profiles say of a request.
Verdict(k, n) ==
    IF marker[k].status # "none" /\ marker[k].name # n        THEN "fail"
    ELSE IF marker[k].status = "completed"
         THEN IF Exists(n) THEN "replay" ELSE "fail"
    ELSE IF marker[k].status = "none" /\ Exists(n)             THEN "fail"
    ELSE "start"

\* A replay is answered with the profile as it is.  The list of the profiles is
\* fetched here, and what it says is used when the profile is made.
Check ==
    /\ h.at = "check"
    /\ LET v == Verdict(h.key, h.name) IN
       /\ h' = IF v = "start" THEN [h EXCEPT !.at = "create", !.found = Exists(h.name)]
               ELSE [h EXCEPT !.at = "enqueue",
                              !.result = IF v = "replay" THEN "complete" ELSE "fail"]
       /\ marker' = IF v = "start"
                    THEN [marker EXCEPT ![h.key] = [status |-> "started", name |-> h.name]]
                    ELSE marker
       /\ existed' = IF marker[h.key].status = "none"
                     THEN [existed EXCEPT ![h.key] = {n \in Name : Exists(n)}]
                     ELSE existed
    /\ UNCHANGED <<profile, outbox, deliveries, faults, wrote>>

\* The marker of a request that may start cannot be written.
CheckFails ==
    /\ h.at = "check" /\ Verdict(h.key, h.name) = "start"
    /\ Fault
    /\ h' = [h EXCEPT !.at = "enqueue", !.result = "fail"]
    /\ UNCHANGED <<profile, marker, outbox, deliveries, wrote, existed>>

\* Makes the profile be there: a copy of the default one, or a bare directory.
Made(n) == IF Exists(n) THEN profile ELSE [profile EXCEPT ![n] = "relay"]

\* The profile is created as a copy of the default one unless the list had it; one
\* that somebody has made since the list was fetched is in the way.
Create ==
    /\ h.at = "create"
    /\ IF ~h.found /\ Exists(h.name)
       THEN /\ h' = [h EXCEPT !.at = "enqueue", !.result = "fail"]
            /\ UNCHANGED profile
       ELSE /\ h' = [h EXCEPT !.at = "files", !.left = Doc]
            /\ profile' = IF h.found THEN profile ELSE Made(h.name)
    /\ UNCHANGED <<marker, outbox, deliveries, faults, wrote, existed>>

\* The directories above a document are made, also those of a profile that somebody
\* has removed.
WriteDoc(d) ==
    /\ h.at = "files" /\ d \in h.left
    /\ h' = [h EXCEPT !.left = @ \ {d}]
    /\ wrote' = [wrote EXCEPT ![h.key] = @ \cup {d}]
    /\ profile' = Made(h.name)
    /\ UNCHANGED <<marker, outbox, deliveries, faults, existed>>

\* The marker is completed while documents are still to be written.
Bug_Complete ==
    /\ h.at = "files"
    /\ marker' = [marker EXCEPT ![h.key].status = "completed"]
    /\ h' = [h EXCEPT !.at = "enqueue", !.result = "complete"]
    /\ UNCHANGED <<profile, outbox, deliveries, faults, wrote, existed>>

Complete ==
    /\ h.at = "files" /\ h.left = {}
    /\ marker' = [marker EXCEPT ![h.key].status = "completed"]
    /\ h' = [h EXCEPT !.at = "enqueue", !.result = "complete"]
    /\ UNCHANGED <<profile, outbox, deliveries, faults, wrote, existed>>

\* A profile that cannot be created, a document that is refused, a write that fails,
\* or, the marker being completed, a refresh of the profiles that fails.
Raise ==
    /\ h.at \in {"create", "files"} \/ (h.at = "enqueue" /\ h.result = "complete")
    /\ Fault
    /\ h' = [h EXCEPT !.at = "enqueue", !.result = "fail", !.left = {}]
    /\ UNCHANGED <<profile, marker, outbox, deliveries, wrote, existed>>

--------------------------------------------------------------------------------
(* The callback outbox.                                                    *)

\* The queue is written as a whole; a failure is only logged.
Persist(q, ok) ==
    /\ queue' = q
    /\ IF ok THEN saved' = q /\ UNCHANGED <<faults, unsaved>>
             ELSE saved' = saved /\ unsaved' = TRUE /\ Fault

Enqueue(ok) ==
    /\ h.at = "enqueue"
    /\ Persist(queue \cup {<<h.key, h.result>>}, ok)
    /\ h' = [h EXCEPT !.at = "post"]
    /\ UNCHANGED <<profile, marker, flush, popping, deliveries, heard, wrote, existed>>

\* Relay has the callback; its answer may be lost.
Hears(c) == [heard EXCEPT ![c[1]] = @ \cup {c[2]}]

\* The request fails, or only its answer does: the caller cannot tell.
PostFails(c) ==
    /\ Fault
    /\ heard' \in {heard, Hears(c)}

\* A failed post leaves the callback queued; the exception is only logged.
HandlerPosts ==
    /\ h.at = "post"
    /\ LET c == <<h.key, h.result>> IN
       \/ heard' = Hears(c) /\ h' = [h EXCEPT !.at = "pop"] /\ UNCHANGED faults
       \/ PostFails(c) /\ h' = Idle
    /\ UNCHANGED <<profile, marker, queue, saved, flush, popping, deliveries, wrote,
                   existed, unsaved>>

HandlerPops(ok) ==
    /\ h.at = "pop"
    /\ Persist(queue \ {<<h.key, h.result>>}, ok)
    /\ h' = Idle
    /\ UNCHANGED <<profile, marker, flush, popping, deliveries, heard, wrote, existed>>

\* The sync task, or a new connection, goes through what is queued now.
BeginFlush ==
    /\ flush = {} /\ popping = {} /\ queue # {}
    /\ flush' = queue
    /\ UNCHANGED <<profile, marker, h, queue, saved, popping, deliveries, faults,
                   heard, wrote, existed, unsaved>>

FlushPosts(c) ==
    /\ c \in flush /\ popping = {}
    /\ flush' = flush \ {c}
    /\ \/ heard' = Hears(c) /\ popping' = {c} /\ UNCHANGED faults
       \/ PostFails(c) /\ UNCHANGED popping
    /\ UNCHANGED <<profile, marker, h, queue, saved, deliveries, wrote, existed, unsaved>>

FlushPops(ok) ==
    /\ popping # {}
    /\ popping' = {}
    /\ Persist(queue \ popping, ok)
    /\ UNCHANGED <<profile, marker, h, flush, deliveries, heard, wrote, existed>>

--------------------------------------------------------------------------------
\* The restarted bridge begins with an empty queue.
Bug_Crash ==
    /\ Fault
    /\ h' = Idle /\ flush' = {} /\ popping' = {}
    /\ queue' = {}
    /\ UNCHANGED <<profile, marker, saved, deliveries, heard, wrote, existed, unsaved>>

Crash ==
    /\ Fault
    /\ h' = Idle /\ flush' = {} /\ popping' = {}
    /\ queue' = saved
    /\ UNCHANGED <<profile, marker, saved, deliveries, heard, wrote, existed, unsaved>>

\* By hand, or by a removal.
UserCreates(n) ==
    /\ ~Exists(n) /\ deliveries < MaxDeliveries
    /\ deliveries' = deliveries + 1
    /\ profile' = [profile EXCEPT ![n] = "user"]
    /\ UNCHANGED <<marker, h, outbox, faults, wrote, existed>>

UserRemoves(n) ==
    /\ Exists(n) /\ deliveries < MaxDeliveries
    /\ deliveries' = deliveries + 1
    /\ profile' = [profile EXCEPT ![n] = "none"]
    /\ UNCHANGED <<marker, h, outbox, faults, wrote, existed>>

Next ==
    \/ \E k \in Key, n \in Name : Deliver(k, n)
    \/ Check \/ CheckFails \/ Create \/ Complete \/ Raise \/ HandlerPosts
    \/ BeginFlush \/ Crash
    \/ \E d \in Doc : WriteDoc(d)
    \/ \E c \in Callback : FlushPosts(c)
    \/ \E ok \in BOOLEAN : Enqueue(ok) \/ HandlerPops(ok) \/ FlushPops(ok)
    \/ \E n \in Name : UserCreates(n) \/ UserRemoves(n)

Spec == Init /\ [][Next]_vars

\* The message loop finishes what it handles; the sync task runs again and again.
HandlerStep == \/ Check \/ Create \/ Complete \/ Enqueue(TRUE) \/ HandlerPosts
               \/ HandlerPops(TRUE)
               \/ \E d \in Doc : WriteDoc(d)
FlushStep == BeginFlush \/ FlushPops(TRUE) \/ \E c \in Callback : FlushPosts(c)

FairSpec == Spec /\ WF_vars(HandlerStep) /\ WF_vars(FlushStep)

--------------------------------------------------------------------------------
(* Properties.                                                             *)

\* The state keeps its types, and what waits to be taken out of the queue was heard.
TypeOK ==
    /\ profile \in [Name -> {"none", "relay", "user"}]
    /\ marker \in [Key -> Marker]
    /\ h \in Handler
    /\ queue \subseteq Callback /\ saved \subseteq Callback
    /\ flush \subseteq Callback
    /\ \A c \in popping : c \in Callback /\ c[2] \in heard[c[1]]
    /\ h.at # "idle" => h.key \in Key
    /\ h.at = "pop" => h.result \in heard[h.key]
    /\ heard \in [Key -> SUBSET {"complete", "fail"}]
    /\ wrote \in [Key -> SUBSET Doc] /\ existed \in [Key -> SUBSET Name]
    /\ faults \in 0..MaxFaults /\ deliveries \in 0..MaxDeliveries

\* A request never touches a profile that was there when the request was first
\* taken up, however often it is delivered and wherever the bridge crashed.
TakesNoExistingProfile ==
    [][\A k \in Key : wrote'[k] # wrote[k] => h.name \notin existed[k]]_vars

\* A completed marker, after which a redelivery writes nothing, and a report to
\* Relay that a request is completed both stand for all of its documents written.
CompletedIsWritten ==
    \A k \in Key :
        marker[k].status = "completed" \/ "complete" \in heard[k] => wrote[k] = Doc

\* The state is well typed, and markers, reports and files agree.
Consistent == TypeOK /\ CompletedIsWritten

\* A result that was queued reaches Relay in the end, over failed calls, lost
\* answers and crashes, unless the queue could not be written.
ResultIsReported ==
    \A c \in Callback : c \in queue ~> (c[2] \in heard[c[1]] \/ unsaved)

================================================================================
