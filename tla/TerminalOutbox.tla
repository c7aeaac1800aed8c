---------------------------- MODULE TerminalOutbox -----------------------------
(***************************************************************************)
(* The outbox of terminal runtime events of the Hermes bridge (main.py,    *)
(* ClawChatHermesBridge).  An event that ends a dispatch is written to     *)
(* disk, sent over the websocket, and kept until Relay acknowledges it.    *)
(*                                                                         *)
(* Three kinds of asyncio tasks attempt deliveries: the one that offers    *)
(* the event ("initial"), the retry loop ("retry"), and the message loop   *)
(* after an authentication ("reconnect").  They interleave wherever a send *)
(* is awaited; what lies between two awaits is one step.                   *)
(*                                                                         *)
(* The network may lose everything that is on its way.  The variable       *)
(* stable, chosen when a connection is authenticated, only serves to say   *)
(* in the fairness condition that some connections are good; the choice    *)
(* FALSE allows every behaviour.                                           *)
(***************************************************************************)
EXTENDS Naturals, FiniteSets

CONSTANTS
    Event,         \* terminal events, named by their eventId
    DispatchOf,    \* the dispatchId of each event
    TypeOf,        \* its type
    AckNames,      \* what Relay's acks may name of an event beside its eventId
    MaxAttempts,   \* TERMINAL_EVENT_MAX_ATTEMPTS
    MaxCrashes,    \* bound on the number of crashes of the bridge
    DiskMayFail    \* whether a write of the outbox file may fail

ASSUME OutboxAssumption ==
    /\ IsFiniteSet(Event)
    /\ AckNames \subseteq SUBSET {"dispatchId", "eventType"}
    /\ MaxAttempts \in Nat \ {0}
    /\ MaxCrashes \in Nat
    /\ DiskMayFail \in BOOLEAN

VARIABLES
    offered,   \* the events that were given to send_event
    outbox,    \* _terminal_outbox: the events not acknowledged
    attempts,  \* attempts of each event, counted up to MaxAttempts
    extra,     \* attempts past MaxAttempts since the last authentication
    disk,      \* the outbox file: the attempts saved for each event in it
    sending,   \* the sends that are awaited: pairs of a task and an event
    flushing,  \* the tasks that are in _flush_terminal_outbox
    todo,      \* the events a flush has yet to visit
    retryTask, \* whether the retry loop exists
    conn,      \* the websocket: "down", "open" or "authenticated"
    stable,    \* the connection lasts until what was sent over it is answered
    toRelay,   \* events sent and not yet read by Relay
    toBridge,  \* events whose ack is on its way to the bridge
    stored,    \* the events Relay has stored
    crashes    \* how often the bridge has crashed

memVars   == <<outbox, attempts, extra>>
linkVars  == <<conn, stable>>
taskVars  == <<sending, flushing, todo, retryTask>>
relayVars == <<toRelay, toBridge, stored>>
vars == <<offered, memVars, disk, taskVars, linkVars, relayVars, crashes>>

--------------------------------------------------------------------------------
Flush == {"retry", "reconnect"}
Task == Flush \cup {"initial"}

Init ==
    /\ offered = {}
    /\ outbox = {}
    /\ attempts = [e \in Event |-> 0]
    /\ extra = [e \in Event |-> 0]
    /\ disk = [e \in {} |-> 0]
    /\ sending = {}
    /\ flushing = {}
    /\ todo = [t \in Flush |-> {}]
    /\ retryTask = FALSE
    /\ conn = "down"
    /\ stable = FALSE
    /\ toRelay = {}
    /\ toBridge = {}
    /\ stored = {}
    /\ crashes = 0

\* _persist_terminal_outbox writes the events that are not acknowledged with
\* their attempts, and swallows an error of the write.
Persist(box, tries) ==
    disk' \in {[e \in box |-> tries[e]]} \cup (IF DiskMayFail THEN {disk} ELSE {})

Visiting(t) == \E e \in Event : <<t, e>> \in sending

\* The part of _attempt_terminal_event_delivery that runs without a pause,
\* for an event of the outbox box: count the attempt, then await the send,
\* or fail at once and persist when there is no socket.
Attempt(t, e, box) ==
    LET tries == [attempts EXCEPT ![e] = IF @ < MaxAttempts THEN @ + 1 ELSE @]
    IN  /\ attempts' = tries
        /\ extra' = [extra EXCEPT ![e] = IF attempts[e] < MaxAttempts THEN @ ELSE @ + 1]
        /\ IF conn = "down"
             THEN sending' = sending /\ Persist(box, tries)
             ELSE sending' = sending \cup {<<t, e>>}

--------------------------------------------------------------------------------
Bug_OfferUnsaved(e) ==
    /\ e \notin offered
    /\ offered' = offered \cup {e}
    /\ outbox' = outbox \cup {e}
    /\ Attempt("initial", e, outbox \cup {e})
    /\ conn # "down" => UNCHANGED disk
    /\ UNCHANGED <<flushing, todo, retryTask, linkVars, relayVars, crashes>>

\* send_event with a terminal event: give it an id, save it, attempt it.
\* What is saved before the first attempt has its counter at zero.
Offer(e) ==
    /\ e \notin offered
    /\ offered' = offered \cup {e}
    /\ outbox' = outbox \cup {e}
    /\ Attempt("initial", e, outbox \cup {e})
    /\ conn # "down" => Persist(outbox \cup {e}, attempts)
    /\ UNCHANGED <<flushing, todo, retryTask, linkVars, relayVars, crashes>>

\* The awaited send returns, or raises; both persist the outbox as it is now.
SendReturns(t, e) ==
    /\ <<t, e>> \in sending
    /\ sending' = sending \ {<<t, e>>}
    /\ toRelay' = IF conn = "down" THEN toRelay ELSE toRelay \cup {e}
    /\ Persist(outbox, attempts)
    /\ UNCHANGED <<offered, memVars, flushing, todo, retryTask, linkVars, toBridge,
                   stored, crashes>>

SendRaises(t, e) ==
    /\ <<t, e>> \in sending
    /\ ~stable
    /\ sending' = sending \ {<<t, e>>}
    /\ Persist(outbox, attempts)
    /\ UNCHANGED <<offered, memVars, flushing, todo, retryTask, linkVars, relayVars,
                   crashes>>

--------------------------------------------------------------------------------
(***************************************************************************)
(* _flush_terminal_outbox: take the unacknowledged events, then visit them *)
(* one after the other.                                                    *)
(***************************************************************************)
\* The retry loop wakes up; the socket was open before it slept.
Wake ==
    /\ retryTask
    /\ "retry" \notin flushing
    /\ flushing' = flushing \cup {"retry"}
    /\ todo' = [todo EXCEPT !["retry"] = outbox]
    /\ UNCHANGED <<offered, memVars, disk, sending, retryTask, linkVars, relayVars,
                   crashes>>

Exhausted(e) == attempts[e] >= MaxAttempts

Bug_VisitExhausted(t, e) ==
    /\ t \in flushing
    /\ ~Visiting(t)
    /\ e \in todo[t]
    /\ e \in outbox
    /\ todo' = [todo EXCEPT ![t] = @ \ {e}]
    /\ Attempt(t, e, outbox)
    /\ conn # "down" => UNCHANGED disk
    /\ UNCHANGED <<offered, outbox, flushing, retryTask, linkVars, relayVars, crashes>>

Bug_VisitNeverExhausted(t, e) ==
    IF ~Exhausted(e) THEN Bug_VisitExhausted(t, e)
    ELSE /\ t \in flushing
         /\ ~Visiting(t)
         /\ e \in todo[t] \cap outbox
         /\ todo' = [todo EXCEPT ![t] = @ \ {e}]
         /\ UNCHANGED <<offered, memVars, disk, sending, flushing, retryTask, linkVars,
                        relayVars, crashes>>

\* An event acknowledged since the flush began is not attempted, and an
\* exhausted one only after an authentication.
Visit(t, e) ==
    /\ t \in flushing
    /\ ~Visiting(t)
    /\ e \in todo[t]
    /\ e \in outbox
    /\ ~Exhausted(e) \/ t = "reconnect"
    /\ todo' = [todo EXCEPT ![t] = @ \ {e}]
    /\ Attempt(t, e, outbox)
    /\ conn # "down" => UNCHANGED disk
    /\ UNCHANGED <<offered, outbox, flushing, retryTask, linkVars, relayVars, crashes>>

\* The visit does nothing: the event was acknowledged, it is exhausted, or
\* the retry loop finds its last attempt less than the interval ago.
Skip(t, e) ==
    /\ t \in flushing
    /\ ~Visiting(t)
    /\ e \in todo[t]
    /\ \/ e \notin outbox
       \/ t = "retry"
    /\ todo' = [todo EXCEPT ![t] = @ \ {e}]
    /\ UNCHANGED <<offered, memVars, disk, sending, flushing, retryTask, linkVars,
                   relayVars, crashes>>

\* The retry loop ends when it finds the socket closed after a flush.
EndFlush(t) ==
    /\ t \in flushing
    /\ ~Visiting(t)
    /\ todo[t] = {}
    /\ flushing' = flushing \ {t}
    /\ retryTask' = (retryTask /\ (t = "retry" => conn # "down"))
    /\ UNCHANGED <<offered, memVars, disk, sending, todo, linkVars, relayVars, crashes>>

--------------------------------------------------------------------------------
(***************************************************************************)
(* The connection.  The message loop runs the reconnect flush, so that it  *)
(* reads no ack before the flush is over, and does not leave a closed      *)
(* socket before.                                                          *)
(***************************************************************************)
Connect ==
    /\ conn = "down"
    /\ "reconnect" \notin flushing
    /\ conn' = "open"
    /\ UNCHANGED <<offered, memVars, disk, taskVars, stable, relayVars, crashes>>

\* The "authenticated" message: start the retry loop and flush.
Authenticate ==
    /\ conn = "open"
    /\ conn' = "authenticated"
    /\ stable' \in BOOLEAN
    /\ retryTask' = TRUE
    /\ flushing' = flushing \cup {"reconnect"}
    /\ todo' = [todo EXCEPT !["reconnect"] = outbox]
    /\ extra' = [e \in Event |-> 0]
    /\ UNCHANGED <<offered, outbox, attempts, disk, sending, relayVars, crashes>>

\* What is on its way is lost; Relay may have read it before.
SocketCloses ==
    /\ conn # "down"
    /\ stable => "reconnect" \notin flushing /\ sending = {} /\ toRelay \cup toBridge = {}
    /\ conn' = "down"
    /\ stable' = FALSE
    /\ toRelay' = {}
    /\ toBridge' = {}
    /\ UNCHANGED <<offered, memVars, disk, taskVars, stored, crashes>>

\* After an orderly end of the message loop _stop_terminal_retry_task cancels
\* the retry loop at the send or the sleep it awaits.  An exception skips it.
StopRetryTask ==
    /\ conn = "down"
    /\ "reconnect" \notin flushing
    /\ retryTask
    /\ retryTask' = FALSE
    /\ flushing' = flushing \ {"retry"}
    /\ todo' = [todo EXCEPT !["retry"] = {}]
    /\ sending' = {s \in sending : s[1] # "retry"}
    /\ UNCHANGED <<offered, memVars, disk, linkVars, relayVars, crashes>>

\* _handle_runtime_event_ack: the ack's event if it is in the outbox, else every
\* event of the dispatch that the ack names, of the type that it names if it does.
Matches(e, f, names) ==
    /\ "dispatchId" \in names /\ DispatchOf[e] = DispatchOf[f]
    /\ "eventType" \in names => TypeOf[e] = TypeOf[f]

Acked(e, names) ==
    IF e \in outbox THEN {e} ELSE {f \in outbox : Matches(e, f, names)}

Bug_HandleAckUnsaved(e) ==
    /\ conn = "authenticated"
    /\ "reconnect" \notin flushing
    /\ e \in toBridge
    /\ toBridge' = toBridge \ {e}
    /\ outbox' = outbox \ {e}
    /\ UNCHANGED <<offered, attempts, extra, disk, taskVars, linkVars, toRelay, stored,
                   crashes>>

HandleAck(e) ==
    /\ conn = "authenticated"
    /\ "reconnect" \notin flushing
    /\ e \in toBridge
    /\ toBridge' = toBridge \ {e}
    /\ \E names \in AckNames :
         LET acked == Acked(e, names) IN
         /\ outbox' = outbox \ acked
         /\ IF acked = {} THEN UNCHANGED disk ELSE Persist(outbox \ acked, attempts)
    /\ UNCHANGED <<offered, attempts, extra, taskVars, linkVars, toRelay, stored, crashes>>

--------------------------------------------------------------------------------
(***************************************************************************)
(* Relay, outside the repository: it stores the event and acknowledges it, *)
(* each time it reads it; it may also drop what it reads, or its ack.      *)
(***************************************************************************)
RelayStores(e) ==
    /\ e \in toRelay
    /\ toRelay' = toRelay \ {e}
    /\ stored' = stored \cup {e}
    /\ toBridge' = toBridge \cup {e}
    /\ UNCHANGED <<offered, memVars, disk, taskVars, linkVars, crashes>>

RelayDrops(e) ==
    /\ e \in toRelay
    /\ ~stable
    /\ toRelay' = toRelay \ {e}
    /\ stored' \in {stored, stored \cup {e}}
    /\ UNCHANGED <<offered, memVars, disk, taskVars, linkVars, toBridge, crashes>>

\* The bridge is killed and started again: it loads the outbox file.
Crash ==
    /\ crashes < MaxCrashes
    /\ crashes' = crashes + 1
    /\ outbox' = DOMAIN disk
    /\ attempts' = [e \in Event |-> IF e \in DOMAIN disk THEN disk[e] ELSE 0]
    /\ extra' = [e \in Event |-> 0]
    /\ sending' = {}
    /\ flushing' = {}
    /\ todo' = [t \in Flush |-> {}]
    /\ retryTask' = FALSE
    /\ conn' = "down"
    /\ stable' = FALSE
    /\ toRelay' = {}
    /\ toBridge' = {}
    /\ UNCHANGED <<offered, disk, stored>>

--------------------------------------------------------------------------------
TaskStep(t) ==
    \/ \E e \in Event : Visit(t, e) \/ Skip(t, e)
    \/ EndFlush(t)

Next ==
    \/ \E e \in Event : \/ Offer(e) \/ HandleAck(e)
                        \/ RelayStores(e) \/ RelayDrops(e)
    \/ \E t \in Task, e \in Event : SendReturns(t, e) \/ SendRaises(t, e)
    \/ \E t \in Flush : TaskStep(t)
    \/ Wake \/ Connect \/ Authenticate \/ SocketCloses \/ StopRetryTask
    \/ Crash

Spec == Init /\ [][Next]_vars

\* The event loop runs every task and reads every ack, Relay answers what it
\* reads, the bridge connects again whenever the socket has closed, and again
\* and again a connection is stable.
Fairness ==
    /\ \A t \in Flush : WF_vars(TaskStep(t))
    /\ \A t \in Task, e \in Event : WF_vars(SendReturns(t, e) \/ SendRaises(t, e))
    /\ \A e \in Event : WF_vars(RelayStores(e)) /\ WF_vars(HandleAck(e))
    /\ WF_vars(Connect)
    /\ SF_vars(Authenticate /\ stable')
    /\ WF_vars(SocketCloses)

FairSpec == Spec /\ Fairness

--------------------------------------------------------------------------------
(***************************************************************************)
(* Properties.                                                             *)
(***************************************************************************)

\* Type invariant of the bridge's memory and disk, the tasks and the link.  It
\* includes that the tasks are coherent: only a flush has events to visit and a
\* send to await, and only the current retry loop runs a retry flush.
TypeOK ==
    /\ offered \subseteq Event
    /\ outbox \subseteq offered
    /\ attempts \in [Event -> 0 .. MaxAttempts]
    /\ extra \in [Event -> Nat]
    /\ DOMAIN disk \subseteq offered
    /\ \A e \in DOMAIN disk : disk[e] \in 0 .. MaxAttempts
    /\ sending \subseteq Task \X offered
    /\ flushing \subseteq Flush
    /\ todo \in [Flush -> SUBSET offered]
    /\ retryTask \in BOOLEAN
    /\ \A t \in Flush \ flushing : todo[t] = {} /\ ~Visiting(t)
    /\ "retry" \in flushing => retryTask
    /\ conn \in {"down", "open", "authenticated"}
    /\ stable \in BOOLEAN
    /\ toRelay \subseteq offered
    /\ toBridge \subseteq stored
    /\ stored \subseteq offered
    /\ crashes \in Nat

\* No event that was offered is lost: it is on disk, ready for the next start
\* of the bridge, or Relay has stored it, or Relay has stored another one whose
\* ack names it, too: one of the same dispatch and, if the acks tell, type.
NothingIsLost ==
    \A e \in offered :
        \/ e \in DOMAIN disk
        \/ e \in stored
        \/ \E f \in stored, names \in AckNames : Matches(f, e, names)

\* The file never lags behind the memory on what is to be delivered, so that
\* a crash neither forgets an event nor brings an acknowledged one back.
DiskIsCurrent == DOMAIN disk = outbox

\* Memory, tasks and link are well typed, no flush outlives its task, and the file
\* is current.
Consistent == TypeOK /\ DiskIsCurrent

\* "Retry the same saved receipt once": an exhausted event is attempted at
\* most once more for each authentication, whatever tasks visit it.
OneExtraAttempt == \A e \in Event : extra[e] <= 1

\* Every event that was offered is in the end acknowledged and forgotten.
OutboxDrains == \A e \in Event : e \in outbox ~> e \notin outbox
================================================================================
