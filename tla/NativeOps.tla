------------------------------- MODULE NativeOps -------------------------------
(***************************************************************************)
(* Native operations (profile edits, cron controls, agent removals): a     *)
(* command claimed from Relay is executed behind a durable fence, a SQLite *)
(* journal that keeps the phase and the receipt of every operation id.     *)
(*                                                                         *)
(* The Hermes bridge (native_controls.py, native_agent_removal.py,         *)
(* native_operation_store.py) and the OpenClaw bridge (native-controls.ts, *)
(* which runs the same Python store as a child process) follow the same    *)
(* steps, one operation at a time.  They differ in two constants: Checked  *)
(* and LostReplies.                                                        *)
(***************************************************************************)
EXTENDS Naturals, FiniteSets

CONSTANTS
    Command,     \* commands: a kind and a request hash
    NoCommand,
    Id,          \* operation ids
    NoId,
    IdOf,        \* the operation id each command is sent under
    Checked,     \* the ids whose handler acknowledges only what was recorded
    LostReplies, \* whether a journal call may commit and be reported as failed
    Limit,       \* how many rows one recovery reads (100 in the code)
    MaxCrashes   \* bound on the number of crashes of the bridge

ASSUME OpAssumption ==
    /\ IsFiniteSet(Id)
    /\ NoCommand \notin Command
    /\ NoId \notin Id
    /\ IdOf \in [Command -> Id]
    /\ Checked \subseteq Id
    /\ LostReplies \in BOOLEAN
    /\ Limit \in Nat \ {0}
    /\ MaxCrashes \in Nat

VARIABLES
    journal,  \* the operations table: one row for each id
    handler,  \* the operation being handled under the operation lock
    effects,  \* how often the native change of each id was made
    received, \* the receipts of each id that reached Relay
    recorded, \* the ids whose receipt Relay recorded
    crashes   \* how often the bridge has crashed

relayVars == <<received, recorded>>
vars == <<journal, handler, effects, relayVars, crashes>>

--------------------------------------------------------------------------------
None == "none"
Receipt == {"noStart", "done", "unknown"}
Phase == {None, "prepared", "started", "completed"}

Row == [cmd : Command \cup {NoCommand}, phase : Phase,
        receipt : Receipt \cup {None}, acknowledged : BOOLEAN, rowid : Nat]

\* Where the handler is: at the journal call, the post or the native change
\* it makes next.
JournalPC == {"pending", "itemFinish", "itemAcknowledge", "reserve", "start",
              "finish", "acknowledge"}
PostPC == {"itemPost", "savedPost", "claim", "post"}

Handler == [at : {"idle", "item", "apply"} \cup JournalPC \cup PostPC,
            cmd : Command \cup {NoCommand}, \* the command of the envelope
            todo : SUBSET Id,               \* rows recovery has yet to visit
            item : Id \cup {NoId},          \* the row recovery is visiting
            receipt : Receipt \cup {None},  \* the receipt in hand
            made : BOOLEAN]                 \* apply has made its change

NoRow == [cmd |-> NoCommand, phase |-> None, receipt |-> None,
          acknowledged |-> FALSE, rowid |-> 0]

Idle == [at |-> "idle", cmd |-> NoCommand, todo |-> {}, item |-> NoId,
         receipt |-> None, made |-> FALSE]

Current == IdOf[handler.cmd]

Init ==
    /\ journal = [i \in Id |-> NoRow]
    /\ handler = Idle
    /\ effects = [i \in Id |-> 0]
    /\ received = [i \in Id |-> {}]
    /\ recorded = {}
    /\ crashes = 0

\* A journal call has committed; the handler goes on as s, unless the call
\* is reported as failed and the handler raises.
AfterCommit(s) == IF LostReplies THEN {s, Idle} ELSE {s}

\* A receipt is posted and the post returns; Relay may answer that it did
\* not record the receipt.
Answered(i, r, isRecorded) ==
    /\ received' = [received EXCEPT ![i] = @ \cup {r}]
    /\ recorded' = IF isRecorded THEN recorded \cup {i} ELSE recorded

\* The post of a receipt raises: Relay got it and the answer was lost, or
\* Relay never got it.
Unanswered(i, r) == Answered(i, r, TRUE) \/ UNCHANGED relayVars

--------------------------------------------------------------------------------
(***************************************************************************)
(* An envelope arrives.  Envelopes are handled one after the other, and    *)
(* Relay may deliver the same one again at any time.                       *)
(***************************************************************************)
Receive(c) ==
    /\ handler.at = "idle"
    /\ handler' = [Idle EXCEPT !.at = "pending", !.cmd = c]
    /\ UNCHANGED <<journal, effects, relayVars, crashes>>

(***************************************************************************)
(* recover: close the rows that were left prepared, and post the receipts  *)
(* that no answer has acknowledged.                                        *)
(***************************************************************************)
IsPending(i) ==
    /\ ~journal[i].acknowledged
    /\ journal[i].phase \in {"prepared", "completed"}

\* SELECT .. ORDER BY rowid LIMIT Limit
PendingRows ==
    {i \in Id :
        /\ IsPending(i)
        /\ Cardinality({j \in Id : IsPending(j) /\ journal[j].rowid < journal[i].rowid})
             < Limit}

Bug_ReadOwnRow ==
    /\ handler.at = "pending"
    /\ handler' = [handler EXCEPT !.at = "item", !.todo = {}]
    /\ UNCHANGED <<journal, effects, relayVars, crashes>>

ReadPending ==
    /\ handler.at = "pending"
    /\ handler' = [handler EXCEPT !.at = "item",
                                  !.todo = PendingRows \ {Current}]
    /\ UNCHANGED <<journal, effects, relayVars, crashes>>

\* The rows read are visited in the order of their row ids.
VisitItem(i) ==
    /\ handler.at = "item"
    /\ i \in handler.todo
    /\ \A j \in handler.todo : journal[i].rowid <= journal[j].rowid
    /\ handler' = [handler EXCEPT
                     !.at = IF journal[i].receipt = None THEN "itemFinish" ELSE "itemPost",
                     !.todo = @ \ {i},
                     !.item = i,
                     !.receipt = journal[i].receipt]
    /\ UNCHANGED <<journal, effects, relayVars, crashes>>

\* A row without a receipt never started: its receipt says so.
FinishItem(i) ==
    /\ handler.at = "itemFinish"
    /\ handler.item = i
    /\ journal' = [journal EXCEPT ![i].phase = "completed", ![i].receipt = "noStart"]
    /\ handler' \in AfterCommit([handler EXCEPT !.at = "itemPost", !.receipt = "noStart"])
    /\ UNCHANGED <<effects, relayVars, crashes>>

NextItem(s) == [s EXCEPT !.at = "item", !.item = NoId, !.receipt = None]

PostItem(i) ==
    /\ handler.at = "itemPost"
    /\ handler.item = i
    /\ Answered(i, handler.receipt, TRUE)
    /\ handler' = [handler EXCEPT !.at = "itemAcknowledge"]
    /\ UNCHANGED <<journal, effects, crashes>>

\* The receipt is kept for a later retry.
PostItemFails ==
    /\ handler.at = "itemPost"
    /\ \/ Answered(handler.item, handler.receipt, FALSE)
       \/ Unanswered(handler.item, handler.receipt)
    /\ handler' = NextItem(handler)
    /\ UNCHANGED <<journal, effects, crashes>>

AcknowledgeItem(i) ==
    /\ handler.at = "itemAcknowledge"
    /\ handler.item = i
    /\ journal' = [journal EXCEPT ![i].acknowledged = TRUE]
    /\ handler' \in AfterCommit(NextItem(handler))
    /\ UNCHANGED <<effects, relayVars, crashes>>

EndRecovery ==
    /\ handler.at = "item"
    /\ handler.todo = {}
    /\ handler' = [handler EXCEPT !.at = "reserve"]
    /\ UNCHANGED <<journal, effects, relayVars, crashes>>

--------------------------------------------------------------------------------
(***************************************************************************)
(* handle: reserve the id, claim the command, start, apply, finish, post,  *)
(* acknowledge.                                                            *)
(***************************************************************************)
Insert ==
    /\ journal[Current].phase = None
    /\ journal' = [journal EXCEPT
                     ![Current] = [NoRow EXCEPT
                        !.cmd = handler.cmd,
                        !.phase = "prepared",
                        !.rowid = Cardinality({j \in Id : journal[j].phase # None}) + 1]]
    /\ handler' \in AfterCommit([handler EXCEPT !.at = "claim"])

\* The id has a row: its receipt is posted again, a row still prepared is
\* claimed again, and a started row, or the row of another command, raises.
Reuse ==
    /\ journal[Current].phase # None
    /\ \/ /\ journal[Current].cmd = handler.cmd
          /\ journal[Current].receipt # None
          /\ handler' = [handler EXCEPT !.at = "savedPost",
                                        !.receipt = journal[Current].receipt]
       \/ /\ journal[Current].cmd = handler.cmd
          /\ journal[Current].receipt = None
          /\ journal[Current].phase = "prepared"
          /\ handler' = [handler EXCEPT !.at = "claim"]
       \/ /\ \/ journal[Current].cmd # handler.cmd
             \/ journal[Current].phase = "started"
          /\ handler' = Idle
    /\ UNCHANGED journal

Bug_Reserve ==
    /\ handler.at = "reserve"
    /\ journal' = [journal EXCEPT
                     ![Current] = [NoRow EXCEPT !.cmd = handler.cmd, !.phase = "prepared"]]
    /\ handler' = [handler EXCEPT !.at = "claim"]
    /\ UNCHANGED <<effects, relayVars, crashes>>

Reserve ==
    /\ handler.at = "reserve"
    /\ Insert \/ Reuse
    /\ UNCHANGED <<effects, relayVars, crashes>>

\* A receipt that was saved before is posted again, and the envelope ends.
PostSaved ==
    /\ handler.at = "savedPost"
    /\ \/ \E isRecorded \in BOOLEAN : Answered(Current, handler.receipt, isRecorded)
       \/ Unanswered(Current, handler.receipt)
    /\ handler' = Idle
    /\ UNCHANGED <<journal, effects, crashes>>

\* Relay allows the command, or refuses it (or it has expired), or answers
\* with a scope or digest that does not match, or not at all.
Claim ==
    /\ handler.at = "claim"
    /\ \/ handler' = [handler EXCEPT !.at = "start"]
       \/ handler' = [handler EXCEPT !.at = "finish", !.receipt = "noStart"]
       \/ handler' = Idle
    /\ UNCHANGED <<journal, effects, relayVars, crashes>>

Bug_StartUnsaved ==
    /\ handler.at = "start"
    /\ journal[Current].phase = "prepared"
    /\ handler' = [handler EXCEPT !.at = "apply"]
    /\ UNCHANGED <<journal, effects, relayVars, crashes>>

Start ==
    /\ handler.at = "start"
    /\ journal[Current].phase = "prepared"
    /\ journal' = [journal EXCEPT ![Current].phase = "started"]
    /\ handler' \in AfterCommit([handler EXCEPT !.at = "apply"])
    /\ UNCHANGED <<effects, relayVars, crashes>>

\* The native change takes effect while apply runs.
Change ==
    /\ handler.at = "apply"
    /\ ~handler.made
    /\ effects' = [effects EXCEPT ![Current] = @ + 1]
    /\ handler' = [handler EXCEPT !.made = TRUE]
    /\ UNCHANGED <<journal, relayVars, crashes>>

\* apply returns when its change is made and confirmed; it may raise (or be
\* killed at its timeout) before or after the change.
Apply ==
    /\ handler.at = "apply"
    /\ \/ /\ handler.made
          /\ handler' = [handler EXCEPT !.at = "finish", !.receipt = "done"]
       \/ handler' = [handler EXCEPT !.at = "finish", !.receipt = "unknown"]
    /\ UNCHANGED <<journal, effects, relayVars, crashes>>

Bug_PostBeforeFinish ==
    /\ handler.at = "finish"
    /\ handler' = [handler EXCEPT !.at = "post"]
    /\ UNCHANGED <<journal, effects, relayVars, crashes>>

Finish ==
    /\ handler.at = "finish"
    /\ journal[Current].receipt \in {None, handler.receipt}
    /\ journal' = [journal EXCEPT ![Current].phase = "completed",
                                  ![Current].receipt = handler.receipt]
    /\ handler' \in AfterCommit([handler EXCEPT !.at = "post"])
    /\ UNCHANGED <<effects, relayVars, crashes>>

Bug_PostUnchecked ==
    /\ handler.at = "post"
    /\ \/ Answered(Current, handler.receipt, TRUE)
       \/ Unanswered(Current, handler.receipt)
    /\ handler' = [handler EXCEPT !.at = "acknowledge"]
    /\ UNCHANGED <<journal, effects, crashes>>

\* Only the ids in Checked look at the answer before they acknowledge.
Post ==
    /\ handler.at = "post"
    /\ \/ /\ Answered(Current, handler.receipt, TRUE)
          /\ handler' = [handler EXCEPT !.at = "acknowledge"]
       \/ /\ Answered(Current, handler.receipt, FALSE)
          /\ handler' = IF Current \in Checked
                          THEN Idle
                          ELSE [handler EXCEPT !.at = "acknowledge"]
       \/ /\ Unanswered(Current, handler.receipt)
          /\ handler' = Idle
    /\ UNCHANGED <<journal, effects, crashes>>

Acknowledge ==
    /\ handler.at = "acknowledge"
    /\ journal[Current].phase = "completed"
    /\ journal' = [journal EXCEPT ![Current].acknowledged = TRUE]
    /\ handler' = Idle
    /\ UNCHANGED <<effects, relayVars, crashes>>

\* A journal call fails (the database is locked, or refuses the call): the
\* exception leaves handle, and in recover it leaves handle as well.
JournalFails ==
    /\ handler.at \in JournalPC
    /\ handler' = Idle
    /\ UNCHANGED <<journal, effects, relayVars, crashes>>

\* The bridge is killed and started again; the journal and the native
\* system keep their state.
Crash ==
    /\ crashes < MaxCrashes
    /\ crashes' = crashes + 1
    /\ handler' = Idle
    /\ UNCHANGED <<journal, effects, relayVars>>

--------------------------------------------------------------------------------
Recover ==
    \/ ReadPending
    \/ \E i \in Id : VisitItem(i) \/ FinishItem(i) \/ PostItem(i) \/ AcknowledgeItem(i)
    \/ PostItemFails
    \/ EndRecovery

Handle ==
    \/ Reserve \/ PostSaved \/ Claim \/ Start
    \/ Change \/ Apply \/ Finish \/ Post \/ Acknowledge

Next ==
    \/ \E c \in Command : Receive(c)
    \/ Recover
    \/ Handle
    \/ JournalFails
    \/ Crash

Spec == Init /\ [][Next]_vars

\* Relay keeps delivering envelopes; a journal call or a post that is tried
\* again and again succeeds in the end; the handler never stands still.
Fairness ==
    /\ WF_vars(Recover \/ Handle)
    /\ \A c \in Command : /\ SF_vars(Receive(c))
                         /\ SF_vars(handler.cmd = c /\ ReadPending)
    /\ SF_vars(\E i \in Id : FinishItem(i)) /\ SF_vars(\E i \in Id : PostItem(i))
    /\ SF_vars(\E i \in Id : AcknowledgeItem(i))

FairSpec == Spec /\ Fairness

--------------------------------------------------------------------------------
(***************************************************************************)
(* Properties.                                                             *)
(***************************************************************************)

\* Type invariant of the journal table, the handler and Relay's side; a row
\* has a receipt exactly when it is completed.
TypeOK ==
    /\ journal \in [Id -> Row]
    /\ \A i \in Id : /\ journal[i].receipt # None <=> journal[i].phase = "completed"
                     /\ journal[i].acknowledged => journal[i].phase = "completed"
                     /\ journal[i].cmd = NoCommand <=> journal[i].phase = None
    /\ handler \in Handler
    /\ effects \in [Id -> Nat]
    /\ received \in [Id -> SUBSET Receipt]
    /\ recorded \subseteq Id
    /\ crashes \in Nat

\* Whatever is redelivered, crashes or fails, the native change of an
\* operation id is made at most once, also when two commands share the id
\* ("A started operation without a receipt is never executed again").
MadeAtMostOnce == \A i \in Id : effects[i] <= 1

\* A receipt that Relay has received is true for good: an operation reported
\* as not started was not and will not be executed, and one reported as done
\* was executed.
ReceiptIsTrue ==
    \A i \in Id : /\ "noStart" \in received[i] => effects[i] = 0
                  /\ "done" \in received[i] => effects[i] > 0

\* Every receipt Relay ever gets for an id is the one in the journal: no
\* crash, retry or recovery makes the bridge tell Relay two different stories.
RelayHearsOneStory == \A i \in Id : received[i] \subseteq {journal[i].receipt}

\* An acknowledged row is not posted by recovery any more; Relay has then
\* received its receipt, and has recorded it when the handler checks that.
AcknowledgedWasRecorded ==
    \A i \in Id :
        journal[i].acknowledged =>
            /\ received[i] # {}
            /\ i \in Checked => i \in recorded

\* Relay hears one story of an id, whatever is retried or recovered, and it is true.
RelayHearsTheTruth == RelayHearsOneStory /\ ReceiptIsTrue

\* The rows are well typed, and the acknowledged ones need no further post.
Consistent == TypeOK /\ AcknowledgedWasRecorded

\* The fence keeps the promise of module OperationPromise.
Promise == INSTANCE OperationPromise
             WITH made <- {i \in Id : effects[i] > 0},
                  verdict <- [i \in Id |-> journal[i].receipt]

KeepsPromise == Promise!Spec

\* No receipt is forgotten: a row that is prepared or completed is in the
\* end acknowledged, unless its operation is started and then never
\* concluded.  It relies on envelopes of other operations arriving, because
\* recovery runs only when one does.
ReceiptIsDelivered ==
    \A i \in Id : IsPending(i) ~> (journal[i].acknowledged
                                   \/ journal[i].phase = "started")
================================================================================
