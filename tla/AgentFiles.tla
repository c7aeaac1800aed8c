------------------------------- MODULE AgentFiles ------------------------------
(***************************************************************************)
(* Native file operations on an agent's profile (agent_file_store.py, the  *)
(* same file in both bridges; handle_agent_file and the native replies of  *)
(* the Hermes bridge; agent-files.ts of the OpenClaw one).                 *)
(*                                                                         *)
(* A command is handled one at a time: what earlier commands left is       *)
(* reported and settled, the command is reserved, claimed, carried out and *)
(* reported.  The receipts are rows of a database that survives crashes;   *)
(* carrying out is a store process of several steps, which a crash, or the *)
(* timer of the OpenClaw bridge, ends anywhere.  The file has other        *)
(* writers.  Listings and reads change nothing and are left out.           *)
(***************************************************************************)
EXTENDS Naturals, FiniteSets

CONSTANTS
    Op,            \* operations
    Content,       \* contents of the file at the one path
    Absent,        \* nothing is there
    Folder,        \* a directory is there
    NoOp,
    Asked,         \* what may be asked for
    MaxDeliveries, \* how often commands are delivered (a bound)
    MaxEdits,      \* edits by others (a bound)
    MaxFaults      \* failed calls, errors, crashes (a bound)

ASSUME AgentFilesAssumption ==
    /\ Absent \notin Content /\ Folder \notin Content \cup {Absent} /\ NoOp \notin Op
    /\ MaxDeliveries \in Nat /\ MaxEdits \in Nat /\ MaxFaults \in Nat

Version == Content \cup {Absent}
Entry == Version \cup {Folder}
Command == [action : {"create", "write"}, base : Version, content : Content]
           \cup [action : {"delete"}, base : Version, content : {Absent}]
           \cup [action : {"mkdir"}, base : Version, content : {Folder}]

ASSUME AskedAssumption == Asked \subseteq Command

VARIABLES
    command,   \* what each operation asks for
    file,      \* what is at the path
    row, settled, \* the receipts: how far, or with what result; and settled
    hd,        \* handle_agent_file / performAgentFile
    st,        \* the store carrying out a command
    replies,   \* _native_replies: results waiting for a connection
    told,      \* what Relay was told of each operation
    shown,     \* what its requester was told
    effects,   \* how often each operation changed the file, for the properties
    deliveries, edits, faults

vars == <<command, file, row, settled, hd, st, replies, told, shown, effects,
          deliveries, edits, faults>>
counts == <<deliveries, edits>>

--------------------------------------------------------------------------------
Result == {"applied", "conflict", "outcome_unknown", "noStart"}

Handler == [at : {"idle", "recover", "report", "settle old", "claim", "execute",
                  "store", "complete", "settle", "reply"},
            op : Op \cup {NoOp}, todo : SUBSET Op, old : Op \cup {NoOp},
            allowed : BOOLEAN, result : Result \cup {"none"}]
Idle == [at |-> "idle", op |-> NoOp, todo |-> {}, old |-> NoOp,
         allowed |-> FALSE, result |-> "none"]

Store == [at : {"idle", "read", "reread", "swap", "save"},
          result : Result \cup {"none"}, moved : BOOLEAN]
NoStore == [at |-> "idle", result |-> "none", moved |-> FALSE]

Init ==
    /\ command \in [Op -> Asked]
    /\ file \in Entry
    /\ row = [o \in Op |-> "none"] /\ settled = {}
    /\ hd = Idle /\ st = NoStore /\ replies = {}
    /\ told = [o \in Op |-> {}] /\ shown = [o \in Op |-> {}]
    /\ effects = [o \in Op |-> 0]
    /\ deliveries = 0 /\ edits = 0 /\ faults = 0

Fault == faults < MaxFaults /\ faults' = faults + 1

\* A result goes out at once or waits for a connection; an error is answered too.
Reply(r) ==
    \/ shown' = [shown EXCEPT ![hd.op] = @ \cup {r}] /\ UNCHANGED replies
    \/ replies' = {x \in replies : x[1] # hd.op} \cup {<<hd.op, r>>} /\ UNCHANGED shown

\* Whatever goes wrong in the handler ends it.
Fails ==
    /\ Fault
    /\ hd' = Idle
    /\ Reply("error")

--------------------------------------------------------------------------------
(* The handler.                                                            *)

Deliver(o) ==
    /\ hd.at = "idle" /\ deliveries < MaxDeliveries
    /\ deliveries' = deliveries + 1
    /\ hd' = [Idle EXCEPT !.at = "recover", !.op = o]
    /\ UNCHANGED <<command, file, row, settled, st, replies, told, shown, effects,
                   edits, faults>>

\* What is unsettled gets its final result.
Bug_Recovered(o) == IF row[o] \in {"started", "reserved"} THEN "noStart" ELSE row[o]

Recovered(o) ==
    CASE row[o] = "started"  -> "outcome_unknown"
      [] row[o] = "reserved" -> "noStart"
      [] OTHER               -> row[o]

Unsettled == {o \in Op : row[o] # "none" /\ o \notin settled}

RecoverRows ==
    /\ hd.at = "recover"
    /\ row' = [o \in Op |-> IF o \in Unsettled THEN Recovered(o) ELSE row[o]]
    /\ hd' = [hd EXCEPT !.at = "report", !.todo = Unsettled]
    /\ UNCHANGED <<command, file, settled, st, replies, told, shown, effects, counts,
                   faults>>

\* A receipt is posted; the request fails, or only its answer does.
Post(o, r, next) ==
    \/ told' = [told EXCEPT ![o] = @ \cup {r}] /\ hd' = next
       /\ UNCHANGED <<replies, shown, faults>>
    \/ told' \in {told, [told EXCEPT ![o] = @ \cup {r}]} /\ Fails

ReportOld(o) ==
    /\ hd.at = "report" /\ o \in hd.todo
    /\ Post(o, row[o], [hd EXCEPT !.at = "settle old", !.old = o])
    /\ UNCHANGED <<command, file, row, settled, st, effects, counts>>

SettleOld ==
    /\ hd.at = "settle old"
    /\ settled' = settled \cup {hd.old}
    /\ hd' = [hd EXCEPT !.at = "report", !.old = NoOp, !.todo = @ \ {hd.old}]
    /\ UNCHANGED <<command, file, row, st, replies, told, shown, effects, counts, faults>>

Reserve ==
    /\ hd.at = "report" /\ hd.todo = {}
    /\ row' = [row EXCEPT ![hd.op] = IF @ = "none" THEN "reserved" ELSE @]
    /\ hd' = [hd EXCEPT !.at = "claim"]
    /\ UNCHANGED <<command, file, settled, st, replies, told, shown, effects, counts,
                   faults>>

\* Relay grants no claim to an operation it has an outcome of.
Claim(allowed) ==
    /\ hd.at = "claim"
    /\ allowed => told[hd.op] = {}
    /\ hd' = [hd EXCEPT !.at = "execute", !.allowed = allowed]
    /\ UNCHANGED <<command, file, row, settled, st, replies, told, shown, effects, counts,
                   faults>>

\* The scope, the profile, a lock, the database or the claim is not what it should be.
HandlerFails ==
    /\ hd.at \in {"recover", "report", "settle old", "claim", "execute", "settle"}
    /\ Fails
    /\ UNCHANGED <<command, file, row, settled, st, told, effects, counts>>

Bug_CompleteOp ==
    /\ hd.at = "complete"
    /\ settled' = settled \cup {hd.op}
    /\ Post(hd.op, hd.result, [hd EXCEPT !.at = "settle"])
    /\ UNCHANGED <<command, file, row, st, effects, counts>>

CompleteOp ==
    /\ hd.at = "complete"
    /\ Post(hd.op, hd.result, [hd EXCEPT !.at = "settle"])
    /\ UNCHANGED <<command, file, row, settled, st, effects, counts>>

SettleOp ==
    /\ hd.at = "settle"
    /\ settled' = settled \cup {hd.op}
    /\ hd' = [hd EXCEPT !.at = "reply"]
    /\ UNCHANGED <<command, file, row, st, replies, told, shown, effects, counts, faults>>

ReplyResult ==
    /\ hd.at = "reply"
    /\ Reply(hd.result)
    /\ hd' = Idle
    /\ UNCHANGED <<command, file, row, settled, st, told, effects, counts, faults>>

\* On the next connection, or with the next reply; after thirty seconds it is dropped.
FlushReply(x) ==
    /\ x \in replies
    /\ replies' = replies \ {x}
    /\ shown' \in {shown, [shown EXCEPT ![x[1]] = @ \cup {x[2]}]}
    /\ UNCHANGED <<command, file, row, settled, hd, st, told, effects, counts, faults>>

--------------------------------------------------------------------------------
(* The store: execute, under the lock of the receipts.                     *)

\* A result that is there is repeated, and one that was interrupted is unknown.
\* The intent is durable before the file is touched.
Execute(inTime) ==
    /\ hd.at = "execute"
    /\ LET answer == IF row[hd.op] \in Result THEN row[hd.op]
                     ELSE IF row[hd.op] = "started" THEN "outcome_unknown"
                     ELSE IF ~hd.allowed \/ ~inTime THEN "noStart" ELSE "none"
       IN IF answer # "none"
          THEN hd' = [hd EXCEPT !.at = "complete", !.result = answer]
               /\ UNCHANGED <<row, st>>
          ELSE /\ hd' = [hd EXCEPT !.at = "store"]
               /\ row' = [row EXCEPT ![hd.op] = "started"]
               /\ st' = [NoStore EXCEPT !.at = "read"]
    /\ UNCHANGED <<command, file, settled, replies, told, shown, effects, counts, faults>>

Ends(result) == st' = [st EXCEPT !.at = "save", !.result = result]
storeOnly == <<command, row, settled, hd, replies, told, shown, counts>>

\* The version is compared with the one the command was made for; a directory has none.
Read ==
    /\ st.at = "read"
    /\ LET c == command[hd.op] IN
       /\ c.action # "mkdir"
       /\ IF file = Folder THEN Ends("outcome_unknown")
          ELSE IF c.base # file \/ (c.action = "create" /\ file # Absent)
               THEN Ends("conflict")
          ELSE IF c.action # "create" /\ file = Absent THEN Ends("outcome_unknown")
          ELSE st' = [st EXCEPT !.at = IF c.action = "delete" THEN "swap" ELSE "reread"]
    /\ UNCHANGED <<storeOnly, file, effects, faults>>

\* The file is changed for the operation.
Changes ==
    /\ file' = command[hd.op].content
    /\ effects' = [effects EXCEPT ![hd.op] = @ + 1]
    /\ Ends("applied")

\* A directory is made where nothing is, without a look before.
MakeFolder ==
    /\ st.at = "read" /\ command[hd.op].action = "mkdir"
    /\ IF command[hd.op].base = Absent /\ file = Absent
       THEN Changes
       ELSE Ends("outcome_unknown") /\ UNCHANGED <<file, effects>>
    /\ UNCHANGED <<storeOnly, faults>>

\* The version is not looked at again.
Bug_Reread ==
    /\ st.at = "reread"
    /\ st' = [st EXCEPT !.at = "swap"]
    /\ UNCHANGED <<storeOnly, file, effects, faults>>

\* The new content is in a temporary file beside it by now.
Reread ==
    /\ st.at = "reread"
    /\ IF file = Folder THEN Ends("outcome_unknown")
       ELSE IF file # command[hd.op].base THEN Ends("conflict")
       ELSE st' = [st EXCEPT !.at = "swap"]
    /\ UNCHANGED <<storeOnly, file, effects, faults>>

\* The rename, or the unlink, which fails when there is nothing any more; neither
\* replaces a directory.
Swap ==
    /\ st.at = "swap"
    /\ IF file = Folder \/ (command[hd.op].action = "delete" /\ file = Absent)
       THEN Ends("outcome_unknown") /\ UNCHANGED <<file, effects>>
       ELSE Changes
    /\ UNCHANGED <<storeOnly, faults>>

\* An error is caught, before the change or after it.
ApplyFails ==
    /\ st.at \in {"read", "reread", "swap"} \/ st.result = "applied"
    /\ Fault
    /\ Ends("outcome_unknown")
    /\ UNCHANGED <<storeOnly, file, effects>>

Save ==
    /\ st.at = "save"
    /\ row' = [row EXCEPT ![hd.op] = st.result]
    /\ hd' = [hd EXCEPT !.at = "complete", !.result = st.result]
    /\ st' = NoStore
    /\ UNCHANGED <<command, file, settled, replies, told, shown, effects, counts, faults>>

--------------------------------------------------------------------------------
\* The OpenClaw bridge kills a store that takes twenty seconds.
KillStore ==
    /\ st.at # "idle"
    /\ Fails
    /\ st' = NoStore
    /\ UNCHANGED <<command, file, row, settled, told, effects, counts>>

Crash ==
    /\ Fault
    /\ hd' = Idle /\ st' = NoStore /\ replies' = {}
    /\ UNCHANGED <<command, file, row, settled, told, shown, effects, counts>>

\* The agent or a user saves, creates or deletes the file, or makes a directory there.
Edit(v) ==
    /\ edits < MaxEdits /\ v # file
    /\ edits' = edits + 1
    /\ file' = v
    /\ st' = [st EXCEPT !.moved = st.at = "swap"]
    /\ UNCHANGED <<command, row, settled, hd, replies, told, shown, effects, deliveries,
                   faults>>

Next ==
    \/ \E o \in Op : Deliver(o) \/ ReportOld(o)
    \/ RecoverRows \/ SettleOld \/ Reserve \/ HandlerFails
    \/ \E b \in BOOLEAN : Claim(b) \/ Execute(b)
    \/ CompleteOp \/ SettleOp \/ ReplyResult
    \/ \E x \in replies : FlushReply(x)
    \/ Read \/ MakeFolder \/ Reread \/ Swap \/ ApplyFails \/ Save
    \/ KillStore \/ Crash
    \/ \E v \in Entry : Edit(v)

Spec == Init /\ [][Next]_vars

--------------------------------------------------------------------------------
(* Properties.                                                             *)

\* The state keeps its types, and an operation that is being carried out is started.
TypeOK ==
    /\ command \in [Op -> Command] /\ file \in Entry
    /\ row \in [Op -> Result \cup {"none", "reserved", "started"}]
    /\ settled \subseteq Op
    /\ hd \in Handler /\ st \in Store
    /\ hd.at # "idle" => hd.op \in Op
    /\ effects \in [Op -> Nat]
    /\ replies \subseteq Op \X (Result \cup {"error"})
    /\ told \in [Op -> SUBSET Result]
    /\ shown \in [Op -> SUBSET (Result \cup {"error"})]
    /\ st.at # "idle" => hd.at = "store" /\ row[hd.op] = "started"

\* What Relay or the requester is told is one story and true for good, however often
\* the command is delivered and wherever a store or a bridge is killed: Relay hears
\* one outcome; applied means that the file was changed once for the operation; not
\* started and conflict mean that it was not and never is.
ReportIsTrue ==
    \A o \in Op :
        /\ Cardinality(told[o]) <= 1
        /\ \A r \in told[o] \cup shown[o] :
              /\ r = "applied" => effects[o] = 1
              /\ r \in {"conflict", "noStart"} => effects[o] = 0

\* The state is well typed, and a receipt is settled, and so never reported again,
\* only after Relay was told.
Consistent == TypeOK /\ \A o \in settled : told[o] # {}

\* An operation replaces or deletes the very version it was made for; an edit by
\* another is lost only if it falls between the last look at the file and the rename.
UnseenEditIsKept ==
    [][\A o \in Op : effects'[o] # effects[o] =>
         file = command[o].base \/ st.moved]_vars

================================================================================
