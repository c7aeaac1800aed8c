---------------------------- MODULE AgentFilesProofs ---------------------------
(***************************************************************************)
(* Proofs about file operations, for every set of operations and contents  *)
(* and any number of deliveries, edits, killed stores and crashes.         *)
(***************************************************************************)
EXTENDS AgentFiles, FiniteSetTheorems, TLAPS

(***************************************************************************)
(* The inductive invariant.  RowInv is what a receipt says of the file and *)
(* of Relay: nothing is told before there is a result, except that a       *)
(* reserved operation may be told as not started, and then Relay grants it *)
(* no claim any more.  ToldFirst: the requester hears nothing Relay has    *)
(* not.  Interrupted: a started row is the one in hand, or recovery is     *)
(* still to come.  HandlerInv and StoreInv follow the operation in hand.   *)
(***************************************************************************)
RowInv ==
    \A o \in Op :
        /\ row[o] \in {"none", "started"} => told[o] = {}
        /\ row[o] = "reserved" => told[o] \subseteq {"noStart"}
        /\ row[o] \in Result => told[o] \subseteq {row[o]}
        /\ row[o] \in {"none", "reserved", "conflict", "noStart"} => effects[o] = 0
        /\ row[o] = "applied" => effects[o] = 1
        /\ o \in settled => told[o] # {}

ToldFirst ==
    /\ \A o \in Op : \A r \in shown[o] : r = "error" \/ r \in told[o]
    /\ \A x \in replies : x[2] = "error" \/ x[2] \in told[x[1]]

Interrupted ==
    \A o \in Op : row[o] = "started" =>
        hd.at \in {"idle", "recover"} \/ (hd.at = "store" /\ o = hd.op)

\* The result the handler has is that of the row, or a claim was not granted.
Answers(o, r) == r \in Result /\ (row[o] = r \/ (row[o] = "reserved" /\ r = "noStart"))

HandlerInv ==
    /\ hd.at \in {"report", "settle old"} => \A o \in hd.todo : row[o] \in Result
    /\ hd.at = "settle old" => hd.old \in Op /\ told[hd.old] # {}
    /\ hd.at \in {"claim", "execute"} => row[hd.op] # "none"
    /\ hd.at = "execute" /\ hd.allowed => told[hd.op] = {}
    /\ hd.at \in {"complete", "settle", "reply"} => Answers(hd.op, hd.result)
    /\ hd.at \in {"settle", "reply"} => hd.result \in told[hd.op]

StoreInv ==
    /\ hd.at = "store" <=> st.at # "idle"
    /\ hd.at = "store" => row[hd.op] = "started"
    /\ st.at \in {"read", "reread", "swap"} => effects[hd.op] = 0
    /\ st.at = "save" =>
          /\ st.result \in {"conflict", "outcome_unknown", "applied"}
          /\ st.result = "conflict" => effects[hd.op] = 0
          /\ st.result = "applied" => effects[hd.op] = 1
    /\ st.at # "save" => st.result = "none"
    /\ st.at = "swap" => file = command[hd.op].base \/ st.moved

IInv == TypeOK /\ RowInv /\ ToldFirst /\ Interrupted /\ HandlerInv /\ StoreInv

\* The parts of it that depend on the handler.
HandInv == Interrupted /\ HandlerInv /\ StoreInv

--------------------------------------------------------------------------------
\* Nothing has happened initially.
LEMMA InitInv == Init => IInv
<1> SUFFICES ASSUME Init PROVE IInv
  OBVIOUS
<1>1. TypeOK
  BY AskedAssumption DEF Init, TypeOK, Idle, Handler, NoStore, Store
<1> QED
  BY <1>1 DEF Init, IInv, RowInv, ToldFirst, Interrupted, HandlerInv, StoreInv, Idle,
              NoStore

\* The handler and the store at rest are well typed.
LEMMA RestType ==
    /\ Idle \in Handler /\ Idle.at = "idle"
    /\ NoStore \in Store /\ NoStore.at = "idle" /\ NoStore.result = "none"
BY DEF Idle, Handler, NoStore, Store

\* A handler at rest leaves nothing to show but the rows.
LEMMA RestInv ==
    ASSUME hd' = Idle, st' = NoStore
    PROVE  HandInv'
BY RestType DEF HandInv, Interrupted, HandlerInv, StoreInv

\* A reply is an error or something Relay was told.
LEMMA ReplyStep ==
    ASSUME IInv, hd.op \in Op, NEW r \in Result \cup {"error"}, Reply(r),
           NEW now \in [Op -> SUBSET Result],
           \A o \in Op : told[o] \subseteq now[o],
           r = "error" \/ r \in now[hd.op]
    PROVE  /\ shown' \in [Op -> SUBSET (Result \cup {"error"})]
           /\ replies' \subseteq Op \X (Result \cup {"error"})
           /\ \A o \in Op : \A s \in shown'[o] : s = "error" \/ s \in now[o]
           /\ \A x \in replies' : x[2] = "error" \/ x[2] \in now[x[1]]
<1>0. \A x \in replies : x[1] \in Op /\ (x[2] = "error" \/ x[2] \in now[x[1]])
  BY DEF IInv, TypeOK, ToldFirst
<1>1. CASE shown' = [shown EXCEPT ![hd.op] = @ \cup {r}] /\ UNCHANGED replies
  BY <1>0, <1>1 DEF IInv, TypeOK, ToldFirst
<1>2. CASE replies' = {x \in replies : x[1] # hd.op} \cup {<<hd.op, r>>} /\ UNCHANGED shown
  <2>1. replies' \subseteq Op \X (Result \cup {"error"})
    BY <1>2 DEF IInv, TypeOK
  <2>2. \A x \in replies' : x[2] = "error" \/ x[2] \in now[x[1]]
    BY <1>0, <1>2
  <2> QED BY <1>2, <2>1, <2>2 DEF IInv, TypeOK, ToldFirst
<1> QED BY <1>1, <1>2 DEF Reply

\* A handler that fails leaves the rows alone and tells an error.
LEMMA FailsStep ==
    ASSUME IInv, Fails, hd.at # "idle", NEW now \in [Op -> SUBSET Result],
           \A o \in Op : told[o] \subseteq now[o]
    PROVE  /\ hd' = Idle
           /\ shown' \in [Op -> SUBSET (Result \cup {"error"})]
           /\ replies' \subseteq Op \X (Result \cup {"error"})
           /\ \A o \in Op : \A s \in shown'[o] : s = "error" \/ s \in now[o]
           /\ \A x \in replies' : x[2] = "error" \/ x[2] \in now[x[1]]
<1>1. hd.op \in Op /\ Reply("error") /\ hd' = Idle
  BY DEF Fails, IInv, TypeOK
<1> QED BY <1>1, ReplyStep

\* What a post tells Relay is one true result, and the rest stays.
LEMMA PostStep ==
    ASSUME IInv, hd.at \notin {"idle", "store"}, NEW o \in Op, NEW r, NEW next,
           Answers(o, r), Post(o, r, next),
           UNCHANGED <<command, file, row, settled, st, effects>>
    PROVE  /\ told' \in [Op -> SUBSET Result]
           /\ \A p \in Op : told[p] \subseteq told'[p]
           /\ RowInv' /\ ToldFirst'
           /\ shown' \in [Op -> SUBSET (Result \cup {"error"})]
           /\ replies' \subseteq Op \X (Result \cup {"error"})
           /\ hd' = Idle \/ (hd' = next /\ r \in told'[o])
<1> DEFINE more == [told EXCEPT ![o] = @ \cup {r}]
<1>1. /\ more \in [Op -> SUBSET Result]
      /\ \A p \in Op : told[p] \subseteq more[p]
      /\ \A p \in Op \ {o} : more[p] = told[p]
      /\ more[o] = told[o] \cup {r}
  BY DEF IInv, TypeOK, Answers
<1>2. told' \in {told, more}
  BY DEF Post
<1>3. told' \in [Op -> SUBSET Result] /\ \A p \in Op : told[p] \subseteq told'[p]
  BY <1>1, <1>2 DEF IInv, TypeOK
<1>4. \A p \in Op : told'[p] = told[p] \/ (p = o /\ told'[p] = told[o] \cup {r})
  BY <1>1, <1>2
<1>5. RowInv'
  BY <1>4 DEF IInv, RowInv, Answers, Result
<1>6. CASE told' = more /\ hd' = next /\ UNCHANGED <<replies, shown, faults>>
  <2>1. ToldFirst'
    <3>1. \A x \in replies : x[1] \in Op
      BY DEF IInv, TypeOK
    <3> QED BY <1>3, <1>6, <3>1 DEF IInv, ToldFirst
  <2> QED BY <1>1, <1>3, <1>5, <1>6, <2>1 DEF IInv, TypeOK
<1>7. CASE Fails
  <2>1. ToldFirst'
    BY <1>3, <1>7, FailsStep DEF ToldFirst
  <2> QED BY <1>3, <1>5, <1>7, <2>1, FailsStep
<1> QED BY <1>6, <1>7 DEF Post

--------------------------------------------------------------------------------
\* A delivery begins with recovery.
LEMMA DeliverStep == ASSUME IInv, NEW o \in Op, Deliver(o) PROVE IInv'
<1>1. hd.at = "idle" /\ hd' \in Handler /\ hd'.at = "recover" /\ hd'.op = o
  BY RestType DEF Deliver, Idle, Handler
<1>2. TypeOK'
  BY <1>1 DEF IInv, TypeOK, StoreInv, Deliver
<1> QED
  BY <1>1, <1>2 DEF IInv, RowInv, ToldFirst, Interrupted, HandlerInv, StoreInv, Answers,
                    Deliver

\* Recovery gives every unsettled row a result that is consistent with it.
LEMMA RecoverRowsStep == ASSUME IInv, RecoverRows PROVE IInv'
<1>1. /\ hd.at = "recover" /\ st.at = "idle" /\ hd.op \in Op
      /\ hd' = [hd EXCEPT !.at = "report", !.todo = Unsettled]
      /\ row' = [o \in Op |-> IF o \in Unsettled THEN Recovered(o) ELSE row[o]]
  BY DEF RecoverRows, IInv, TypeOK, StoreInv
<1>2. hd' \in Handler /\ hd'.at = "report" /\ hd'.op = hd.op /\ hd'.todo = Unsettled
  BY <1>1 DEF IInv, TypeOK, Handler, Unsettled
<1>3. \A o \in Op :
        /\ row[o] = "started" => o \in Unsettled
        /\ o \in Unsettled => row[o] # "none" /\ row'[o] = Recovered(o)
        /\ o \notin Unsettled => row'[o] = row[o]
  BY <1>1 DEF IInv, RowInv, Unsettled
<1>4. \A o \in Op : row[o] \in Result \cup {"none", "reserved", "started"}
  BY DEF IInv, TypeOK
<1>5. \A o \in Unsettled :
        /\ row[o] = "started" => row'[o] = "outcome_unknown"
        /\ row[o] = "reserved" => row'[o] = "noStart"
        /\ row[o] \in Result => row'[o] = row[o]
        /\ row'[o] \in Result
  BY <1>3, <1>4 DEF Recovered, Result, Unsettled
<1>6. row' \in [Op -> Result \cup {"none", "reserved", "started"}]
  BY <1>1, <1>3, <1>4, <1>5
<1>7. TypeOK'
  BY <1>1, <1>2, <1>6 DEF IInv, TypeOK, RecoverRows
<1>8. RowInv'
  <2>1. UNCHANGED <<told, effects, settled>>
    BY DEF RecoverRows
  <2> QED BY <1>3, <1>4, <1>5, <2>1 DEF IInv, RowInv, Result
<1>9. ToldFirst'
  BY DEF IInv, ToldFirst, RecoverRows
<1>10. HandInv'
  <2>1. \A o \in Op : row'[o] # "started"
    BY <1>3, <1>5 DEF Result
  <2>2. st' = st
    BY DEF RecoverRows
  <2> QED
    BY <1>1, <1>2, <1>5, <2>1, <2>2
    DEF IInv, HandInv, Interrupted, HandlerInv, StoreInv
<1> QED BY <1>7, <1>8, <1>9, <1>10 DEF IInv, HandInv

\* What recovery has found is reported.
LEMMA ReportOldStep == ASSUME IInv, NEW o \in Op, ReportOld(o) PROVE IInv'
<1> DEFINE next == [hd EXCEPT !.at = "settle old", !.old = o]
<1>1. /\ hd.at = "report" /\ o \in hd.todo /\ hd.op \in Op /\ st.at = "idle"
      /\ Answers(o, row[o]) /\ Post(o, row[o], next)
      /\ UNCHANGED <<command, file, row, settled, st, effects>>
  BY DEF ReportOld, IInv, TypeOK, HandlerInv, StoreInv, Answers
<1>2. next \in Handler /\ next.at = "settle old" /\ next.op = hd.op
      /\ next.todo = hd.todo /\ next.old = o
  BY DEF IInv, TypeOK, Handler
<1>3. /\ told' \in [Op -> SUBSET Result]
      /\ \A p \in Op : told[p] \subseteq told'[p]
      /\ RowInv' /\ ToldFirst'
      /\ shown' \in [Op -> SUBSET (Result \cup {"error"})]
      /\ replies' \subseteq Op \X (Result \cup {"error"})
      /\ hd' = Idle \/ (hd' = next /\ row[o] \in told'[o])
  BY <1>1, PostStep
<1>4. TypeOK'
  BY <1>1, <1>2, <1>3, RestType DEF IInv, TypeOK
<1>5. HandInv'
  <2>1. CASE hd' = Idle
    BY <1>1, <2>1, RestType DEF IInv, HandInv, Interrupted, HandlerInv, StoreInv
  <2>2. CASE hd' = next /\ row[o] \in told'[o]
    BY <1>1, <1>2, <2>2
    DEF IInv, HandInv, Interrupted, HandlerInv, StoreInv
  <2> QED BY <1>3, <2>1, <2>2
<1> QED BY <1>3, <1>4, <1>5 DEF IInv, HandInv

\* A reported row is settled.
LEMMA SettleOldStep == ASSUME IInv, SettleOld PROVE IInv'
<1>1. /\ hd.at = "settle old" /\ hd.old \in Op /\ told[hd.old] # {} /\ hd.op \in Op
      /\ hd' = [hd EXCEPT !.at = "report", !.old = NoOp, !.todo = @ \ {hd.old}]
  BY DEF SettleOld, IInv, TypeOK, HandlerInv
<1>2. hd' \in Handler /\ hd'.at = "report" /\ hd'.op = hd.op /\ hd'.todo \subseteq hd.todo
  BY <1>1 DEF IInv, TypeOK, Handler
<1>3. TypeOK'
  BY <1>1, <1>2 DEF IInv, TypeOK, SettleOld
<1> QED
  BY <1>1, <1>2, <1>3
  DEF IInv, RowInv, ToldFirst, Interrupted, HandlerInv, StoreInv, SettleOld

\* A new operation gets its row.
LEMMA ReserveStep == ASSUME IInv, Reserve PROVE IInv'
<1>1. /\ hd.at = "report" /\ hd.op \in Op
      /\ row' = [row EXCEPT ![hd.op] = IF @ = "none" THEN "reserved" ELSE @]
      /\ hd' = [hd EXCEPT !.at = "claim"]
  BY DEF Reserve, IInv, TypeOK
<1>2. hd' \in Handler /\ hd'.at = "claim" /\ hd'.op = hd.op
  BY <1>1 DEF IInv, TypeOK, Handler
<1>3. /\ \A o \in Op : row'[o] = row[o] \/ (row[o] = "none" /\ row'[o] = "reserved")
      /\ row'[hd.op] # "none"
      /\ row' \in [Op -> Result \cup {"none", "reserved", "started"}]
  BY <1>1 DEF IInv, TypeOK
<1>4. TypeOK'
  BY <1>1, <1>2, <1>3 DEF IInv, TypeOK, Reserve, StoreInv
<1>5. RowInv'
  BY <1>3 DEF IInv, RowInv, Reserve, Result
<1> QED
  BY <1>1, <1>2, <1>3, <1>4, <1>5
  DEF IInv, ToldFirst, Interrupted, HandlerInv, StoreInv, Reserve

\* Relay grants a claim only to an operation it knows no outcome of.
LEMMA ClaimStep == ASSUME IInv, NEW b \in BOOLEAN, Claim(b) PROVE IInv'
<1>1. /\ hd.at = "claim" /\ hd.op \in Op /\ (b => told[hd.op] = {})
      /\ hd' = [hd EXCEPT !.at = "execute", !.allowed = b]
  BY DEF Claim, IInv, TypeOK
<1>2. hd' \in Handler /\ hd'.at = "execute" /\ hd'.op = hd.op /\ hd'.allowed = b
  BY <1>1 DEF IInv, TypeOK, Handler
<1>3. TypeOK'
  BY <1>1, <1>2 DEF IInv, TypeOK, Claim, StoreInv
<1> QED
  BY <1>1, <1>2, <1>3
  DEF IInv, RowInv, ToldFirst, Interrupted, HandlerInv, StoreInv, Claim

\* An operation is answered from its row, refused, or started.
LEMMA ExecuteStep == ASSUME IInv, NEW b \in BOOLEAN, Execute(b) PROVE IInv'
<1>1. /\ hd.at = "execute" /\ hd.op \in Op /\ st.at = "idle"
      /\ row[hd.op] \in Result \cup {"reserved"}
  BY DEF Execute, IInv, TypeOK, Interrupted, HandlerInv, StoreInv
<1>2. CASE /\ row[hd.op] = "reserved" /\ hd.allowed /\ b
           /\ hd' = [hd EXCEPT !.at = "store"]
           /\ row' = [row EXCEPT ![hd.op] = "started"]
           /\ st' = [NoStore EXCEPT !.at = "read"]
  <2>1. hd' \in Handler /\ hd'.at = "store" /\ hd'.op = hd.op
    BY <1>2 DEF IInv, TypeOK, Handler
  <2>2. st' \in Store /\ st'.at = "read" /\ st'.result = "none"
    BY <1>2 DEF NoStore, Store
  <2>3. /\ row' \in [Op -> Result \cup {"none", "reserved", "started"}]
        /\ row'[hd.op] = "started" /\ \A o \in Op \ {hd.op} : row'[o] = row[o]
    BY <1>1, <1>2 DEF IInv, TypeOK
  <2>4. told[hd.op] = {} /\ effects[hd.op] = 0
    BY <1>1, <1>2 DEF IInv, RowInv, HandlerInv
  <2>5. TypeOK'
    BY <1>1, <2>1, <2>2, <2>3 DEF IInv, TypeOK, Execute
  <2>6. RowInv'
    BY <1>1, <2>3, <2>4 DEF IInv, RowInv, Execute, Result
  <2>7. HandInv'
    BY <1>1, <2>1, <2>2, <2>3, <2>4
    DEF IInv, HandInv, Interrupted, HandlerInv, StoreInv, Execute
  <2>8. ToldFirst'
    BY DEF IInv, ToldFirst, Execute
  <2> QED BY <2>5, <2>6, <2>7, <2>8 DEF IInv, HandInv
<1>3. CASE \E r \in Result :
             /\ Answers(hd.op, r)
             /\ hd' = [hd EXCEPT !.at = "complete", !.result = r]
             /\ UNCHANGED <<row, st>>
  <2>1. PICK r \in Result :
             /\ Answers(hd.op, r)
             /\ hd' = [hd EXCEPT !.at = "complete", !.result = r]
             /\ UNCHANGED <<row, st>>
    BY <1>3
  <2>2. hd' \in Handler /\ hd'.at = "complete" /\ hd'.op = hd.op /\ hd'.result = r
    BY <2>1 DEF IInv, TypeOK, Handler
  <2>3. TypeOK'
    BY <1>1, <2>1, <2>2 DEF IInv, TypeOK, Execute
  <2>4. RowInv' /\ ToldFirst'
    BY <2>1 DEF IInv, RowInv, ToldFirst, Execute
  <2>5. HandInv'
    BY <1>1, <2>1, <2>2
    DEF IInv, HandInv, Interrupted, HandlerInv, StoreInv, Answers, Execute
  <2> QED BY <2>3, <2>4, <2>5 DEF IInv, HandInv
<1>4. \/ /\ row[hd.op] = "reserved" /\ hd.allowed /\ b
         /\ hd' = [hd EXCEPT !.at = "store"]
         /\ row' = [row EXCEPT ![hd.op] = "started"]
         /\ st' = [NoStore EXCEPT !.at = "read"]
      \/ \E r \in Result :
             /\ Answers(hd.op, r)
             /\ hd' = [hd EXCEPT !.at = "complete", !.result = r]
             /\ UNCHANGED <<row, st>>
  <2>1. CASE row[hd.op] \in Result
    <3>1. /\ hd' = [hd EXCEPT !.at = "complete", !.result = row[hd.op]]
          /\ UNCHANGED <<row, st>>
      <4>1. row[hd.op] # "none"
        BY <2>1 DEF Result
      <4> QED BY <2>1, <4>1 DEF Execute
    <3> QED BY <2>1, <3>1 DEF Answers
  <2>2. CASE row[hd.op] = "reserved" /\ (~hd.allowed \/ ~b)
    BY <2>2 DEF Execute, Answers, Result
  <2>3. CASE row[hd.op] = "reserved" /\ hd.allowed /\ b
    BY <2>3 DEF Execute, Result
  <2> QED BY <1>1, <2>1, <2>2, <2>3
<1> QED BY <1>2, <1>3, <1>4

\* The result is told.
LEMMA CompleteStep == ASSUME IInv, CompleteOp PROVE IInv'
<1> DEFINE next == [hd EXCEPT !.at = "settle"]
<1>1. /\ hd.at = "complete" /\ hd.op \in Op /\ st.at = "idle"
      /\ Answers(hd.op, hd.result) /\ Post(hd.op, hd.result, next)
      /\ UNCHANGED <<command, file, row, settled, st, effects>>
  BY DEF CompleteOp, IInv, TypeOK, HandlerInv, StoreInv
<1>2. next \in Handler /\ next.at = "settle" /\ next.op = hd.op /\ next.result = hd.result
  BY DEF IInv, TypeOK, Handler
<1>3. /\ told' \in [Op -> SUBSET Result]
      /\ \A p \in Op : told[p] \subseteq told'[p]
      /\ RowInv' /\ ToldFirst'
      /\ shown' \in [Op -> SUBSET (Result \cup {"error"})]
      /\ replies' \subseteq Op \X (Result \cup {"error"})
      /\ hd' = Idle \/ (hd' = next /\ hd.result \in told'[hd.op])
  BY <1>1, PostStep
<1>4. TypeOK'
  BY <1>1, <1>2, <1>3, RestType DEF IInv, TypeOK
<1>5. HandInv'
  <2>1. CASE hd' = Idle
    BY <1>1, <2>1, RestType DEF IInv, HandInv, Interrupted, HandlerInv, StoreInv
  <2>2. CASE hd' = next /\ hd.result \in told'[hd.op]
    BY <1>1, <1>2, <2>2
    DEF IInv, HandInv, Interrupted, HandlerInv, StoreInv, Answers
  <2> QED BY <1>3, <2>1, <2>2
<1> QED BY <1>3, <1>4, <1>5 DEF IInv, HandInv

\* The row of a result that was told is settled.
LEMMA SettleStep == ASSUME IInv, SettleOp PROVE IInv'
<1>1. /\ hd.at = "settle" /\ hd.op \in Op /\ told[hd.op] # {}
      /\ hd' = [hd EXCEPT !.at = "reply"]
  BY DEF SettleOp, IInv, TypeOK, HandlerInv
<1>2. hd' \in Handler /\ hd'.at = "reply" /\ hd'.op = hd.op /\ hd'.result = hd.result
  BY <1>1 DEF IInv, TypeOK, Handler
<1>3. TypeOK'
  BY <1>1, <1>2 DEF IInv, TypeOK, SettleOp
<1> QED
  BY <1>1, <1>2, <1>3
  DEF IInv, RowInv, ToldFirst, Interrupted, HandlerInv, StoreInv, Answers, SettleOp

\* The requester hears what Relay was told.
LEMMA ReplyResultStep == ASSUME IInv, ReplyResult PROVE IInv'
<1>1. /\ hd.at = "reply" /\ hd.op \in Op /\ st.at = "idle" /\ hd' = Idle
      /\ hd.result \in Result /\ hd.result \in told[hd.op] /\ Reply(hd.result)
      /\ told \in [Op -> SUBSET Result]
  BY DEF ReplyResult, IInv, TypeOK, HandlerInv, StoreInv, Answers
<1>2. /\ shown' \in [Op -> SUBSET (Result \cup {"error"})]
      /\ replies' \subseteq Op \X (Result \cup {"error"})
      /\ \A o \in Op : \A s \in shown'[o] : s = "error" \/ s \in told[o]
      /\ \A x \in replies' : x[2] = "error" \/ x[2] \in told[x[1]]
  BY <1>1, ReplyStep
<1>3. TypeOK'
  BY <1>1, <1>2, RestType DEF IInv, TypeOK, ReplyResult
<1>4. RowInv' /\ ToldFirst'
  BY <1>2 DEF IInv, RowInv, ToldFirst, ReplyResult
<1> QED
  BY <1>1, <1>3, <1>4, RestType
  DEF IInv, Interrupted, HandlerInv, StoreInv, ReplyResult

\* A failing handler leaves a started row, if any, to recovery.
LEMMA HandlerFailsStep ==
    ASSUME IInv, HandlerFails \/ KillStore
    PROVE  IInv'
<1>1. /\ hd.at # "idle" /\ Fails /\ told \in [Op -> SUBSET Result]
      /\ UNCHANGED <<command, file, row, settled, told, effects>>
      /\ st' = NoStore \/ (st' = st /\ st.at = "idle")
  BY DEF HandlerFails, KillStore, IInv, TypeOK, StoreInv
<1>2. /\ hd' = Idle
      /\ shown' \in [Op -> SUBSET (Result \cup {"error"})]
      /\ replies' \subseteq Op \X (Result \cup {"error"})
      /\ \A o \in Op : \A s \in shown'[o] : s = "error" \/ s \in told[o]
      /\ \A x \in replies' : x[2] = "error" \/ x[2] \in told[x[1]]
  BY <1>1, FailsStep
<1>3. st' \in Store /\ st'.at = "idle" /\ st'.result = "none"
  BY <1>1, RestType DEF IInv, TypeOK, StoreInv
<1>4. TypeOK'
  BY <1>1, <1>2, <1>3, RestType DEF IInv, TypeOK
<1>5. RowInv' /\ ToldFirst'
  BY <1>1, <1>2 DEF IInv, RowInv, ToldFirst
<1> QED
  BY <1>2, <1>3, <1>4, <1>5, RestType DEF IInv, Interrupted, HandlerInv, StoreInv

\* A crash loses the replies and leaves a started row, if any, to recovery.
LEMMA CrashStep == ASSUME IInv, Crash PROVE IInv'
<1>1. TypeOK'
  BY RestType DEF IInv, TypeOK, Crash
<1>2. RowInv' /\ ToldFirst'
  BY DEF IInv, RowInv, ToldFirst, Crash
<1> QED BY <1>1, <1>2, RestInv DEF IInv, HandInv, Crash

\* A waiting reply goes out or is dropped.
LEMMA FlushReplyStep == ASSUME IInv, NEW x \in replies, FlushReply(x) PROVE IInv'
<1>1. /\ x[1] \in Op /\ x[2] \in Result \cup {"error"}
      /\ x[2] = "error" \/ x[2] \in told[x[1]]
  BY DEF IInv, TypeOK, ToldFirst
<1>2. /\ shown' \in [Op -> SUBSET (Result \cup {"error"})]
      /\ \A o \in Op : \A s \in shown'[o] : s = "error" \/ s \in told[o]
  <2>1. shown \in [Op -> SUBSET (Result \cup {"error"})]
        /\ \A o \in Op : \A s \in shown[o] : s = "error" \/ s \in told[o]
    BY DEF IInv, TypeOK, ToldFirst
  <2>2. CASE shown' = shown
    BY <2>1, <2>2
  <2>3. CASE shown' = [shown EXCEPT ![x[1]] = @ \cup {x[2]}]
    BY <1>1, <2>1, <2>3
  <2> QED BY <2>2, <2>3 DEF FlushReply
<1>3. TypeOK'
  BY <1>2 DEF IInv, TypeOK, FlushReply
<1>4. ToldFirst'
  BY <1>2 DEF IInv, ToldFirst, FlushReply
<1> QED
  BY <1>3, <1>4
  DEF IInv, RowInv, Interrupted, HandlerInv, StoreInv, Answers, FlushReply

--------------------------------------------------------------------------------
\* A step of the store that keeps the rows and the handler, and what it needs to
\* keep the invariant.
LEMMA StoreStep ==
    ASSUME IInv, hd.at = "store",
           UNCHANGED <<command, row, settled, hd, replies, told, shown>>,
           file' \in Entry, effects' \in [Op -> Nat],
           \A o \in Op \ {hd.op} : effects'[o] = effects[o],
           st' \in Store, st'.at # "idle", StoreInv'
    PROVE  IInv'
<1>1. hd.op \in Op /\ row[hd.op] = "started"
  BY DEF IInv, TypeOK, StoreInv
<1>2. TypeOK'
  BY <1>1 DEF IInv, TypeOK
<1>3. RowInv'
  BY <1>1 DEF IInv, RowInv, Result
<1> QED
  BY <1>2, <1>3 DEF IInv, ToldFirst, Interrupted, HandlerInv, Answers

\* The version is read and compared.
LEMMA ReadStep == ASSUME IInv, Read \/ Reread PROVE IInv'
<1>1. /\ hd.at = "store" /\ hd.op \in Op /\ st.at \in {"read", "reread"}
      /\ UNCHANGED <<command, row, settled, hd, replies, told, shown, file, effects>>
      /\ effects[hd.op] = 0 /\ st.result = "none" /\ row[hd.op] = "started"
  BY DEF Read, Reread, storeOnly, IInv, TypeOK, StoreInv
<1>2. \/ st' = [st EXCEPT !.at = "save", !.result = "conflict"]
      \/ st' = [st EXCEPT !.at = "save", !.result = "outcome_unknown"]
      \/ st' = [st EXCEPT !.at = "reread"]
      \/ st' = [st EXCEPT !.at = "swap"] /\ file = command[hd.op].base
  <2>1. CASE Reread
    BY <2>1 DEF Reread, Ends
  <2>2. CASE Read
    <3> DEFINE c == command[hd.op]
    <3>1. CASE file = Folder
      BY <2>2, <3>1 DEF Read, Ends
    <3>2. CASE file # Folder /\ (c.base # file \/ (c.action = "create" /\ file # Absent))
      BY <2>2, <3>2 DEF Read, Ends
    <3>3. CASE file # Folder /\ c.base = file /\ ~(c.action = "create" /\ file # Absent)
      <4>1. CASE c.action # "create" /\ file = Absent
        BY <2>2, <3>3, <4>1 DEF Read, Ends
      <4>2. CASE ~(c.action # "create" /\ file = Absent)
        BY <2>2, <3>3, <4>2 DEF Read, Ends
      <4> QED BY <4>1, <4>2
    <3> QED BY <3>1, <3>2, <3>3
  <2> QED BY <2>1, <2>2
<1>3. st' \in Store /\ st'.at # "idle"
  BY <1>2 DEF IInv, TypeOK, Store, Result
<1>4. StoreInv'
  BY <1>1, <1>2 DEF IInv, TypeOK, StoreInv, Store
<1> QED BY <1>1, <1>3, <1>4, StoreStep DEF IInv, TypeOK

\* The file is replaced or deleted, or the directory made.
LEMMA SwapStep == ASSUME IInv, Swap \/ MakeFolder PROVE IInv'
<1>1. /\ hd.at = "store" /\ hd.op \in Op /\ st.at \in {"read", "swap"}
      /\ UNCHANGED <<command, row, settled, hd, replies, told, shown>>
      /\ effects[hd.op] = 0 /\ row[hd.op] = "started"
  BY DEF Swap, MakeFolder, storeOnly, IInv, TypeOK, StoreInv
<1>2. CASE st' = [st EXCEPT !.at = "save", !.result = "outcome_unknown"]
           /\ UNCHANGED <<file, effects>>
  <2>1. st' \in Store /\ st'.at = "save" /\ st'.result = "outcome_unknown"
    BY <1>2 DEF IInv, TypeOK, Store, Result
  <2>2. StoreInv'
    BY <1>1, <2>1 DEF IInv, StoreInv
  <2> QED BY <1>1, <1>2, <2>1, <2>2, StoreStep DEF IInv, TypeOK
<1>3. CASE /\ st' = [st EXCEPT !.at = "save", !.result = "applied"]
           /\ file' = command[hd.op].content
           /\ effects' = [effects EXCEPT ![hd.op] = @ + 1]
  <2>1. st' \in Store /\ st'.at = "save" /\ st'.result = "applied"
    BY <1>3 DEF IInv, TypeOK, Store, Result
  <2>2. file' \in Entry
    BY <1>1, <1>3 DEF IInv, TypeOK, Command, Version, Entry
  <2>3. /\ effects' \in [Op -> Nat] /\ effects'[hd.op] = 1
        /\ \A o \in Op \ {hd.op} : effects'[o] = effects[o]
    BY <1>1, <1>3 DEF IInv, TypeOK
  <2>4. StoreInv'
    BY <1>1, <2>1, <2>3 DEF IInv, StoreInv
  <2> QED BY <1>1, <2>1, <2>2, <2>3, <2>4, StoreStep
<1> QED BY <1>2, <1>3 DEF Swap, MakeFolder, Changes, Ends

\* An error makes the outcome unknown.
LEMMA ApplyFailsStep == ASSUME IInv, ApplyFails PROVE IInv'
<1>1. /\ hd.at = "store" /\ hd.op \in Op /\ row[hd.op] = "started"
      /\ UNCHANGED <<command, row, settled, hd, replies, told, shown, file, effects>>
      /\ st' = [st EXCEPT !.at = "save", !.result = "outcome_unknown"]
  BY DEF ApplyFails, storeOnly, Ends, IInv, TypeOK, StoreInv
<1>2. st' \in Store /\ st'.at = "save" /\ st'.result = "outcome_unknown"
  BY <1>1 DEF IInv, TypeOK, Store, Result
<1>3. StoreInv'
  BY <1>1, <1>2 DEF IInv, StoreInv
<1> QED BY <1>1, <1>2, <1>3, StoreStep DEF IInv, TypeOK

\* Somebody edits the file, perhaps between the last look and the rename.
LEMMA EditStep == ASSUME IInv, NEW v \in Entry, Edit(v) PROVE IInv'
<1>1. /\ UNCHANGED <<command, row, settled, hd, replies, told, shown, effects>>
      /\ file' = v /\ st' = [st EXCEPT !.moved = st.at = "swap"]
  BY DEF Edit
<1>2. /\ st' \in Store /\ st'.at = st.at /\ st'.result = st.result
      /\ st'.moved <=> st.at = "swap"
  BY <1>1 DEF IInv, TypeOK, Store
<1>3. TypeOK'
  BY <1>1, <1>2 DEF IInv, TypeOK
<1>4. StoreInv'
  BY <1>1, <1>2 DEF IInv, StoreInv
<1> QED
  BY <1>1, <1>3, <1>4 DEF IInv, RowInv, ToldFirst, Interrupted, HandlerInv, Answers

\* The result of the store is saved, and the handler has it.
LEMMA SaveStep == ASSUME IInv, Save PROVE IInv'
<1>1. /\ hd.at = "store" /\ hd.op \in Op /\ st.at = "save" /\ row[hd.op] = "started"
      /\ st.result \in {"conflict", "outcome_unknown", "applied"}
      /\ row' = [row EXCEPT ![hd.op] = st.result]
      /\ hd' = [hd EXCEPT !.at = "complete", !.result = st.result]
      /\ st' = NoStore
  BY DEF Save, IInv, TypeOK, StoreInv
<1>2. /\ hd' \in Handler /\ hd'.at = "complete" /\ hd'.op = hd.op
      /\ hd'.result = st.result
  BY <1>1 DEF IInv, TypeOK, Handler, Result
<1>3. /\ row' \in [Op -> Result \cup {"none", "reserved", "started"}]
      /\ row'[hd.op] = st.result /\ st.result \in Result
      /\ \A o \in Op \ {hd.op} : row'[o] = row[o]
  BY <1>1 DEF IInv, TypeOK, Result
<1>4. TypeOK'
  BY <1>1, <1>2, <1>3, RestType DEF IInv, TypeOK, Save
<1>5. RowInv'
  BY <1>1, <1>3 DEF IInv, RowInv, StoreInv, Save, Result
<1>6. ToldFirst'
  BY DEF IInv, ToldFirst, Save
<1>7. HandInv'
  BY <1>1, <1>2, <1>3, RestType
  DEF IInv, HandInv, Interrupted, HandlerInv, StoreInv, Answers, Result
<1> QED BY <1>4, <1>5, <1>6, <1>7 DEF IInv, HandInv

\* Every step keeps the invariant.
LEMMA InductiveStep == IInv /\ [Next]_vars => IInv'
<1> SUFFICES ASSUME IInv, [Next]_vars PROVE IInv'
  OBVIOUS
<1>1. CASE UNCHANGED vars
  BY <1>1 DEF vars, IInv, TypeOK, RowInv, ToldFirst, Interrupted, HandlerInv, StoreInv,
              Answers
<1>2. CASE Next
  BY <1>2, DeliverStep, RecoverRowsStep, ReportOldStep, SettleOldStep, ReserveStep,
     ClaimStep, ExecuteStep, CompleteStep, SettleStep, ReplyResultStep,
     HandlerFailsStep, CrashStep, FlushReplyStep, ReadStep, SwapStep, ApplyFailsStep,
     EditStep, SaveStep DEF Next
<1> QED BY <1>1, <1>2

--------------------------------------------------------------------------------
\* The inductive invariant holds in every reachable state.
THEOREM Invariance == Spec => []IInv
BY InitInv, InductiveStep, PTL DEF Spec

\* A receipt is settled only after Relay was told.
THEOREM Consistency == Spec => []Consistent
<1>1. IInv => Consistent
  BY DEF IInv, TypeOK, RowInv, Consistent
<1> QED BY <1>1, Invariance, PTL

\* Relay hears one outcome of an operation, and what it and the requester hear is
\* true for good, for any number of redeliveries, killed stores and crashes.
THEOREM TrueReports == Spec => []ReportIsTrue
<1>1. ASSUME IInv, NEW o \in Op PROVE Cardinality(told[o]) <= 1
  <2>1. told[o] \subseteq {row[o]} \/ told[o] \subseteq {"noStart"}
    BY <1>1 DEF IInv, TypeOK, RowInv
  <2>2. PICK r \in {row[o], "noStart"} : told[o] \subseteq {r}
    BY <2>1
  <2>3. CASE told[o] = {}
    BY <2>3, FS_EmptySet
  <2>4. CASE told[o] = {r}
    <3>1. Cardinality({r}) = 1
      BY FS_Singleton
    <3> QED BY <2>4, <3>1
  <2> QED BY <2>2, <2>3, <2>4
<1>2. ASSUME IInv, NEW o \in Op, NEW r \in told[o] \cup shown[o]
      PROVE  /\ r = "applied" => effects[o] = 1
             /\ r \in {"conflict", "noStart"} => effects[o] = 0
  <2>1. r = "error" \/ r \in told[o]
    BY <1>2 DEF IInv, ToldFirst
  <2> QED BY <1>2, <2>1 DEF IInv, TypeOK, RowInv, Result
<1>3. IInv => ReportIsTrue
  BY <1>1, <1>2 DEF ReportIsTrue
<1> QED BY <1>3, Invariance, PTL

\* Only the rename, the unlink or the mkdir changes the effects.
LEMMA SwapChanges ==
    ASSUME IInv, [Next]_vars, NEW o \in Op, effects'[o] # effects[o]
    PROVE  file = command[o].base \/ st.moved
<1>1. Swap \/ MakeFolder
  BY DEF Next, vars, Deliver, RecoverRows, ReportOld, SettleOld, Reserve, Claim,
         HandlerFails, CompleteOp, SettleOp, ReplyResult, FlushReply, Execute, Read,
         Reread, ApplyFails, Save, KillStore, Crash, Edit
<1>2. o = hd.op /\ (st.at = "swap" \/ file = command[o].base)
  BY <1>1 DEF Swap, MakeFolder, Changes, IInv, TypeOK
<1> QED BY <1>2 DEF IInv, StoreInv

\* No edit is overwritten that was there when the store looked for the last time.
THEOREM EditsAreKept == Spec => UnseenEditIsKept
<1>1. IInv /\ [Next]_vars
      => [\A o \in Op : effects'[o] # effects[o] =>
             file = command[o].base \/ st.moved]_vars
  BY SwapChanges
<1> QED BY <1>1, Invariance, PTL DEF Spec, UnseenEditIsKept
================================================================================
