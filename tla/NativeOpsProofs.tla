---------------------------- MODULE NativeOpsProofs ----------------------------
(***************************************************************************)
(* Proofs about module NativeOps.  The inductive invariant IInv relates    *)
(* each row of the journal to the native changes made and the receipts     *)
(* sent under its id (RowInv), and says what the handler knows about the   *)
(* row it is at while it holds the operation lock (HandlerInv).            *)
(***************************************************************************)
EXTENDS NativeOps, FiniteSetTheorems, TLAPS

--------------------------------------------------------------------------------
\* What the journal's row says about the changes made and receipts sent.
RowInv ==
    \A i \in Id :
        /\ effects[i] \in {0, 1}
        /\ journal[i].phase \in {None, "prepared"} => effects[i] = 0
        /\ journal[i].receipt = "noStart" => effects[i] = 0
        /\ journal[i].receipt = "done" => effects[i] = 1
        /\ received[i] \subseteq {journal[i].receipt}
        /\ journal[i].acknowledged =>
              received[i] # {} /\ (i \in Checked => i \in recorded)

\* What the handler knows during recovery.
RecoverInv ==
    /\ handler.at \notin {"item", "itemFinish", "itemPost", "itemAcknowledge"} =>
          handler.todo = {}
    /\ \A i \in handler.todo : journal[i].phase \in {"prepared", "completed"}
    /\ handler.at \in {"itemFinish", "itemPost", "itemAcknowledge"} => handler.item \in Id
    /\ handler.at = "itemFinish" => journal[handler.item].phase = "prepared"
    /\ handler.at \in {"itemPost", "itemAcknowledge"} =>
          /\ handler.receipt # None
          /\ journal[handler.item].receipt = handler.receipt
    /\ handler.at = "itemAcknowledge" =>
          received[handler.item] # {} /\ handler.item \in recorded

\* What the handler knows about the row of the command it handles.
CurrentInv ==
    /\ handler.at # "idle" => handler.cmd \in Command
    /\ handler.at # "idle" /\ handler.made => handler.at \in {"apply", "finish", "post", "acknowledge"}
    /\ handler.at \in {"claim", "start"} => journal[Current].phase = "prepared"
    /\ handler.at = "apply" =>
          /\ journal[Current].phase = "started"
          /\ effects[Current] = IF handler.made THEN 1 ELSE 0
    /\ handler.at = "finish" =>
          /\ journal[Current].phase \in {"prepared", "started"}
          /\ handler.receipt # None
          /\ handler.receipt = "noStart" => effects[Current] = 0
          /\ handler.receipt = "done" => effects[Current] = 1
    /\ handler.at \in {"savedPost", "post", "acknowledge"} =>
          /\ handler.receipt # None
          /\ journal[Current].receipt = handler.receipt
    /\ handler.at = "acknowledge" =>
          received[Current] # {} /\ (Current \in Checked => Current \in recorded)

IInv == TypeOK /\ RowInv /\ RecoverInv /\ CurrentInv

--------------------------------------------------------------------------------
\* The invariant holds initially: the table is empty and nothing was posted.
LEMMA InitInv == Init => IInv
<1> USE OpAssumption
<1> SUFFICES ASSUME Init PROVE IInv
  OBVIOUS
<1>1. TypeOK
  BY DEF Init, TypeOK, Row, NoRow, Handler, Idle, Phase, Receipt, None
<1>2. RowInv
  BY DEF Init, RowInv, NoRow, None
<1>3. RecoverInv /\ CurrentInv
  BY DEF Init, RecoverInv, CurrentInv, Idle
<1> QED
  BY <1>1, <1>2, <1>3 DEF IInv

\* The rows counted for a new row id are finitely many.
LEMMA RowCount ==
    ASSUME NEW P, P \subseteq Id
    PROVE  Cardinality(P) \in Nat
  BY OpAssumption, FS_Subset, FS_CardinalityType

\* After a journal call the handler goes on, or has given up its operation.
LEMMA CommitType ==
    ASSUME NEW s \in Handler, NEW t \in AfterCommit(s)
    PROVE  t \in Handler /\ (t = s \/ t = Idle)
<1>1. Idle \in Handler
  BY DEF Idle, Handler
<1> QED
  BY <1>1 DEF AfterCommit

\* The handler gives up its operation and the journal stays as it is.
LEMMA GiveUpStep ==
    ASSUME IInv, handler' = Idle, UNCHANGED <<journal, effects, relayVars>>,
           crashes' \in Nat
    PROVE  IInv'
<1> USE OpAssumption
<1>1. TypeOK'
  BY DEF IInv, TypeOK, Idle, Handler, Row, Phase, Receipt, None, relayVars
<1>2. RowInv'
  BY DEF IInv, RowInv, relayVars
<1>3. RecoverInv' /\ CurrentInv'
  BY DEF RecoverInv, CurrentInv, Idle
<1> QED
  BY <1>1, <1>2, <1>3 DEF IInv

\* An envelope is taken up.
LEMMA ReceiveStep ==
    ASSUME IInv, NEW c \in Command, Receive(c)
    PROVE  IInv'
<1> USE OpAssumption DEF Receive, relayVars
<1>1. TypeOK'
  BY DEF IInv, TypeOK, Idle, Handler, Row, Phase, Receipt, None, JournalPC
<1>2. RowInv'
  BY DEF IInv, RowInv
<1>3. RecoverInv' /\ CurrentInv'
  BY DEF RecoverInv, CurrentInv, Idle
<1> QED
  BY <1>1, <1>2, <1>3 DEF IInv

\* Recovery reads the journal: every row it will visit is prepared or
\* completed, and none is the row of the operation being handled.
LEMMA ReadPendingStep == ASSUME IInv, ReadPending PROVE IInv'
<1> USE OpAssumption DEF ReadPending, relayVars
<1>1. TypeOK'
  BY DEF IInv, TypeOK, Handler, Row, PendingRows, JournalPC
<1>2. RowInv'
  BY DEF IInv, RowInv
<1>3. RecoverInv'
  BY DEF RecoverInv, PendingRows, IsPending, TypeOK, IInv, Handler
<1>4. CurrentInv'
  BY DEF IInv, TypeOK, Handler, CurrentInv, Current
<1> QED
  BY <1>1, <1>2, <1>3, <1>4 DEF IInv

\* Recovery takes up a row: one without a receipt is still prepared.
LEMMA VisitItemStep == ASSUME IInv, NEW i \in Id, VisitItem(i) PROVE IInv'
<1> USE OpAssumption DEF VisitItem, relayVars
<1>1. TypeOK'
  BY DEF IInv, TypeOK, Handler, Row, Receipt, None, JournalPC, PostPC
<1>2. RowInv'
  BY DEF IInv, RowInv
<1>3. RecoverInv'
  BY DEF RecoverInv, TypeOK, IInv, Handler, Row
<1>4. CurrentInv'
  BY DEF IInv, TypeOK, Handler, CurrentInv, Current
<1> QED
  BY <1>1, <1>2, <1>3, <1>4 DEF IInv

\* Recovery finishes a row that never started.
LEMMA FinishItemStep == ASSUME IInv, NEW i \in Id, FinishItem(i) PROVE IInv'
<1> USE OpAssumption DEF FinishItem, relayVars
<1>1. CASE handler' = Idle
  <2>1. TypeOK'
    BY <1>1 DEF IInv, TypeOK, RecoverInv, Idle, Handler, Row, Phase, Receipt, None
  <2>2. RowInv'
    BY DEF IInv, RowInv, RecoverInv, TypeOK, Row, None, Phase, Receipt
  <2>3. RecoverInv' /\ CurrentInv'
    BY <1>1 DEF RecoverInv, CurrentInv, Idle
  <2> QED
    BY <2>1, <2>2, <2>3 DEF IInv
<1>2. CASE handler' = [handler EXCEPT !.at = "itemPost", !.receipt = "noStart"]
  <2>1. TypeOK'
    BY <1>2 DEF IInv, TypeOK, RecoverInv, Handler, Row, Phase, Receipt, None, PostPC
  <2>2. RowInv'
    BY DEF IInv, RowInv, RecoverInv, TypeOK, Row, None, Phase, Receipt
  <2>3. RecoverInv'
    BY <1>2 DEF RecoverInv, IInv, TypeOK, Handler, Row, None
  <2>4. CurrentInv'
    BY <1>2 DEF CurrentInv, Current, IInv, TypeOK, Handler
  <2> QED
    BY <2>1, <2>2, <2>3, <2>4 DEF IInv
<1> QED
  BY <1>1, <1>2 DEF AfterCommit

\* Recovery posts a receipt and Relay records it.
LEMMA PostItemStep == ASSUME IInv, NEW i \in Id, PostItem(i) PROVE IInv'
<1> USE OpAssumption DEF PostItem, Answered
<1>1. TypeOK'
  BY DEF IInv, TypeOK, RecoverInv, Handler, Row, Receipt, None, JournalPC
<1>2. RowInv'
  BY DEF IInv, RowInv, RecoverInv, TypeOK
<1>3. RecoverInv'
  BY DEF RecoverInv, IInv, TypeOK, Handler
<1>4. CurrentInv'
  BY DEF CurrentInv, Current, IInv, TypeOK, Handler
<1> QED
  BY <1>1, <1>2, <1>3, <1>4 DEF IInv

\* The post of a receipt by recovery raises, or Relay did not record it.
LEMMA PostItemFailsStep == ASSUME IInv, PostItemFails PROVE IInv'
<1> USE OpAssumption
<1>1. handler.item \in Id /\ handler.receipt \in Receipt
      /\ journal[handler.item].receipt = handler.receipt
  BY DEF PostItemFails, IInv, TypeOK, RecoverInv, Handler
<1>2. /\ handler' = [handler EXCEPT !.at = "item", !.item = NoId, !.receipt = None]
      /\ UNCHANGED <<journal, effects, crashes>>
      /\ handler.at = "itemPost"
  BY DEF PostItemFails, NextItem
<1>3. /\ UNCHANGED received
         \/ received' = [received EXCEPT ![handler.item] = @ \cup {handler.receipt}]
      /\ recorded' = recorded \/ recorded' = recorded \cup {handler.item}
  BY DEF PostItemFails, Answered, Unanswered, relayVars
<1>4. TypeOK'
  <2>1. handler' \in Handler
    BY <1>2 DEF IInv, TypeOK, Handler
  <2>2. received' \in [Id -> SUBSET Receipt] /\ recorded' \subseteq Id
    BY <1>1, <1>3 DEF IInv, TypeOK
  <2> QED
    BY <1>2, <2>1, <2>2 DEF IInv, TypeOK
<1>5. RowInv'
  BY <1>1, <1>2, <1>3 DEF IInv, RowInv, TypeOK
<1>6. RecoverInv'
  BY <1>2 DEF RecoverInv, IInv, TypeOK, Handler
<1>7. CurrentInv'
  BY <1>2 DEF CurrentInv, Current, IInv, TypeOK, Handler
<1> QED
  BY <1>4, <1>5, <1>6, <1>7 DEF IInv

\* Recovery acknowledges a row whose receipt Relay recorded.
LEMMA AcknowledgeItemStep == ASSUME IInv, NEW i \in Id, AcknowledgeItem(i) PROVE IInv'
<1> USE OpAssumption DEF AcknowledgeItem, relayVars
<1>0. i \in Id /\ journal[i].receipt # None
  BY DEF IInv, RecoverInv
<1>1. TypeOK'
  <2>1. NextItem(handler) \in Handler
    BY DEF IInv, TypeOK, NextItem, Handler
  <2>2. handler' \in Handler
    BY <2>1, CommitType
  <2>3. journal' \in [Id -> Row]
    BY DEF IInv, TypeOK, Row
  <2>4. \A j \in Id : /\ journal'[j].receipt = journal[j].receipt
                      /\ journal'[j].phase = journal[j].phase
                      /\ journal'[j].cmd = journal[j].cmd
                      /\ j # i => journal'[j] = journal[j]
    BY DEF IInv, TypeOK, Row
  <2> QED
    BY <1>0, <2>2, <2>3, <2>4 DEF IInv, TypeOK
<1>2. RowInv'
  BY DEF IInv, RowInv, RecoverInv, TypeOK, Row
<1>3. CASE handler' = Idle
  <2>1. RecoverInv' /\ CurrentInv'
    BY <1>3 DEF RecoverInv, CurrentInv, Idle
  <2> QED
    BY <1>1, <1>2, <2>1 DEF IInv
<1>4. CASE handler' = NextItem(handler)
  <2>1. RecoverInv'
    BY <1>4 DEF RecoverInv, IInv, TypeOK, Handler, Row, NextItem
  <2>2. CurrentInv'
    BY <1>4 DEF CurrentInv, Current, IInv, TypeOK, Handler, NextItem
  <2> QED
    BY <1>1, <1>2, <2>1, <2>2 DEF IInv
<1> QED
  BY <1>3, <1>4 DEF AfterCommit

\* Recovery is over; the handler turns to its own operation.
LEMMA EndRecoveryStep == ASSUME IInv, EndRecovery PROVE IInv'
<1> USE OpAssumption DEF EndRecovery, relayVars
<1>1. TypeOK'
  BY DEF IInv, TypeOK, Handler, Row, JournalPC
<1>2. RowInv'
  BY DEF IInv, RowInv
<1>3. RecoverInv' /\ CurrentInv'
  BY DEF RecoverInv, CurrentInv, Current, IInv, TypeOK, Handler
<1> QED
  BY <1>1, <1>2, <1>3 DEF IInv

--------------------------------------------------------------------------------
\* The id of the command in hand.
LEMMA CurrentType ==
    ASSUME IInv, handler.at # "idle"
    PROVE  Current \in Id /\ handler.cmd \in Command
  BY OpAssumption DEF IInv, CurrentInv, Current

\* The id gets a row.
LEMMA InsertStep ==
    ASSUME IInv, handler.at = "reserve", Insert,
           UNCHANGED <<effects, relayVars, crashes>>
    PROVE  IInv'
<1> USE OpAssumption DEF relayVars
<1>0. Current \in Id /\ handler.cmd \in Command
  BY CurrentType
<1>1. journal[Current].phase = None
      /\ handler' \in AfterCommit([handler EXCEPT !.at = "claim"])
  BY DEF Insert
<1>2. PICK n \in Nat :
        journal' = [journal EXCEPT
                      ![Current] = [NoRow EXCEPT !.cmd = handler.cmd,
                                                 !.phase = "prepared", !.rowid = n]]
  <2> DEFINE rows == {j \in Id : journal[j].phase # None}
             n == Cardinality(rows) + 1
  <2>1. Cardinality(rows) \in Nat
    BY RowCount
  <2>2. n \in Nat
    <3> HIDE DEF rows
    <3> QED
      BY <2>1
  <2>3. journal' = [journal EXCEPT
                      ![Current] = [NoRow EXCEPT !.cmd = handler.cmd,
                                                 !.phase = "prepared", !.rowid = n]]
    BY DEF Insert
  <2> HIDE DEF n
  <2> QED
    BY <2>2, <2>3
<1>a. PICK r \in Row : /\ r.receipt = None /\ ~r.acknowledged
                       /\ r.phase = "prepared" /\ r.cmd = handler.cmd
                       /\ journal' = [journal EXCEPT ![Current] = r]
  <2>1. PICK r : r = [NoRow EXCEPT !.cmd = handler.cmd, !.phase = "prepared",
                                   !.rowid = n]
    OBVIOUS
  <2>2. NoRow \in Row /\ NoRow.receipt = None /\ ~NoRow.acknowledged
    BY DEF NoRow, Row, Phase
  <2>3. r \in Row /\ r.receipt = None /\ ~r.acknowledged
        /\ r.phase = "prepared" /\ r.cmd = handler.cmd
    BY <1>0, <2>1, <2>2 DEF Row, Phase
  <2> QED
    BY <1>2, <2>1, <2>3
<1>b. /\ journal'[Current] = r
      /\ \A j \in Id : j # Current => journal'[j] = journal[j]
      /\ journal' \in [Id -> Row]
  BY <1>0, <1>a DEF IInv, TypeOK
<1>3. TypeOK'
  <2>1. [handler EXCEPT !.at = "claim"] \in Handler
    BY DEF IInv, TypeOK, Handler, PostPC
  <2>2. handler' \in Handler
    BY <1>1, <2>1, CommitType
  <2>3. handler.cmd # NoCommand
    BY <1>0
  <2> QED
    BY <1>0, <1>a, <1>b, <2>2, <2>3 DEF IInv, TypeOK, None
<1>4. RowInv'
  <2>1. received[Current] = {} /\ effects[Current] = 0
    BY <1>0, <1>1 DEF IInv, RowInv, TypeOK, Row, None, Receipt
  <2> QED
    BY <1>0, <1>a, <1>b, <2>1 DEF IInv, RowInv, None
<1>5. CASE handler' = Idle
  <2>1. RecoverInv' /\ CurrentInv'
    BY <1>5 DEF RecoverInv, CurrentInv, Idle
  <2> QED
    BY <1>3, <1>4, <2>1 DEF IInv
<1>6. CASE handler' = [handler EXCEPT !.at = "claim"]
  <2>1. RecoverInv'
    BY <1>0, <1>b, <1>6 DEF RecoverInv, IInv, TypeOK, Handler, None
  <2>2. CurrentInv'
    BY <1>0, <1>a, <1>b, <1>6 DEF CurrentInv, Current, IInv, TypeOK, Handler
  <2> QED
    BY <1>3, <1>4, <2>1, <2>2 DEF IInv
<1> QED
  BY <1>1, <1>5, <1>6 DEF AfterCommit

\* The id has a row already.
LEMMA ReuseStep ==
    ASSUME IInv, handler.at = "reserve", Reuse,
           UNCHANGED <<effects, relayVars, crashes>>
    PROVE  IInv'
<1> USE OpAssumption DEF relayVars
<1>0. Current \in Id /\ handler.cmd \in Command
  BY CurrentType
<1>1. journal' = journal
  BY DEF Reuse
<1>2. CASE handler' = Idle
  BY <1>1, <1>2, GiveUpStep DEF IInv, TypeOK
<1>3. CASE /\ journal[Current].receipt # None
           /\ handler' = [handler EXCEPT !.at = "savedPost",
                                         !.receipt = journal[Current].receipt]
  <2>1. TypeOK'
    BY <1>0, <1>1, <1>3 DEF IInv, TypeOK, Handler, Row, PostPC
  <2>2. RowInv'
    BY <1>1 DEF IInv, RowInv
  <2>3. RecoverInv' /\ CurrentInv'
    BY <1>0, <1>1, <1>3 DEF RecoverInv, CurrentInv, Current, IInv, TypeOK, Handler
  <2> QED
    BY <2>1, <2>2, <2>3 DEF IInv
<1>4. CASE /\ journal[Current].phase = "prepared"
           /\ handler' = [handler EXCEPT !.at = "claim"]
  <2>1. TypeOK'
    BY <1>0, <1>1, <1>4 DEF IInv, TypeOK, Handler, Row, PostPC
  <2>2. RowInv'
    BY <1>1 DEF IInv, RowInv
  <2>3. RecoverInv' /\ CurrentInv'
    BY <1>0, <1>1, <1>4 DEF RecoverInv, CurrentInv, Current, IInv, TypeOK, Handler
  <2> QED
    BY <2>1, <2>2, <2>3 DEF IInv
<1> QED
  BY <1>2, <1>3, <1>4 DEF Reuse

\* A saved receipt is posted once more.
LEMMA PostSavedStep == ASSUME IInv, PostSaved PROVE IInv'
<1> USE OpAssumption DEF PostSaved, Answered, Unanswered, relayVars
<1>0. Current \in Id
  BY CurrentType
<1>1. TypeOK'
  BY <1>0 DEF IInv, TypeOK, CurrentInv, Idle, Handler, Row, Receipt, None
<1>2. RowInv'
  BY <1>0 DEF IInv, RowInv, CurrentInv, TypeOK
<1>3. RecoverInv' /\ CurrentInv'
  BY DEF RecoverInv, CurrentInv, Idle
<1> QED
  BY <1>1, <1>2, <1>3 DEF IInv

\* The command is claimed: the row is still prepared.
LEMMA ClaimStep == ASSUME IInv, Claim PROVE IInv'
<1> USE OpAssumption DEF relayVars
<1>0. Current \in Id /\ handler.cmd \in Command
  BY CurrentType DEF Claim
<1>1. UNCHANGED <<journal, effects, relayVars, crashes>> /\ handler.at = "claim"
  BY DEF Claim
<1>2. CASE handler' = Idle
  BY <1>1, <1>2, GiveUpStep DEF IInv, TypeOK
<1>3. CASE handler' = [handler EXCEPT !.at = "start"]
  <2>1. TypeOK'
    BY <1>1, <1>3 DEF IInv, TypeOK, Handler, JournalPC
  <2>2. RowInv'
    BY <1>1 DEF IInv, RowInv
  <2>3. RecoverInv'
    BY <1>1, <1>3 DEF RecoverInv, IInv, TypeOK, Handler
  <2>4. CurrentInv'
    BY <1>0, <1>1, <1>3 DEF CurrentInv, Current, IInv, TypeOK, Handler
  <2> QED
    BY <2>1, <2>2, <2>3, <2>4 DEF IInv
<1>4. CASE handler' = [handler EXCEPT !.at = "finish", !.receipt = "noStart"]
  <2>1. TypeOK'
    BY <1>1, <1>4 DEF IInv, TypeOK, Handler, JournalPC, Receipt
  <2>2. RowInv'
    BY <1>1 DEF IInv, RowInv
  <2>3. RecoverInv'
    BY <1>1, <1>4 DEF RecoverInv, IInv, TypeOK, Handler
  <2>4. effects[Current] = 0 /\ journal[Current].phase = "prepared"
    BY <1>0, <1>1 DEF IInv, RowInv, CurrentInv
  <2>5. CurrentInv'
    BY <1>0, <1>1, <1>4, <2>4 DEF CurrentInv, Current, IInv, TypeOK, Handler, None
  <2> QED
    BY <2>1, <2>2, <2>3, <2>5 DEF IInv
<1> QED
  BY <1>2, <1>3, <1>4 DEF Claim

\* The operation is fenced: no change has been made under its id.
LEMMA StartStep == ASSUME IInv, Start PROVE IInv'
<1> USE OpAssumption DEF Start, relayVars
<1>0. Current \in Id /\ handler.cmd \in Command
  BY CurrentType
<1>1. TypeOK'
  <2>1. [handler EXCEPT !.at = "apply"] \in Handler
    BY DEF IInv, TypeOK, Handler
  <2>2. handler' \in Handler
    BY <2>1, CommitType
  <2>3. journal' \in [Id -> Row]
    BY DEF IInv, TypeOK, Row, Phase
  <2>4. /\ \A j \in Id : /\ journal'[j].receipt = journal[j].receipt
                         /\ journal'[j].cmd = journal[j].cmd
                         /\ journal'[j].acknowledged = journal[j].acknowledged
                         /\ j # Current => journal'[j] = journal[j]
        /\ journal'[Current].phase = "started"
    BY <1>0 DEF IInv, TypeOK, Row
  <2> QED
    BY <1>0, <2>2, <2>3, <2>4 DEF IInv, TypeOK, None
<1>2. RowInv'
  BY <1>0 DEF IInv, RowInv, TypeOK, Row, None
<1>3. CASE handler' = Idle
  <2>1. RecoverInv' /\ CurrentInv'
    BY <1>3 DEF RecoverInv, CurrentInv, Idle
  <2> QED
    BY <1>1, <1>2, <2>1 DEF IInv
<1>4. CASE handler' = [handler EXCEPT !.at = "apply"]
  <2>1. ~handler.made /\ effects[Current] = 0
    BY <1>0 DEF IInv, CurrentInv, RowInv
  <2>2. handler'.todo = handler.todo /\ handler'.at = "apply" /\ handler'.cmd = handler.cmd
        /\ ~handler'.made
    BY <1>4, <2>1 DEF IInv, TypeOK, Handler
  <2>3. RecoverInv'
    BY <1>0, <2>2 DEF RecoverInv, IInv, TypeOK, Handler, Row
  <2>4. CurrentInv'
    BY <1>0, <2>1, <2>2 DEF CurrentInv, Current, IInv, TypeOK, Handler, Row
  <2> QED
    BY <1>1, <1>2, <2>3, <2>4 DEF IInv
<1> QED
  BY <1>3, <1>4 DEF AfterCommit

\* The native change takes effect under a started row.
LEMMA ChangeStep == ASSUME IInv, Change PROVE IInv'
<1> USE OpAssumption DEF Change, relayVars
<1>0. Current \in Id /\ handler.cmd \in Command
  BY CurrentType
<1>1. effects[Current] = 0 /\ journal[Current].phase = "started"
      /\ journal[Current].receipt = None
  BY <1>0 DEF IInv, CurrentInv, TypeOK
<1>2. TypeOK'
  <2>1. handler' \in Handler
    BY DEF IInv, TypeOK, Handler
  <2>2. effects[Current] + 1 \in Nat
    BY <1>1
  <2>3. effects' \in [Id -> Nat]
    BY <2>2 DEF IInv, TypeOK
  <2> QED
    BY <2>1, <2>3 DEF IInv, TypeOK
<1>3. RowInv'
  BY <1>0, <1>1 DEF IInv, RowInv, TypeOK, None
<1>4. RecoverInv'
  BY DEF RecoverInv, IInv, TypeOK, Handler
<1>5. CurrentInv'
  BY <1>0, <1>1 DEF CurrentInv, Current, IInv, TypeOK, Handler
<1> QED
  BY <1>2, <1>3, <1>4, <1>5 DEF IInv

\* apply returns, or raises; the receipt tells what is known.
LEMMA ApplyStep == ASSUME IInv, Apply PROVE IInv'
<1> USE OpAssumption DEF relayVars
<1>0. Current \in Id /\ handler.cmd \in Command
  BY CurrentType DEF Apply
<1>1. UNCHANGED <<journal, effects, relayVars, crashes>> /\ handler.at = "apply"
  BY DEF Apply
<1>2. RowInv'
  BY <1>1 DEF IInv, RowInv
<1>3. CASE handler.made /\ handler' = [handler EXCEPT !.at = "finish", !.receipt = "done"]
  <2>1. TypeOK'
    BY <1>1, <1>3 DEF IInv, TypeOK, Handler, JournalPC, Receipt
  <2>2. RecoverInv'
    BY <1>1, <1>3 DEF RecoverInv, IInv, TypeOK, Handler
  <2>3. CurrentInv'
    BY <1>0, <1>1, <1>3 DEF CurrentInv, Current, IInv, TypeOK, Handler, None
  <2> QED
    BY <1>2, <2>1, <2>2, <2>3 DEF IInv
<1>4. CASE handler' = [handler EXCEPT !.at = "finish", !.receipt = "unknown"]
  <2>1. TypeOK'
    BY <1>1, <1>4 DEF IInv, TypeOK, Handler, JournalPC, Receipt
  <2>2. RecoverInv'
    BY <1>1, <1>4 DEF RecoverInv, IInv, TypeOK, Handler
  <2>3. CurrentInv'
    BY <1>0, <1>1, <1>4 DEF CurrentInv, Current, IInv, TypeOK, Handler, None
  <2> QED
    BY <1>2, <2>1, <2>2, <2>3 DEF IInv
<1> QED
  BY <1>3, <1>4 DEF Apply

\* The receipt is saved with the row.
LEMMA FinishStep == ASSUME IInv, Finish PROVE IInv'
<1> USE OpAssumption DEF relayVars
<1>0. Current \in Id /\ handler.cmd \in Command
  BY CurrentType DEF Finish
<1>1. /\ journal' = [journal EXCEPT ![Current].phase = "completed",
                                    ![Current].receipt = handler.receipt]
      /\ handler' \in AfterCommit([handler EXCEPT !.at = "post"])
      /\ UNCHANGED <<effects, received, recorded, crashes>>
      /\ handler.at = "finish"
  BY DEF Finish
<1>2. /\ handler.receipt \in Receipt
      /\ journal[Current].receipt = None
      /\ journal[Current].phase \in {"prepared", "started"}
      /\ handler.receipt = "noStart" => effects[Current] = 0
      /\ handler.receipt = "done" => effects[Current] = 1
      /\ handler.todo = {}
  BY <1>0, <1>1 DEF IInv, CurrentInv, RecoverInv, TypeOK, Handler
<1>3. /\ journal' \in [Id -> Row]
      /\ journal'[Current].phase = "completed"
      /\ journal'[Current].receipt = handler.receipt
      /\ journal'[Current].acknowledged = journal[Current].acknowledged
      /\ journal'[Current].cmd = journal[Current].cmd
      /\ \A j \in Id : j # Current => journal'[j] = journal[j]
  <2>1. PICK r : r = [journal[Current] EXCEPT !.phase = "completed",
                                              !.receipt = handler.receipt]
    OBVIOUS
  <2>2. journal[Current] \in Row
    BY <1>0 DEF IInv, TypeOK
  <2>3. /\ r \in Row
        /\ r.phase = "completed" /\ r.receipt = handler.receipt
        /\ r.acknowledged = journal[Current].acknowledged
        /\ r.cmd = journal[Current].cmd
    BY <1>2, <2>1, <2>2 DEF Row, Phase
  <2>4. journal' = [journal EXCEPT ![Current] = r]
    BY <1>0, <1>1, <2>1 DEF IInv, TypeOK
  <2> QED
    BY <1>0, <2>3, <2>4 DEF IInv, TypeOK
<1>4. TypeOK'
  <2>1. [handler EXCEPT !.at = "post"] \in Handler
    BY DEF IInv, TypeOK, Handler, PostPC
  <2>2. handler' \in Handler
    BY <1>1, <2>1, CommitType
  <2> QED
    BY <1>0, <1>1, <1>2, <1>3, <2>2 DEF IInv, TypeOK, None, Receipt
<1>5. RowInv'
  <2>1. received[Current] = {} /\ ~journal[Current].acknowledged
    BY <1>0, <1>2 DEF IInv, RowInv, TypeOK, None, Receipt
  <2> QED
    BY <1>0, <1>1, <1>2, <1>3, <2>1 DEF IInv, RowInv, None
<1>6. CASE handler' = Idle
  <2>1. RecoverInv' /\ CurrentInv'
    BY <1>6 DEF RecoverInv, CurrentInv, Idle
  <2> QED
    BY <1>4, <1>5, <2>1 DEF IInv
<1>7. CASE handler' = [handler EXCEPT !.at = "post"]
  <2>1. /\ handler'.at = "post" /\ handler'.cmd = handler.cmd /\ handler'.todo = {}
        /\ handler'.receipt = handler.receipt /\ handler'.made = handler.made
    BY <1>2, <1>7 DEF IInv, TypeOK, Handler
  <2>2. RecoverInv'
    BY <2>1 DEF RecoverInv
  <2>3. CurrentInv'
    BY <1>0, <1>2, <1>3, <2>1 DEF CurrentInv, Current, None, Receipt
  <2> QED
    BY <1>4, <1>5, <2>2, <2>3 DEF IInv
<1> QED
  BY <1>1, <1>6, <1>7 DEF AfterCommit

\* The receipt is posted.
LEMMA PostStep == ASSUME IInv, Post PROVE IInv'
<1> USE OpAssumption
<1>0. Current \in Id /\ handler.cmd \in Command
  BY CurrentType DEF Post
<1>1. /\ UNCHANGED <<journal, effects, crashes>>
      /\ handler.at = "post"
      /\ journal[Current].receipt = handler.receipt
      /\ handler.receipt \in Receipt
      /\ handler.todo = {}
  BY <1>0 DEF Post, IInv, CurrentInv, RecoverInv, TypeOK, Handler
<1>2. \/ /\ received' = [received EXCEPT ![Current] = @ \cup {handler.receipt}]
         /\ recorded' = recorded \cup {Current}
         /\ handler' = Idle \/ handler' = [handler EXCEPT !.at = "acknowledge"]
      \/ /\ received' = [received EXCEPT ![Current] = @ \cup {handler.receipt}]
         /\ recorded' = recorded
         /\ handler' = Idle \/ (handler' = [handler EXCEPT !.at = "acknowledge"]
                                /\ Current \notin Checked)
      \/ /\ UNCHANGED <<received, recorded>>
         /\ handler' = Idle
  BY DEF Post, Answered, Unanswered, relayVars
<1>3. TypeOK'
  <2>1. Idle \in Handler
    BY CommitType DEF AfterCommit, Idle, Handler
  <2>2. [handler EXCEPT !.at = "acknowledge"] \in Handler
    BY DEF IInv, TypeOK, Handler, JournalPC
  <2>3. handler' \in Handler
    BY <1>2, <2>1, <2>2
  <2>4. received' \in [Id -> SUBSET Receipt] /\ recorded' \subseteq Id
    BY <1>0, <1>1, <1>2 DEF IInv, TypeOK
  <2> QED
    BY <1>1, <2>3, <2>4 DEF IInv, TypeOK
<1>4. RowInv'
  BY <1>0, <1>1, <1>2 DEF IInv, RowInv, TypeOK
<1>5. CASE handler' = Idle
  <2>1. RecoverInv' /\ CurrentInv'
    BY <1>5 DEF RecoverInv, CurrentInv, Idle
  <2> QED
    BY <1>3, <1>4, <2>1 DEF IInv
<1>6. CASE handler' = [handler EXCEPT !.at = "acknowledge"]
  <2>1. /\ handler'.at = "acknowledge" /\ handler'.cmd = handler.cmd
        /\ handler'.todo = {} /\ handler'.receipt = handler.receipt
    BY <1>1, <1>6 DEF IInv, TypeOK, Handler
  <2>2. handler' # Idle
    BY <2>1 DEF Idle
  <2>3. received'[Current] # {} /\ (Current \in Checked => Current \in recorded')
    <3>1. /\ received' = [received EXCEPT ![Current] = @ \cup {handler.receipt}]
          /\ recorded' = recorded \cup {Current} \/ Current \notin Checked
      BY <1>2, <2>2
    <3> QED
      BY <1>0, <3>1 DEF IInv, TypeOK
  <2>4. RecoverInv'
    BY <2>1 DEF RecoverInv
  <2>5. CurrentInv'
    BY <1>0, <1>1, <2>1, <2>3 DEF CurrentInv, Current, None, Receipt
  <2> QED
    BY <1>3, <1>4, <2>4, <2>5 DEF IInv
<1> QED
  BY <1>2, <1>5, <1>6

\* The row of the operation is acknowledged.
LEMMA AcknowledgeStep == ASSUME IInv, Acknowledge PROVE IInv'
<1> USE OpAssumption DEF Acknowledge, relayVars
<1>0. Current \in Id /\ handler.cmd \in Command
  BY CurrentType
<1>1. TypeOK'
  <2>1. handler' \in Handler
    BY DEF Idle, Handler
  <2>2. journal' \in [Id -> Row]
    BY DEF IInv, TypeOK, Row
  <2>3. \A j \in Id : /\ journal'[j].receipt = journal[j].receipt
                      /\ journal'[j].phase = journal[j].phase
                      /\ journal'[j].cmd = journal[j].cmd
                      /\ j # Current => journal'[j] = journal[j]
    BY <1>0 DEF IInv, TypeOK, Row
  <2> QED
    BY <1>0, <2>1, <2>2, <2>3 DEF IInv, TypeOK
<1>2. RowInv'
  BY <1>0 DEF IInv, RowInv, CurrentInv, TypeOK, Row
<1>3. RecoverInv' /\ CurrentInv'
  BY DEF RecoverInv, CurrentInv, Idle
<1> QED
  BY <1>1, <1>2, <1>3 DEF IInv

--------------------------------------------------------------------------------
\* IInv is an invariant of the fence.
THEOREM Invariance == Spec => []IInv
<1>1. Init => IInv
  BY InitInv
<1>2. IInv /\ [Next]_vars => IInv'
  <2> SUFFICES ASSUME IInv, [Next]_vars PROVE IInv'
    OBVIOUS
  <2>1. CASE Recover
    BY <2>1, ReadPendingStep, VisitItemStep, FinishItemStep, PostItemStep,
       AcknowledgeItemStep, PostItemFailsStep, EndRecoveryStep DEF Recover
  <2>2. CASE Handle
    <3>1. CASE Reserve
      BY <3>1, InsertStep, ReuseStep DEF Reserve
    <3> QED
      BY <2>2, <3>1, PostSavedStep, ClaimStep, StartStep, ChangeStep, ApplyStep,
         FinishStep, PostStep, AcknowledgeStep DEF Handle
  <2>3. CASE JournalFails
    BY <2>3, GiveUpStep DEF JournalFails, IInv, TypeOK
  <2>4. CASE Crash
    <3>1. crashes' \in Nat
      BY <2>4 DEF Crash, IInv, TypeOK
    <3> QED
      BY <2>4, <3>1, GiveUpStep DEF Crash
  <2>5. CASE UNCHANGED vars
    BY <2>5 DEF vars, relayVars, IInv, TypeOK, RowInv, RecoverInv, CurrentInv, Current
  <2> QED
    BY <2>1, <2>2, <2>3, <2>4, <2>5, ReceiveStep DEF Next
<1> QED
  BY <1>1, <1>2, PTL DEF Spec

\* Every reachable state is well typed and every row coherent.
THEOREM TypeCorrect == Spec => []TypeOK
<1>1. IInv => TypeOK
  BY DEF IInv
<1> QED
  BY <1>1, Invariance, PTL

\* The native change of an operation id is made at most once, for any number
\* of commands, redeliveries, crashes and failed calls.
THEOREM AtMostOnce == Spec => []MadeAtMostOnce
<1>1. IInv => MadeAtMostOnce
  BY DEF IInv, RowInv, MadeAtMostOnce
<1> QED
  BY <1>1, Invariance, PTL

\* Relay never receives a second, different receipt for an operation id.
THEOREM OneStory == Spec => []RelayHearsOneStory
<1>1. IInv => RelayHearsOneStory
  BY DEF IInv, RowInv, RelayHearsOneStory
<1> QED
  BY <1>1, Invariance, PTL

\* What a receipt says of the native change is true for good.
THEOREM Truth == Spec => []ReceiptIsTrue
<1>1. IInv => ReceiptIsTrue
  BY DEF IInv, RowInv, ReceiptIsTrue
<1> QED
  BY <1>1, Invariance, PTL

\* Relay hears one story of each operation id, and it is true.
THEOREM OneTrueStory == Spec => []RelayHearsTheTruth
<1>1. RelayHearsOneStory /\ ReceiptIsTrue => RelayHearsTheTruth
  BY DEF RelayHearsTheTruth
<1> QED
  BY <1>1, OneStory, Truth, PTL

\* A row is acknowledged only after Relay received its receipt.
THEOREM Acknowledged == Spec => []AcknowledgedWasRecorded
<1>1. IInv => AcknowledgedWasRecorded
  BY DEF IInv, RowInv, AcknowledgedWasRecorded
<1> QED
  BY <1>1, Invariance, PTL

\* Rows are well typed, and acknowledged ones need no further post.
THEOREM Consistency == Spec => []Consistent
<1>1. TypeOK /\ AcknowledgedWasRecorded => Consistent
  BY DEF Consistent
<1> QED
  BY <1>1, TypeCorrect, Acknowledged, PTL

--------------------------------------------------------------------------------
\* The abstract state: the ids changed, and the verdict on each.
Made == {i \in Id : effects[i] > 0}
Verdicts == [i \in Id |-> journal[i].receipt]

\* A step that keeps the receipts and the changes is no step of the promise.
LEMMA StutterStep ==
    ASSUME UNCHANGED effects,
           \A i \in Id : journal'[i].receipt = journal[i].receipt
    PROVE  Made' = Made /\ Verdicts' = Verdicts
  BY DEF Made, Verdicts

\* A step that gives one row its receipt concludes that operation.
LEMMA ConcludeStep ==
    ASSUME IInv, NEW i \in Id, NEW r \in Receipt, UNCHANGED effects,
           journal[i].receipt = None,
           journal' = [journal EXCEPT ![i].phase = "completed", ![i].receipt = r],
           r = "noStart" => effects[i] = 0,
           r = "done" => effects[i] = 1
    PROVE  Promise!Conclude(i, r)
<1>1. PICK q : q = [journal[i] EXCEPT !.phase = "completed", !.receipt = r]
  OBVIOUS
<1>2. journal[i] \in Row
  BY DEF IInv, TypeOK
<1>3. q.receipt = r
  BY <1>1, <1>2 DEF Row
<1>4. journal' = [journal EXCEPT ![i] = q]
  BY <1>1 DEF IInv, TypeOK
<1>5. Verdicts' = [Verdicts EXCEPT ![i] = r]
  BY <1>3, <1>4 DEF Verdicts, IInv, TypeOK
<1>6. Made' = Made
  BY DEF Made
<1>7. Verdicts[i] = "none"
  BY DEF Verdicts, None
<1>8. /\ r = "noStart" => i \notin Made
      /\ r = "done" => i \in Made
  BY DEF Made
<1> QED
  BY <1>5, <1>6, <1>7, <1>8 DEF Promise!Conclude, Made, Verdicts

\* The native change makes the operation, on which there is no verdict yet.
LEMMA MakeStep ==
    ASSUME IInv, Change, NEW i \in Id, i = Current
    PROVE  Promise!Make(i)
<1>1. effects[i] = 0 /\ journal[i].receipt = None
  BY DEF Change, IInv, CurrentInv, TypeOK
<1>2. effects' = [effects EXCEPT ![i] = 1]
  BY <1>1 DEF Change
<1>3. i \notin Made /\ Made' = Made \cup {i}
  BY <1>1, <1>2 DEF Made, IInv, TypeOK
<1>4. Verdicts[i] = "none" /\ Verdicts' = Verdicts
  BY <1>1 DEF Change, Verdicts, None
<1> QED
  BY <1>3, <1>4 DEF Promise!Make, Made, Verdicts

\* Every step of the fence is a step of the promise, or none.
LEMMA PromiseStep ==
    ASSUME IInv, [Next]_vars
    PROVE  Promise!Next \/ (Made' = Made /\ Verdicts' = Verdicts)
<1> USE OpAssumption
<1>1. CASE UNCHANGED <<journal, effects>>
  BY <1>1, StutterStep
<1>2. CASE Change
  <2>1. PICK i \in Id : i = Current
    BY <1>2, CurrentType DEF Change
  <2>2. Promise!Make(i)
    BY <1>2, <2>1, MakeStep
  <2> QED
    BY <2>2 DEF Promise!Next
<1>3. ASSUME NEW i \in Id, FinishItem(i) PROVE Promise!Next
  <2>1. journal[i].receipt = None /\ effects[i] = 0 /\ "noStart" \in Receipt
    BY <1>3 DEF FinishItem, IInv, RecoverInv, RowInv, TypeOK, Receipt
  <2>2. Promise!Conclude(i, "noStart")
    BY <1>3, <2>1, ConcludeStep DEF FinishItem
  <2> QED
    BY <2>2 DEF Promise!Next, Promise!Verdict
<1>4. CASE Finish
  <2>1. PICK i \in Id : i = Current
    BY <1>4, CurrentType DEF Finish
  <2>2. PICK r \in Receipt : r = handler.receipt
    BY <1>4, <2>1 DEF Finish, IInv, CurrentInv, TypeOK, Handler
  <2>3. /\ journal[i].receipt = None
        /\ r = "noStart" => effects[i] = 0
        /\ r = "done" => effects[i] = 1
    BY <1>4, <2>1, <2>2 DEF Finish, IInv, CurrentInv, TypeOK
  <2>4. journal' = [journal EXCEPT ![i].phase = "completed", ![i].receipt = r]
        /\ UNCHANGED effects
    BY <1>4, <2>1, <2>2 DEF Finish
  <2>5. Promise!Conclude(i, r)
    BY <2>3, <2>4, ConcludeStep
  <2>6. r \in Promise!Verdict \ {"none"}
    BY DEF Promise!Verdict, Receipt
  <2> QED
    BY <2>5, <2>6 DEF Promise!Next
<1>5. ASSUME NEW i \in Id, AcknowledgeItem(i) PROVE Made' = Made /\ Verdicts' = Verdicts
  BY <1>5, StutterStep DEF AcknowledgeItem, IInv, TypeOK, Row
<1>6. CASE Acknowledge
  BY <1>6, StutterStep DEF Acknowledge, IInv, TypeOK, Row
<1>7. CASE Start
  BY <1>7, StutterStep DEF Start, IInv, TypeOK, Row
<1>8. CASE Reserve
  <2>1. CASE Insert
    <3>1. Current \in Id /\ journal[Current].receipt = None
      BY <1>8, <2>1, CurrentType DEF Reserve, Insert, IInv, TypeOK, None
    <3>2. PICK r : r.receipt = None /\ journal' = [journal EXCEPT ![Current] = r]
      BY <2>1 DEF Insert, NoRow
    <3>3. \A i \in Id : journal'[i].receipt = journal[i].receipt
      BY <3>1, <3>2 DEF IInv, TypeOK
    <3> QED
      BY <1>8, <3>3, StutterStep DEF Reserve
  <2>2. CASE Reuse
    BY <1>1, <1>8, <2>2 DEF Reserve, Reuse
  <2> QED
    BY <1>8, <2>1, <2>2 DEF Reserve
<1>9. CASE Recover
  <2>1. CASE ReadPending \/ PostItemFails \/ EndRecovery
    BY <1>1, <2>1 DEF ReadPending, PostItemFails, EndRecovery
  <2>2. ASSUME NEW i \in Id, VisitItem(i) \/ PostItem(i)
        PROVE  UNCHANGED <<journal, effects>>
    BY <2>2 DEF VisitItem, PostItem
  <2> QED
    BY <1>1, <1>3, <1>5, <1>9, <2>1, <2>2 DEF Recover
<1>10. CASE PostSaved \/ Claim \/ Apply \/ Post
  BY <1>1, <1>10 DEF PostSaved, Claim, Apply, Post
<1>11. ASSUME (\E c \in Command : Receive(c)) \/ JournalFails \/ Crash \/ UNCHANGED vars
       PROVE  UNCHANGED <<journal, effects>>
  BY <1>11 DEF Receive, JournalFails, Crash, vars
<1> QED
  BY <1>1, <1>2, <1>4, <1>6, <1>7, <1>8, <1>9, <1>10, <1>11 DEF Next, Handle

\* The fence implements the promise: for any number of ids, commands,
\* crashes, redeliveries and failed calls.
THEOREM Implements == Spec => KeepsPromise
<1>1. Init => Promise!Init
  BY DEF Init, Promise!Init, NoRow, None
<1>2. IInv /\ [Next]_vars => [Promise!Next]_<<Made, Verdicts>>
  BY PromiseStep
<1>3. IInv /\ [Next]_vars =>
        [Promise!Next]_<<{i \in Id : effects[i] > 0}, [i \in Id |-> journal[i].receipt]>>
  BY <1>2 DEF Made, Verdicts
<1> QED
  BY <1>1, <1>3, Invariance, PTL DEF Spec, KeepsPromise, Promise!Spec

================================================================================
