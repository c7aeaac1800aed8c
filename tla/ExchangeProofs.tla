---------------------------- MODULE ExchangeProofs -----------------------------
(***************************************************************************)
(* Proofs about what the bridge exchanges with Relay: the outbox of        *)
(* terminal events and the replicas of the agents' documents.              *)
(*                                                                         *)
(* Of the outbox, for every set of events, every limit of attempts and any *)
(* number of crashes; what depends on the disk is proved under the         *)
(* assumption that its writes succeed.  Of the replicas, for every set of  *)
(* agents, every number of edits and failures and every Relay.             *)
(***************************************************************************)
EXTENDS TerminalOutbox, AgentSync, TLAPS

(***************************************************************************)
(* The inductive invariant behind OneExtraAttempt: an event that was not   *)
(* offered has no attempts, and one that the reconnect flush has yet to    *)
(* visit has had no extra attempt since the authentication.                *)
(***************************************************************************)
FreshInv == \A e \in Event \ offered : attempts[e] = 0 /\ extra[e] = 0
ExtraInv == \A e \in todo["reconnect"] : extra[e] = 0

IInv == TypeOK /\ FreshInv /\ ExtraInv /\ OneExtraAttempt

--------------------------------------------------------------------------------
\* What is written to the disk is a function on the events of the outbox, and
\* only a failed write leaves another one there.
LEMMA PersistDisk ==
    ASSUME NEW box, NEW tries, Persist(box, tries)
    PROVE  \/ disk' = [e \in box |-> tries[e]]
           \/ DiskMayFail /\ disk' = disk
  BY DEF Persist

\* A write of a well-typed outbox leaves a well-typed disk.
LEMMA PersistType ==
    ASSUME TypeOK, offered \subseteq offered',
           NEW box, box \subseteq offered', offered' \subseteq Event,
           NEW tries \in [Event -> 0 .. MaxAttempts], Persist(box, tries)
    PROVE  /\ DOMAIN disk' \subseteq offered'
           /\ \A e \in DOMAIN disk' : disk'[e] \in 0 .. MaxAttempts
  <1>1. CASE disk' = [e \in box |-> tries[e]]
    BY <1>1
  <1>2. CASE disk' = disk
    BY <1>2 DEF TypeOK
  <1> QED
    BY <1>1, <1>2, PersistDisk

\* An attempt keeps the counters in their ranges and adds at most one send.
LEMMA AttemptType ==
    ASSUME TypeOK, NEW t \in Task, NEW e \in Event, NEW box, Attempt(t, e, box)
    PROVE  /\ attempts' \in [Event -> 0 .. MaxAttempts]
           /\ extra' \in [Event -> Nat]
           /\ sending \subseteq sending'
           /\ sending' \subseteq sending \cup {<<t, e>>}
           /\ \A f \in Event \ {e} : attempts'[f] = attempts[f] /\ extra'[f] = extra[f]
           /\ attempts[e] < MaxAttempts => extra'[e] = extra[e]
           /\ extra'[e] <= extra[e] + 1
           /\ conn = "down" => Persist(box, attempts')
  BY OutboxAssumption DEF Attempt, TypeOK

--------------------------------------------------------------------------------
\* Initially nothing was offered.
LEMMA InitIInv == Init => IInv
  <1> SUFFICES ASSUME Init PROVE IInv
    OBVIOUS
  <1>1. attempts \in [Event -> 0 .. MaxAttempts] /\ extra \in [Event -> Nat]
    BY OutboxAssumption DEF Init
  <1>2. disk = [e \in {} |-> 0] /\ DOMAIN disk = {}
    BY DEF Init
  <1>3. todo \in [Flush -> SUBSET offered] /\ todo["reconnect"] = {}
    BY DEF Init, Flush
  <1>4. \A t \in Flush : todo[t] = {} /\ ~Visiting(t)
    BY DEF Init, Visiting
  <1>5. TypeOK
    BY <1>1, <1>2, <1>3, <1>4 DEF Init, TypeOK
  <1>6. \A e \in Event : attempts[e] = 0 /\ extra[e] = 0
    BY DEF Init
  <1> QED
    BY <1>3, <1>5, <1>6 DEF IInv, FreshInv, ExtraInv, OneExtraAttempt

\* Offering an event keeps the invariant: its counters are at zero.
LEMMA OfferStep ==
    ASSUME IInv, NEW e \in Event, Offer(e)
    PROVE  IInv'
  <1> USE DEF IInv
  <1> "initial" \in Task
    BY DEF Task
  <1>1. /\ offered' = offered \cup {e} /\ outbox' = outbox \cup {e}
        /\ Attempt("initial", e, outbox') /\ e \notin offered
        /\ conn # "down" => Persist(outbox', attempts)
        /\ UNCHANGED <<flushing, todo, retryTask, linkVars, relayVars, crashes>>
    BY DEF Offer
  <1>2. /\ attempts' \in [Event -> 0 .. MaxAttempts]
        /\ extra' \in [Event -> Nat]
        /\ sending' \subseteq sending \cup {<<"initial", e>>}
        /\ \A f \in Event \ {e} : attempts'[f] = attempts[f] /\ extra'[f] = extra[f]
        /\ attempts[e] < MaxAttempts => extra'[e] = extra[e]
        /\ conn = "down" => Persist(outbox', attempts')
    BY <1>1, AttemptType
  <1>3. extra' = extra
    <2>1. attempts[e] < MaxAttempts
      BY <1>1, OutboxAssumption DEF FreshInv
    <2> QED
      BY <1>2, <2>1 DEF TypeOK
  <1>4. attempts \in [Event -> 0 .. MaxAttempts] /\ outbox' \subseteq offered'
        /\ offered \subseteq offered' /\ offered' \subseteq Event
    BY <1>1 DEF TypeOK
  <1>5. /\ DOMAIN disk' \subseteq offered'
        /\ \A f \in DOMAIN disk' : disk'[f] \in 0 .. MaxAttempts
    <2>1. CASE conn = "down"
      BY <1>2, <1>4, <2>1, PersistType
    <2>2. CASE conn # "down"
      BY <1>1, <1>4, <2>2, PersistType
    <2> QED
      BY <2>1, <2>2
  <1>6. sending' \subseteq Task \X offered'
    BY <1>1, <1>2 DEF TypeOK, Task
  <1>7. \A t \in Flush \ flushing' : todo'[t] = {} /\ ~Visiting(t)'
    BY <1>1, <1>2 DEF TypeOK, Flush, Visiting
  <1>8. TypeOK'
    BY <1>1, <1>2, <1>3, <1>4, <1>5, <1>6, <1>7 DEF TypeOK, linkVars, relayVars
  <1> QED
    BY <1>1, <1>2, <1>3, <1>8 DEF FreshInv, ExtraInv, OneExtraAttempt

\* A visit keeps the invariant: only the reconnect flush attempts an exhausted
\* event, and it has then no more to visit it.
LEMMA VisitStep ==
    ASSUME IInv, NEW t \in Flush, NEW e \in Event, Visit(t, e)
    PROVE  IInv'
  <1> USE DEF IInv
  <1> t \in Task
    BY DEF Task
  <1>1. /\ t \in flushing /\ e \in todo[t] /\ e \in outbox
        /\ ~Exhausted(e) \/ t = "reconnect"
        /\ todo' = [todo EXCEPT ![t] = @ \ {e}]
        /\ Attempt(t, e, outbox)
        /\ conn # "down" => disk' = disk
        /\ UNCHANGED <<offered, outbox, flushing, retryTask, linkVars, relayVars, crashes>>
    BY DEF Visit
  <1>2. /\ attempts' \in [Event -> 0 .. MaxAttempts]
        /\ extra' \in [Event -> Nat]
        /\ sending' \subseteq sending \cup {<<t, e>>}
        /\ \A f \in Event \ {e} : attempts'[f] = attempts[f] /\ extra'[f] = extra[f]
        /\ attempts[e] < MaxAttempts => extra'[e] = extra[e]
        /\ extra'[e] <= extra[e] + 1
        /\ conn = "down" => Persist(outbox, attempts')
    BY <1>1, AttemptType
  <1>3. /\ DOMAIN disk' \subseteq offered'
        /\ \A f \in DOMAIN disk' : disk'[f] \in 0 .. MaxAttempts
    <2>1. CASE conn = "down"
      BY <1>1, <1>2, <2>1, PersistType DEF TypeOK
    <2>2. CASE conn # "down"
      BY <1>1, <2>2 DEF TypeOK
    <2> QED
      BY <2>1, <2>2
  <1>4. sending' \subseteq Task \X offered'
    BY <1>1, <1>2 DEF TypeOK
  <1>5. \A u \in Flush \ flushing' : todo'[u] = {} /\ ~Visiting(u)'
    BY <1>1, <1>2 DEF TypeOK, Visiting
  <1>6. TypeOK'
    BY <1>1, <1>2, <1>3, <1>4, <1>5 DEF TypeOK, linkVars, relayVars
  <1>7. FreshInv'
    BY <1>1, <1>2 DEF FreshInv, TypeOK
  <1>8. CASE t = "reconnect"
    <2>1. e \notin todo'["reconnect"] /\ todo'["reconnect"] \subseteq todo["reconnect"]
          /\ extra[e] = 0 /\ todo["reconnect"] \subseteq Event
      BY <1>1, <1>8 DEF TypeOK, ExtraInv
    <2> QED
      BY <1>2, <1>6, <1>7, <2>1 DEF ExtraInv, OneExtraAttempt, TypeOK
  <1>9. CASE t # "reconnect"
    <2>1. attempts[e] < MaxAttempts
      BY <1>1, <1>9, OutboxAssumption DEF Exhausted, TypeOK
    <2>2. extra' = extra
      BY <1>2, <2>1 DEF TypeOK
    <2>3. todo'["reconnect"] = todo["reconnect"]
      BY <1>1, <1>9 DEF TypeOK, Flush
    <2> QED
      BY <1>6, <1>7, <2>2, <2>3 DEF ExtraInv, OneExtraAttempt
  <1> QED
    BY <1>8, <1>9

\* A send that returns or raises persists the outbox as it is.
LEMMA SendStep ==
    ASSUME IInv, NEW t \in Task, NEW e \in Event, SendReturns(t, e) \/ SendRaises(t, e)
    PROVE  IInv'
  <1> USE DEF IInv
  <1>1. /\ sending' = sending \ {<<t, e>>} /\ <<t, e>> \in sending
        /\ toRelay' \subseteq toRelay \cup {e}
        /\ Persist(outbox, attempts)
        /\ UNCHANGED <<offered, memVars, flushing, todo, retryTask, linkVars, toBridge,
                       stored, crashes>>
    BY DEF SendReturns, SendRaises, relayVars
  <1>2. /\ DOMAIN disk' \subseteq offered'
        /\ \A f \in DOMAIN disk' : disk'[f] \in 0 .. MaxAttempts
    BY <1>1, PersistType DEF TypeOK
  <1>3. \A u \in Flush \ flushing' : todo'[u] = {} /\ ~Visiting(u)'
    BY <1>1 DEF TypeOK, Visiting
  <1>4. toRelay' \subseteq offered'
    BY <1>1 DEF TypeOK
  <1>5. TypeOK'
    BY <1>1, <1>2, <1>3, <1>4 DEF TypeOK, linkVars, memVars
  <1> QED
    BY <1>1, <1>5 DEF FreshInv, ExtraInv, OneExtraAttempt, memVars

\* The other steps of the tasks attempt nothing.
LEMMA TaskSteps ==
    ASSUME IInv,
           \/ \E t \in Flush, e \in Event : Skip(t, e)
           \/ \E t \in Flush : EndFlush(t)
           \/ Wake
           \/ StopRetryTask
    PROVE  IInv'
  <1> USE DEF IInv
  <1>1. ASSUME NEW t \in Flush, NEW e \in Event, Skip(t, e) PROVE IInv'
    <2>1. \A u \in Flush \ flushing' : todo'[u] = {} /\ ~Visiting(u)'
      BY <1>1 DEF Skip, TypeOK, Visiting
    <2>2. TypeOK'
      BY <1>1, <2>1 DEF Skip, TypeOK, linkVars, memVars, relayVars
    <2>3. todo'["reconnect"] \subseteq todo["reconnect"]
      BY <1>1 DEF Skip, TypeOK, Flush
    <2> QED
      BY <1>1, <2>2, <2>3 DEF Skip, FreshInv, ExtraInv, OneExtraAttempt, memVars
  <1>2. ASSUME NEW t \in Flush, EndFlush(t) PROVE IInv'
    <2>1. \A u \in Flush \ flushing' : todo'[u] = {} /\ ~Visiting(u)'
      BY <1>2 DEF EndFlush, TypeOK, Visiting
    <2>2. "retry" \in flushing' => retryTask'
      BY <1>2 DEF EndFlush, TypeOK
    <2>3. TypeOK'
      BY <1>2, <2>1, <2>2 DEF EndFlush, TypeOK, linkVars, memVars, relayVars
    <2> QED
      BY <1>2, <2>3 DEF EndFlush, FreshInv, ExtraInv, OneExtraAttempt, memVars
  <1>3. CASE Wake
    <2>1. \A u \in Flush \ flushing' : todo'[u] = {} /\ ~Visiting(u)'
      BY <1>3 DEF Wake, TypeOK, Visiting
    <2>2. TypeOK'
      BY <1>3, <2>1 DEF Wake, TypeOK, linkVars, memVars, relayVars, Flush
    <2>3. todo'["reconnect"] = todo["reconnect"]
      BY <1>3 DEF Wake, TypeOK, Flush
    <2> QED
      BY <1>3, <2>2, <2>3 DEF Wake, FreshInv, ExtraInv, OneExtraAttempt, memVars
  <1>4. CASE StopRetryTask
    <2>1. \A u \in Flush \ flushing' : todo'[u] = {} /\ ~Visiting(u)'
      BY <1>4 DEF StopRetryTask, TypeOK, Visiting
    <2>2. TypeOK'
      BY <1>4, <2>1 DEF StopRetryTask, TypeOK, linkVars, memVars, relayVars, Flush
    <2>3. todo'["reconnect"] = todo["reconnect"]
      BY <1>4 DEF StopRetryTask, TypeOK, Flush
    <2> QED
      BY <1>4, <2>2, <2>3 DEF StopRetryTask, FreshInv, ExtraInv, OneExtraAttempt, memVars
  <1> QED
    BY <1>1, <1>2, <1>3, <1>4

\* The steps of the connection; an authentication allows extra attempts again.
LEMMA LinkSteps ==
    ASSUME IInv, Connect \/ Authenticate \/ SocketCloses
    PROVE  IInv'
  <1> USE DEF IInv
  <1>1. CASE Connect
    <2>1. TypeOK'
      BY <1>1 DEF Connect, TypeOK, Visiting, memVars, taskVars, relayVars
    <2> QED
      BY <1>1, <2>1 DEF Connect, FreshInv, ExtraInv, OneExtraAttempt, memVars, taskVars
  <1>2. CASE Authenticate
    <2>1. \A u \in Flush \ flushing' : todo'[u] = {} /\ ~Visiting(u)'
      BY <1>2 DEF Authenticate, TypeOK, Visiting
    <2>2. /\ todo' \in [Flush -> SUBSET offered'] /\ flushing' \subseteq Flush
          /\ extra' \in [Event -> Nat] /\ \A e \in Event : extra'[e] = 0
      BY <1>2 DEF Authenticate, TypeOK, Flush
    <2>3. TypeOK'
      BY <1>2, <2>1, <2>2 DEF Authenticate, TypeOK, relayVars
    <2> QED
      BY <1>2, <2>2, <2>3 DEF Authenticate, FreshInv, ExtraInv, OneExtraAttempt, TypeOK
  <1>3. CASE SocketCloses
    <2>1. TypeOK'
      BY <1>3 DEF SocketCloses, TypeOK, Visiting, memVars, taskVars
    <2> QED
      BY <1>3, <2>1 DEF SocketCloses, FreshInv, ExtraInv, OneExtraAttempt, memVars, taskVars
  <1> QED
    BY <1>1, <1>2, <1>3

\* Relay's steps, and the ack that the bridge handles.
LEMMA RelaySteps ==
    ASSUME IInv, NEW e \in Event, HandleAck(e) \/ RelayStores(e) \/ RelayDrops(e)
    PROVE  IInv'
  <1> USE DEF IInv
  <1>1. CASE HandleAck(e)
    <2>1. outbox' \subseteq offered' /\ offered' = offered
      BY <1>1 DEF HandleAck, TypeOK
    <2>2. /\ DOMAIN disk' \subseteq offered'
          /\ \A f \in DOMAIN disk' : disk'[f] \in 0 .. MaxAttempts
      <3> PICK names \in AckNames :
                 /\ outbox' = outbox \ Acked(e, names)
                 /\ IF Acked(e, names) = {} THEN UNCHANGED disk
                    ELSE Persist(outbox \ Acked(e, names), attempts)
        BY <1>1 DEF HandleAck
      <3>1. CASE Acked(e, names) = {}
        BY <1>1, <2>1, <3>1 DEF HandleAck, TypeOK
      <3>2. CASE Acked(e, names) # {}
        BY <1>1, <2>1, <3>2, PersistType DEF HandleAck, TypeOK
      <3> QED
        BY <3>1, <3>2
    <2>3. TypeOK'
      BY <1>1, <2>1, <2>2 DEF HandleAck, TypeOK, Visiting, taskVars, linkVars
    <2> QED
      BY <1>1, <2>3 DEF HandleAck, FreshInv, ExtraInv, OneExtraAttempt, taskVars
  <1>2. CASE RelayStores(e) \/ RelayDrops(e)
    <2>1. /\ toRelay' \subseteq toRelay /\ stored \subseteq stored'
          /\ stored' \subseteq offered /\ toBridge' \subseteq stored'
          /\ UNCHANGED <<offered, memVars, disk, taskVars, linkVars, crashes>>
      BY <1>2 DEF RelayStores, RelayDrops, TypeOK
    <2>2. TypeOK'
      BY <2>1 DEF TypeOK, Visiting, memVars, taskVars, linkVars
    <2> QED
      BY <2>1, <2>2 DEF FreshInv, ExtraInv, OneExtraAttempt, memVars, taskVars
  <1> QED
    BY <1>1, <1>2

\* After a restart the memory is what the file held, and no task is left.
LEMMA CrashStep == ASSUME IInv, Crash PROVE IInv'
  <1> USE DEF IInv
  <1>1. attempts' \in [Event -> 0 .. MaxAttempts]
    BY OutboxAssumption DEF Crash, TypeOK
  <1>2. extra' \in [Event -> Nat] /\ \A e \in Event : extra'[e] = 0
    BY DEF Crash
  <1>3. /\ todo' \in [Flush -> SUBSET offered'] /\ todo'["reconnect"] = {}
        /\ \A t \in Flush : todo'[t] = {} /\ ~Visiting(t)'
    BY DEF Crash, Flush, Visiting
  <1>4. /\ outbox' = DOMAIN disk /\ sending' = {} /\ flushing' = {}
        /\ toRelay' = {} /\ toBridge' = {} /\ crashes' = crashes + 1
        /\ retryTask' = FALSE /\ conn' = "down" /\ stable' = FALSE
        /\ UNCHANGED <<offered, disk, stored>>
    BY DEF Crash
  <1>5. TypeOK'
    <2>1. /\ retryTask' \in BOOLEAN /\ stable' \in BOOLEAN
          /\ conn' \in {"down", "open", "authenticated"}
          /\ flushing' \subseteq Flush /\ sending' \subseteq Task \X offered'
          /\ "retry" \in flushing' => retryTask'
      BY <1>4
    <2>2. /\ offered' \subseteq Event /\ outbox' \subseteq offered'
          /\ DOMAIN disk' \subseteq offered'
          /\ \A e \in DOMAIN disk' : disk'[e] \in 0 .. MaxAttempts
          /\ toRelay' \subseteq offered' /\ toBridge' \subseteq stored'
          /\ stored' \subseteq offered' /\ crashes' \in Nat
      BY <1>4 DEF TypeOK
    <2> QED
      BY <1>1, <1>2, <1>3, <2>1, <2>2 DEF TypeOK
  <1>6. \A e \in Event \ offered : attempts'[e] = 0
    BY DEF Crash, TypeOK
  <1> QED
    BY <1>2, <1>3, <1>4, <1>5, <1>6 DEF FreshInv, ExtraInv, OneExtraAttempt

\* Every step keeps the invariant.
LEMMA NextIInv == IInv /\ [Next]_vars => IInv'
  <1> SUFFICES ASSUME IInv, [Next]_vars PROVE IInv'
    OBVIOUS
  <1>1. CASE UNCHANGED vars
    BY <1>1 DEF vars, memVars, linkVars, taskVars, relayVars, IInv, TypeOK, FreshInv, ExtraInv,
       OneExtraAttempt, Visiting
  <1>2. ASSUME NEW e \in Event,
               Offer(e) \/ HandleAck(e) \/ RelayStores(e) \/ RelayDrops(e)
        PROVE  IInv'
    BY <1>2, OfferStep, RelaySteps
  <1>3. ASSUME NEW t \in Task, NEW e \in Event, SendReturns(t, e) \/ SendRaises(t, e)
        PROVE  IInv'
    BY <1>3, SendStep
  <1>4. ASSUME NEW t \in Flush, TaskStep(t) PROVE IInv'
    BY <1>4, VisitStep, TaskSteps DEF TaskStep
  <1>5. CASE Wake \/ Connect \/ Authenticate \/ SocketCloses \/ StopRetryTask \/ Crash
    BY <1>5, TaskSteps, LinkSteps, CrashStep
  <1> QED
    BY <1>1, <1>2, <1>3, <1>4, <1>5 DEF Next

\* The strengthened invariant holds in every reachable state.
THEOREM Invariance == Spec => []IInv
  BY InitIInv, NextIInv, PTL DEF Spec

\* The memory, the disk, the tasks and the link are always well typed, and no
\* flush outlives its task.
THEOREM TypeCorrect == Spec => []TypeOK
  <1>1. IInv => TypeOK
    BY DEF IInv
  <1> QED
    BY <1>1, Invariance, PTL

\* An exhausted event is attempted at most once more per authentication,
\* however the initial attempt, the retry loop and the reconnect flush
\* interleave.
THEOREM ExtraAttempts == Spec => []OneExtraAttempt
  <1>1. IInv => OneExtraAttempt
    BY DEF IInv
  <1> QED
    BY <1>1, Invariance, PTL

--------------------------------------------------------------------------------
(***************************************************************************)
(* The file and the memory.  The part of Next that persists nothing leaves *)
(* the outbox alone, so that writes that succeed keep the two together.    *)
(***************************************************************************)
DiskInv == DiskIsCurrent /\ NothingIsLost

\* Every step keeps the file up to date, and what leaves it is stored.
LEMMA DiskStep ==
    ASSUME ~DiskMayFail, IInv, DiskInv, [Next]_vars
    PROVE  DiskInv'
  <1> USE DEF IInv
  <1>1. ASSUME NEW box, NEW tries, Persist(box, tries) PROVE DOMAIN disk' = box
    BY <1>1, PersistDisk
  <1>2. ASSUME offered' = offered, stored \subseteq stored', outbox' = outbox,
               DOMAIN disk' = outbox
        PROVE  DiskInv'
    BY <1>2 DEF DiskInv, DiskIsCurrent, NothingIsLost
  <1>3. ASSUME NEW e \in Event, Offer(e) PROVE DiskInv'
    <2>1. DOMAIN disk' = outbox'
      BY <1>1, <1>3 DEF Offer, Attempt
    <2>2. offered' = offered \cup {e} /\ outbox' = outbox \cup {e} /\ stored' = stored
      BY <1>3 DEF Offer, relayVars
    <2> QED
      BY <2>1, <2>2 DEF DiskInv, DiskIsCurrent, NothingIsLost
  <1>4. ASSUME NEW e \in Event, HandleAck(e) PROVE DiskInv'
    <2> PICK names \in AckNames :
               /\ outbox' = outbox \ Acked(e, names)
               /\ IF Acked(e, names) = {} THEN UNCHANGED disk
                                         ELSE Persist(outbox \ Acked(e, names), attempts)
      BY <1>4 DEF HandleAck
    <2>1. e \in stored /\ offered' = offered /\ stored' = stored
      BY <1>4 DEF HandleAck, TypeOK
    <2>2. DOMAIN disk' = outbox'
      BY <1>1 DEF DiskInv, DiskIsCurrent
    <2>3. \A f \in Acked(e, names) : f \in stored \/ Matches(e, f, names)
      BY <2>1 DEF Acked
    <2> QED
      BY <2>1, <2>2, <2>3 DEF DiskInv, DiskIsCurrent, NothingIsLost
  <1>5. ASSUME NEW e \in Event, RelayStores(e) \/ RelayDrops(e) PROVE DiskInv'
    BY <1>2, <1>5 DEF RelayStores, RelayDrops, memVars, DiskInv, DiskIsCurrent
  <1>6. ASSUME NEW t \in Task, NEW e \in Event, SendReturns(t, e) \/ SendRaises(t, e)
        PROVE  DiskInv'
    <2>1. DOMAIN disk' = outbox
      BY <1>1, <1>6 DEF SendReturns, SendRaises
    <2> QED
      BY <1>2, <1>6, <2>1 DEF SendReturns, SendRaises, memVars, relayVars
  <1>7. ASSUME NEW t \in Flush, TaskStep(t) PROVE DiskInv'
    <2>1. ASSUME NEW e \in Event, Visit(t, e) PROVE DiskInv'
      <3>1. DOMAIN disk' = outbox
        BY <1>1, <2>1 DEF Visit, Attempt, DiskInv, DiskIsCurrent
      <3> QED
        BY <1>2, <2>1, <3>1 DEF Visit, relayVars
    <2>2. ASSUME NEW e \in Event, Skip(t, e) PROVE DiskInv'
      BY <1>2, <2>2 DEF Skip, memVars, relayVars, DiskInv, DiskIsCurrent
    <2>3. CASE EndFlush(t)
      BY <1>2, <2>3 DEF EndFlush, memVars, relayVars, DiskInv, DiskIsCurrent
    <2> QED
      BY <1>7, <2>1, <2>2, <2>3 DEF TaskStep
  <1>8. CASE Wake \/ Connect \/ Authenticate \/ SocketCloses \/ StopRetryTask
    BY <1>2, <1>8 DEF Wake, Connect, Authenticate, SocketCloses, StopRetryTask, memVars,
       relayVars, DiskInv, DiskIsCurrent
  <1>9. CASE Crash
    <2>1. outbox' = outbox /\ DOMAIN disk' = outbox
      BY <1>9 DEF Crash, DiskInv, DiskIsCurrent
    <2> QED
      BY <1>2, <1>9, <2>1 DEF Crash
  <1>10. CASE UNCHANGED vars
    BY <1>2, <1>10 DEF vars, memVars, relayVars, DiskInv, DiskIsCurrent
  <1> QED
    BY <1>3, <1>4, <1>5, <1>6, <1>7, <1>8, <1>9, <1>10 DEF Next

\* When writes of the outbox file succeed, the file holds the events that are
\* not acknowledged, and no event that was offered is ever lost, by crashes,
\* by disconnections, or by an ack that names another event.
THEOREM Durable == ASSUME ~DiskMayFail PROVE Spec => []DiskInv
  <1>1. Init => DiskInv
    BY DEF Init, DiskInv, DiskIsCurrent, NothingIsLost
  <1>2. IInv /\ DiskInv /\ [Next]_vars => DiskInv'
    BY DiskStep
  <1> QED
    BY <1>1, <1>2, Invariance, PTL DEF Spec

\* The part of it that the users of the bridge see.
THEOREM NoLoss == ASSUME ~DiskMayFail PROVE Spec => []NothingIsLost
  <1>1. DiskInv => NothingIsLost
    BY DEF DiskInv
  <1> QED
    BY <1>1, Durable, PTL

\* The part of it that a restart relies on.
THEOREM CurrentDisk == ASSUME ~DiskMayFail PROVE Spec => []DiskIsCurrent
  <1>1. DiskInv => DiskIsCurrent
    BY DEF DiskInv
  <1> QED
    BY <1>1, Durable, PTL

\* When writes succeed, memory, tasks and file are always consistent.
THEOREM Consistency == ASSUME ~DiskMayFail PROVE Spec => []Consistent
  <1>1. TypeOK /\ DiskIsCurrent => Consistent
    BY DEF Consistent
  <1> QED
    BY <1>1, TypeCorrect, CurrentDisk, PTL

--------------------------------------------------------------------------------
(***************************************************************************)
(*                     THE REPLICAS OF THE AGENTS                          *)
(***************************************************************************)

(***************************************************************************)
(* The inductive invariant.                                                *)
(***************************************************************************)

\* What there is was made by an edit, and a document lies in a directory.
EditInv ==
    /\ edits \in 0 .. MaxEdits
    /\ known \in [Agent -> SUBSET (1 .. edits)]
    /\ \A a \in Agent : file[a] <= edits /\ (file[a] # None => home[a])

\* A version v that the host holds is one Relay had: never ahead of Relay's record r,
\* equal to it when the numbers are, and of a content among those Relay has had, K.
Held(v, r, K) ==
    /\ v.ver <= r.ver
    /\ v.ver = r.ver => v = r
    /\ v.ver > 0 => v.content \in K
HeldInv == \A a \in Agent :
    /\ Held(NoVersion, relay[a], known[a]) /\ Held(relay[a], relay[a], known[a])
    /\ Held(saved.entry[a], relay[a], known[a])
    /\ Held(x.state.entry[a], relay[a], known[a])
    /\ Held(x.answer[a], relay[a], known[a])

\* Where the entry e of the host knows of the deletion in Relay's record r, the file
\* f is gone or new to Relay.
Fresh(e, r, f, K) == e.ver = r.ver /\ r.deleted => f \notin K
CurrentInv == \A a \in Agent : /\ Fresh(saved.entry[a], relay[a], file[a], known[a])
                             /\ Fresh(x.state.entry[a], relay[a], file[a], known[a])

\* A request u is based on the entry e of the state file; until Relay has it, a
\* content that would revive a deleted document is new to Relay.
Based(u, e, r, K, n, sent) ==
    /\ u.what = "nothing" => u.content = None
    /\ u.what # "nothing" => u.content \in 1 .. n /\ u.base = e.ver
    /\ u.what = "deleted" => Lives(e) /\ u.content = e.content
    /\ u.what = "content" /\ ~sent => Fresh(e, r, u.content, K)
UploadInv == \A a \in Agent :
    Based(x.upload[a], saved.entry[a], relay[a], known[a], edits, x.at = "apply")

\* What a complete scan found is in the request, and Relay has had it when the
\* answer is there.
SeenInv == \A a \in Agent :
    a \notin x.incomplete /\ x.found[a] # None =>
        /\ x.upload[a].content = x.found[a]
        /\ x.at = "apply" => x.found[a] \in known[a]

\* Where an exchange is: the state file is what it was read as until the answer
\* is applied, and only the agents of the answer get or keep a canonical id.
PhaseInv ==
    /\ x.at = "idle" => x = NoExchange
    /\ x.at \in {"scan", "post"} => x.state = saved
    /\ x.at = "apply" =>
         /\ x.left \subseteq x.agents /\ x.state.canonical \subseteq x.agents
         /\ \A a \in x.left : x.state.entry[a] = saved.entry[a]
         /\ \A a \in Agent : x.answer[a].ver > 0 => saved.entry[a].ver < x.answer[a].ver

\* An agent the last answer did not call connected has no canonical id, once that
\* answer is saved; while it is applied, no such agent gets one.
ConsentInv ==
    /\ NoContentWithoutConsent
    /\ x.at # "apply" \/ proto # "v3" => (refused \ unsaved) \cap saved.canonical = {}
    /\ x.at = "apply" =>
         /\ x.named \cap refused = {}
         /\ proto = "v3" => x.agents \cap refused = {}
         /\ proto # "v3" => x.state.canonical \cap (refused \ unsaved) = {}

\* A profile that a native removal removed has no home, and no exchange lists it.
RemovedInv == \A a \in removed : ~home[a] /\ a \notin x.listed

SyncInv == /\ SyncTypeOK /\ EditInv /\ HeldInv /\ CurrentInv /\ UploadInv /\ SeenInv
           /\ PhaseInv /\ ConsentInv /\ RemovedInv

--------------------------------------------------------------------------------
(* Values.                                                                 *)

LEMMA Numbers ==
    /\ MaxEdits \in Nat /\ None = 0 /\ Content = 1 .. MaxEdits /\ Native \subseteq Agent
    /\ NoVersion \in Version /\ NoVersion.ver = 0 /\ NoVersion.deleted = FALSE
    /\ Nothing \in Upload /\ Nothing.what = "nothing" /\ Nothing.content = None
  BY AgentSyncAssumption DEF None, Content, NoVersion, Version, Nothing, Upload

\* No exchange.
LEMMA NoExchangeFields ==
    /\ NoExchange \in Exchange /\ NoExchange.at = "idle"
    /\ NoExchange.left = {} /\ NoExchange.listed = {} /\ NoExchange.agents = {}
    /\ NoExchange.state \in State /\ NoExchange.state.canonical = {}
    /\ NoExchange.incomplete = {} /\ NoExchange.named = {}
    /\ \A a \in Agent : /\ NoExchange.upload[a] = Nothing /\ NoExchange.found[a] = None
                        /\ NoExchange.state.entry[a] = NoVersion
                        /\ NoExchange.answer[a] = NoVersion
  <1> DEFINE U == [a \in Agent |-> Nothing]
             E == [a \in Agent |-> NoVersion]
             F == [a \in Agent |-> None]
             S == [entry |-> E, canonical |-> {}]
  <1>1. /\ U \in [Agent -> Upload] /\ E \in [Agent -> Version]
        /\ F \in [Agent -> Content \cup {None}]
        /\ \A a \in Agent : U[a] = Nothing /\ E[a] = NoVersion /\ F[a] = None
    BY Numbers
  <1>2. NoExchange = [at |-> "idle", left |-> {}, listed |-> {}, incomplete |-> {},
                      found |-> F, upload |-> U, state |-> S, answer |-> E,
                      agents |-> {}, named |-> {}]
    BY DEF NoExchange
  <1> HIDE DEF U, E, F
  <1>3. S \in State /\ S.canonical = {} /\ S.entry = E
    BY <1>1 DEF State
  <1> HIDE DEF S
  <1> QED BY <1>1, <1>2, <1>3 DEF Exchange

LEMMA Types ==
    ASSUME SyncTypeOK
    PROVE  /\ \A a \in Agent :
                /\ saved.entry[a] \in Version /\ relay[a] \in Version
                /\ x.state.entry[a] \in Version /\ x.answer[a] \in Version
                /\ x.upload[a] \in Upload /\ file[a] \in Nat
                /\ x.found[a] \in Content \cup {None}
                /\ file[a] \in Content \cup {None}
           /\ x.at \in {"idle", "scan", "post", "apply", "save"}
           /\ x.state \in State /\ x.left \subseteq Agent /\ x.agents \subseteq Agent
           /\ x.listed \subseteq Agent /\ removed \subseteq Native
           /\ x.state.canonical \subseteq Agent /\ saved.canonical \subseteq Agent
           /\ x.state.entry \in [Agent -> Version]
  BY Numbers DEF SyncTypeOK, Exchange, State

LEMMA HeldGrows ==
    ASSUME NEW v \in Version, NEW r \in Version, NEW s \in Version, NEW K, NEW L,
           Held(v, r, K), K \subseteq L, s = r \/ s.ver > r.ver
    PROVE  Held(v, s, L)
  BY DEF Held, Version

\* The next version of a record.
LEMMA RevisedFields ==
    ASSUME NEW r \in Version, NEW c, c \in Content \cup {None}
    PROVE  /\ Revised(r, c) \in Version /\ Revised(r, c).ver = r.ver + 1
           /\ Revised(r, c).content = c /\ ~Revised(r, c).deleted /\ Revised(r, c) # r
  <1>1. r.ver \in Nat /\ r.ver + 1 \in Nat /\ r.ver # r.ver + 1
    BY DEF Version
  <1>2. Revised(r, c) \in Version
    BY <1>1 DEF Version, Revised
  <1>3. /\ Revised(r, c).ver = r.ver + 1
        /\ Revised(r, c).content = c /\ ~Revised(r, c).deleted
    BY DEF Revised
  <1> QED BY <1>1, <1>2, <1>3

LEMMA DroppedFields ==
    ASSUME NEW r \in Version
    PROVE  /\ Dropped(r) \in Version /\ Dropped(r).ver = r.ver + 1
           /\ Dropped(r).content = r.content /\ Dropped(r).deleted /\ Dropped(r) # r
  <1>1. /\ r.ver \in Nat /\ r.ver + 1 \in Nat /\ r.ver # r.ver + 1
        /\ r.content \in Content \cup {None}
    BY DEF Version
  <1>2. Dropped(r) \in Version
    BY <1>1 DEF Version, Dropped
  <1>3. /\ Dropped(r).ver = r.ver + 1
        /\ Dropped(r).content = r.content /\ Dropped(r).deleted
    BY DEF Dropped
  <1> QED BY <1>1, <1>2, <1>3

\* What Relay makes of an upload.
LEMMA Merged ==
    ASSUME NEW r \in Version, NEW u \in Upload
    PROVE  /\ Merge(r, u) \in Version
           /\ Merge(r, u) = r \/ Merge(r, u).ver = r.ver + 1
           /\ Merge(r, u) # r => /\ u.base = r.ver /\ u.what # "nothing"
                                 /\ u.what = "content" => Merge(r, u).content = u.content
                                 /\ u.what = "deleted" => Merge(r, u).content = r.content
           /\ r.deleted /\ ~Merge(r, u).deleted
              => u.what = "content" /\ u.base = r.ver /\ Merge(r, u).content = u.content
           /\ u.what = "content" /\ u.base = r.ver /\ r.deleted => Merge(r, u) # r
  <1>1. u.what \in {"nothing", "content", "deleted"} /\ u.content \in Content \cup {None}
    BY DEF Upload
  <1>2. CASE u.what = "nothing" \/ u.base # r.ver
    BY <1>2 DEF Merge
  <1>3. CASE u.what = "content" /\ u.base = r.ver /\ (r.content # u.content \/ r.deleted)
    <2>1. Merge(r, u) = Revised(r, u.content)
      BY <1>3 DEF Merge
    <2> QED BY <1>1, <1>3, <2>1, RevisedFields
  <1>4. CASE u.what = "deleted" /\ u.base = r.ver /\ ~r.deleted
    <2>1. Merge(r, u) = Dropped(r)
      BY <1>4 DEF Merge
    <2> QED BY <1>4, <2>1, DroppedFields
  <1>5. CASE /\ u.base = r.ver
             /\ \/ u.what = "content" /\ ~(r.content # u.content \/ r.deleted)
                \/ u.what = "deleted" /\ r.deleted
    <2>1. Merge(r, u) = r
      BY <1>5 DEF Merge
    <2> QED BY <1>5, <2>1
  <1> QED BY <1>1, <1>2, <1>3, <1>4, <1>5

--------------------------------------------------------------------------------
(* Agents, users and removals.                                             *)

\* Files and directories change beside an exchange.
LEMMA HostStep ==
    ASSUME SyncInv, UNCHANGED <<kind, saved, proto, x, relaySide, known, consent>>,
           file' \in [Agent -> Content \cup {None}], home' \in [Agent -> BOOLEAN],
           hidden' \subseteq Agent, removed' \subseteq Native, RemovedInv',
           edits' \in 0 .. MaxEdits, edits <= edits',
           \A a \in Agent : \/ file'[a] = file[a]
                            \/ file'[a] = None
                            \/ file'[a] = edits' /\ edits' = edits + 1,
           \A a \in Agent : file'[a] # None => home'[a]
    PROVE  SyncInv'
  <1>1. UNCHANGED <<speaks, relay, connected, known, refused, unsaved>>
    BY DEF relaySide, consent
  <1>2. SyncTypeOK'
    BY <1>1 DEF SyncInv, SyncTypeOK
  <1>3. /\ edits \in Nat /\ edits' \in Nat /\ known \in [Agent -> SUBSET (1 .. edits)]
        /\ \A a \in Agent : file[a] \in Nat /\ file[a] <= edits
    BY Types, Numbers DEF SyncInv, EditInv
  <1>4. EditInv'
    <2>1. known' \in [Agent -> SUBSET (1 .. edits')]
      BY <1>1, <1>3
    <2>2. \A a \in Agent : file'[a] <= edits'
      BY <1>3, Numbers
    <2> QED BY <2>1, <2>2 DEF EditInv
  <1>5. HeldInv' /\ SeenInv'
    BY <1>1 DEF SyncInv, HeldInv, SeenInv
  <1>6. CurrentInv'
    <2>1. \A a \in Agent : None \notin known[a] /\ (edits + 1) \notin known[a]
      BY <1>3, Numbers
    <2> QED BY <1>1, <2>1 DEF SyncInv, CurrentInv, Fresh
  <1>7. UploadInv'
    BY <1>1, <1>3 DEF SyncInv, UploadInv, Based
  <1>8. PhaseInv' /\ ConsentInv'
    BY <1>1 DEF SyncInv, PhaseInv, ConsentInv, NoContentWithoutConsent
  <1> QED BY <1>2, <1>4, <1>5, <1>6, <1>7, <1>8 DEF SyncInv

\* One more edit.
LEMMA EditsStep ==
    ASSUME SyncInv, Edits
    PROVE  /\ edits' = edits + 1 /\ edits \in Nat /\ edits' \in 0 .. MaxEdits
           /\ edits <= edits' /\ edits' \in Content /\ edits' \in 1 .. edits'
  <1>1. edits' = edits + 1 /\ edits < MaxEdits /\ edits \in 0 .. MaxEdits
    BY DEF Edits, SyncInv, EditInv
  <1> QED BY <1>1, Numbers

LEMMA EditStep ==
    ASSUME SyncInv, NEW a \in Agent, Edit(a)
    PROVE  SyncInv'
  <1>1. /\ Edits /\ home[a] /\ file' = [file EXCEPT ![a] = edits']
        /\ UNCHANGED <<kind, home, hidden, saved, proto, x, relaySide, ghosts>>
    BY DEF Edit
  <1>2. /\ edits' = edits + 1 /\ edits' \in 0 .. MaxEdits /\ edits <= edits'
        /\ edits' \in Content
    BY <1>1, EditsStep
  <1>3. file' \in [Agent -> Content \cup {None}] /\ home' \in [Agent -> BOOLEAN]
    BY <1>1, <1>2 DEF SyncInv, SyncTypeOK
  <1>4. \A b \in Agent : file'[b] = IF b = a THEN edits' ELSE file[b]
    BY <1>1 DEF SyncInv, SyncTypeOK
  <1>5. \A b \in Agent : file'[b] # None => home'[b]
    BY <1>1, <1>4 DEF SyncInv, EditInv
  <1>6. hidden' \subseteq Agent /\ removed' \subseteq Native /\ RemovedInv'
    BY <1>1 DEF SyncInv, SyncTypeOK, RemovedInv, ghosts
  <1> QED BY <1>1, <1>2, <1>3, <1>4, <1>5, <1>6, HostStep DEF ghosts

LEMMA DeleteStep ==
    ASSUME SyncInv, NEW a \in Agent, Delete(a)
    PROVE  SyncInv'
  <1>1. /\ Edits /\ file' = [file EXCEPT ![a] = None]
        /\ UNCHANGED <<kind, home, hidden, saved, proto, x, relaySide, ghosts>>
    BY DEF Delete
  <1>2. edits' \in 0 .. MaxEdits /\ edits <= edits'
    BY <1>1, EditsStep
  <1>3. file' \in [Agent -> Content \cup {None}] /\ home' \in [Agent -> BOOLEAN]
    BY <1>1 DEF SyncInv, SyncTypeOK
  <1>4. \A b \in Agent : file'[b] = IF b = a THEN None ELSE file[b]
    BY <1>1 DEF SyncInv, SyncTypeOK
  <1>5. \A b \in Agent : file'[b] # None => home'[b]
    BY <1>1, <1>4 DEF SyncInv, EditInv
  <1>6. hidden' \subseteq Agent /\ removed' \subseteq Native /\ RemovedInv'
    BY <1>1 DEF SyncInv, SyncTypeOK, RemovedInv, ghosts
  <1> QED BY <1>1, <1>2, <1>3, <1>4, <1>5, <1>6, HostStep DEF ghosts

LEMMA HideStep ==
    ASSUME SyncInv, NEW a \in Agent, Hide(a)
    PROVE  SyncInv'
  <1>1. /\ Edits /\ hidden' \subseteq hidden \cup {a}
        /\ UNCHANGED <<kind, home, file, saved, proto, x, relaySide, ghosts>>
    BY DEF Hide
  <1>2. edits' \in 0 .. MaxEdits /\ edits <= edits'
    BY <1>1, EditsStep
  <1>3. /\ file' \in [Agent -> Content \cup {None}] /\ home' \in [Agent -> BOOLEAN]
        /\ hidden' \subseteq Agent
    BY <1>1 DEF SyncInv, SyncTypeOK
  <1>4. \A b \in Agent : file'[b] = file[b] /\ (file'[b] # None => home'[b])
    BY <1>1 DEF SyncInv, EditInv
  <1>5. removed' \subseteq Native /\ RemovedInv'
    BY <1>1 DEF SyncInv, SyncTypeOK, RemovedInv, ghosts
  <1> QED BY <1>1, <1>2, <1>3, <1>4, <1>5, HostStep DEF ghosts

\* A directory goes with its document; a profile that an exchange lists does so only
\* without the lock.
LEMMA GoneStep ==
    ASSUME SyncInv, NEW a \in Agent, Gone(a), edits' \in 0 .. MaxEdits, edits <= edits',
           UNCHANGED <<known, consent>>,
           \/ removed' = removed
           \/ removed' = removed \cup {a} /\ a \in Native /\ x.listed = {}
    PROVE  SyncInv'
  <1>1. /\ home' = [home EXCEPT ![a] = FALSE] /\ file' = [file EXCEPT ![a] = None]
        /\ hidden' = hidden \ {a}
        /\ UNCHANGED <<kind, saved, proto, x, relaySide>>
    BY DEF Gone
  <1>2. /\ file' \in [Agent -> Content \cup {None}] /\ home' \in [Agent -> BOOLEAN]
        /\ hidden' \subseteq Agent /\ removed' \subseteq Native
    BY <1>1 DEF SyncInv, SyncTypeOK
  <1>3. \A b \in Agent : /\ file'[b] = IF b = a THEN None ELSE file[b]
                         /\ home'[b] = (home[b] /\ b # a)
    BY <1>1 DEF SyncInv, SyncTypeOK
  <1>4. \A b \in Agent : file'[b] # None => home'[b]
    BY <1>3 DEF SyncInv, EditInv
  <1>5. RemovedInv'
    <2>1. removed \subseteq Agent
      BY Types, Numbers DEF SyncInv
    <2>2. x' = x /\ ~home'[a]
      BY <1>1, <1>3
    <2> QED BY <1>3, <2>1, <2>2 DEF SyncInv, RemovedInv
  <1> QED BY <1>1, <1>2, <1>3, <1>4, <1>5, HostStep

LEMMA VanishStep ==
    ASSUME SyncInv, NEW a \in Agent, Vanish(a)
    PROVE  SyncInv'
  <1>1. Edits /\ Gone(a) /\ UNCHANGED <<known, consent, removed>>
    BY DEF Vanish, ghosts
  <1> QED BY <1>1, EditsStep, GoneStep

LEMMA RemoveStep ==
    ASSUME SyncInv, NEW a \in Agent, Remove(a)
    PROVE  SyncInv'
  <1>1. /\ x.at = "idle" /\ a \in Native /\ Gone(a) /\ removed' = removed \cup {a}
        /\ UNCHANGED <<edits, known, consent>>
    BY DEF Remove
  <1>2. x.listed = {}
    BY <1>1, NoExchangeFields DEF SyncInv, PhaseInv
  <1>3. edits' \in 0 .. MaxEdits /\ edits <= edits'
    BY <1>1, Numbers DEF SyncInv, EditInv
  <1> QED BY <1>1, <1>2, <1>3, GoneStep

LEMMA ProvisionStep ==
    ASSUME SyncInv, NEW a \in Agent, Provision(a)
    PROVE  SyncInv'
  <1>1. /\ Edits /\ removed' = removed \ {a}
        /\ file' = [file EXCEPT ![a] = edits'] /\ home' = [home EXCEPT ![a] = TRUE]
        /\ UNCHANGED <<kind, hidden, saved, proto, x, relaySide, known, consent>>
    BY DEF Provision
  <1>2. /\ edits' = edits + 1 /\ edits' \in 0 .. MaxEdits /\ edits <= edits'
        /\ edits' \in Content
    BY <1>1, EditsStep
  <1>3. /\ file' \in [Agent -> Content \cup {None}] /\ home' \in [Agent -> BOOLEAN]
        /\ hidden' \subseteq Agent /\ removed' \subseteq Native
    BY <1>1, <1>2 DEF SyncInv, SyncTypeOK
  <1>4. \A b \in Agent : /\ file'[b] = IF b = a THEN edits' ELSE file[b]
                         /\ home'[b] = (home[b] \/ b = a)
    BY <1>1 DEF SyncInv, SyncTypeOK
  <1>5. \A b \in Agent : file'[b] # None => home'[b]
    BY <1>4 DEF SyncInv, EditInv
  <1>6. RemovedInv'
    <2>1. removed \subseteq Agent
      BY Types, Numbers DEF SyncInv
    <2> QED BY <1>1, <1>4, <2>1 DEF SyncInv, RemovedInv
  <1> QED BY <1>1, <1>2, <1>3, <1>4, <1>5, <1>6, HostStep

\* A record of Relay's moves on.
LEMMA RelayStep ==
    ASSUME SyncInv, NEW a \in Agent, UNCHANGED <<hostSide, saved, proto, x, consent, removed>>,
           connected' \subseteq Agent, relay' \in [Agent -> Version],
           relay'[a].ver = relay[a].ver + 1, relay'[a].content \in known'[a],
           \A b \in Agent \ {a} : relay'[b] = relay[b] /\ known'[b] = known[b],
           edits' \in 0 .. MaxEdits, edits <= edits',
           known' \in [Agent -> SUBSET (1 .. edits')], known[a] \subseteq known'[a]
    PROVE  SyncInv'
  <1>1. UNCHANGED <<kind, home, file, hidden, refused, unsaved>>
    BY DEF hostSide, consent
  <1>2. /\ edits \in Nat /\ edits' \in Nat
        /\ \A b \in Agent : file[b] \in Nat /\ file[b] <= edits
        /\ \A b \in Agent : relay[b].ver \in Nat /\ saved.entry[b].ver \in Nat
    BY Types, Numbers DEF SyncInv, EditInv, Version
  <1>3. SyncTypeOK'
    <2>1. \A b \in Agent : saved.entry[b].ver <= relay'[b].ver
      <3> TAKE b \in Agent
      <3>1. saved.entry[b].ver <= relay[b].ver
        BY DEF SyncInv, SyncTypeOK
      <3> QED BY <1>2, <3>1
    <2> QED BY <1>1, <2>1 DEF SyncInv, SyncTypeOK
  <1>4. EditInv'
    <2>1. \A b \in Agent : file'[b] <= edits'
      BY <1>1, <1>2
    <2> QED BY <1>1, <2>1 DEF SyncInv, EditInv
  <1>5. \A b \in Agent : /\ relay'[b] \in Version /\ relay[b] \in Version
                         /\ relay'[b] = relay[b] \/ relay'[b].ver > relay[b].ver
                         /\ known[b] \subseteq known'[b]
    BY <1>2, Types DEF SyncInv
  <1>6. HeldInv'
    <2> SUFFICES ASSUME NEW b \in Agent
                 PROVE  /\ Held(NoVersion, relay'[b], known'[b])
                        /\ Held(relay'[b], relay'[b], known'[b])
                        /\ Held(saved.entry[b], relay'[b], known'[b])
                        /\ Held(x.state.entry[b], relay'[b], known'[b])
                        /\ Held(x.answer[b], relay'[b], known'[b])
      BY DEF HeldInv
    <2>1. Held(relay'[b], relay'[b], known'[b])
      <3>1. relay'[b].ver \in Nat
        BY <1>5 DEF Version
      <3> QED BY <3>1, <1>5 DEF SyncInv, HeldInv, Held
    <2>2. \A e \in Version : Held(e, relay[b], known[b]) => Held(e, relay'[b], known'[b])
      BY <1>5, HeldGrows
    <2>3. /\ NoVersion \in Version /\ saved.entry[b] \in Version
          /\ x.state.entry[b] \in Version /\ x.answer[b] \in Version
      BY Types, Numbers DEF SyncInv
    <2> QED BY <2>1, <2>2, <2>3 DEF SyncInv, HeldInv
  <1>7. \A b \in Agent : \A e \in Version : \A f :
           Held(e, relay[b], known[b]) /\ Fresh(e, relay[b], f, known[b])
           => Fresh(e, relay'[b], f, known'[b])
    <2> SUFFICES ASSUME NEW b \in Agent, NEW e \in Version, NEW f,
                        Held(e, relay[b], known[b]), Fresh(e, relay[b], f, known[b])
                 PROVE  Fresh(e, relay'[b], f, known'[b])
      OBVIOUS
    <2>1. CASE b = a
      BY <1>2, <2>1 DEF Fresh, Held, Version
    <2>2. CASE b # a
      BY <2>2
    <2> QED BY <2>1, <2>2
  <1>8. CurrentInv'
    BY <1>1, <1>7, Types DEF SyncInv, CurrentInv, HeldInv
  <1>9. UploadInv'
    <2> SUFFICES ASSUME NEW b \in Agent
                 PROVE  Based(x.upload[b], saved.entry[b], relay'[b], known'[b], edits',
                              x.at = "apply")
      BY DEF UploadInv
    <2>1. /\ Based(x.upload[b], saved.entry[b], relay[b], known[b], edits, x.at = "apply")
          /\ Held(saved.entry[b], relay[b], known[b]) /\ saved.entry[b] \in Version
      BY Types DEF SyncInv, UploadInv, HeldInv
    <2> QED BY <1>2, <1>7, <2>1 DEF Based
  <1>10. PhaseInv' /\ ConsentInv' /\ RemovedInv' /\ SeenInv'
    BY <1>1, <1>5
    DEF SyncInv, PhaseInv, ConsentInv, NoContentWithoutConsent, RemovedInv, SeenInv
  <1> QED BY <1>3, <1>4, <1>6, <1>8, <1>9, <1>10 DEF SyncInv

LEMMA RelayEditStep ==
    ASSUME SyncInv, NEW a \in Agent, RelayEdit(a)
    PROVE  SyncInv'
  <1> DEFINE v == Revised(relay[a], edits')
  <1>1. /\ Edits
        /\ relay' = [relay EXCEPT ![a] = v]
        /\ known' = [known EXCEPT ![a] = @ \cup {edits'}]
        /\ UNCHANGED <<hostSide, saved, proto, x, consent, removed, connected>>
    BY DEF RelayEdit
  <1>2. /\ edits' = edits + 1 /\ edits \in Nat /\ edits' \in 0 .. MaxEdits
        /\ edits <= edits' /\ edits' \in Content /\ edits' \in 1 .. edits'
    BY <1>1, EditsStep
  <1>3. v \in Version /\ v.ver = relay[a].ver + 1 /\ v.content = edits'
    <2>1. relay[a] \in Version
      BY Types DEF SyncInv
    <2> QED BY <1>2, <2>1, RevisedFields
  <1> HIDE DEF v
  <1>4. /\ relay' \in [Agent -> Version] /\ relay'[a] = v
        /\ \A b \in Agent \ {a} : relay'[b] = relay[b]
    BY <1>1, <1>3 DEF SyncInv, SyncTypeOK
  <1>5. /\ known' \in [Agent -> SUBSET (1 .. edits')]
        /\ known'[a] = known[a] \cup {edits'}
        /\ \A b \in Agent \ {a} : known'[b] = known[b]
    <2>1. known \in [Agent -> SUBSET (1 .. edits')]
      BY <1>1, <1>2 DEF SyncInv, EditInv
    <2> QED BY <1>1, <1>2, <2>1
  <1>6. connected' \subseteq Agent
    BY <1>1 DEF SyncInv, SyncTypeOK
  <1> QED BY <1>1, <1>2, <1>3, <1>4, <1>5, <1>6, RelayStep

LEMMA RelayDeleteStep ==
    ASSUME SyncInv, NEW a \in Agent, RelayDelete(a)
    PROVE  SyncInv'
  <1> DEFINE v == Dropped(relay[a])
  <1>1. /\ Edits /\ Lives(relay[a])
        /\ relay' = [relay EXCEPT ![a] = v]
        /\ UNCHANGED <<hostSide, saved, proto, x, known, consent, removed, connected>>
    BY DEF RelayDelete, ghosts
  <1>2. /\ edits' = edits + 1 /\ edits \in Nat /\ edits' \in 0 .. MaxEdits
        /\ edits <= edits'
    BY <1>1, EditsStep
  <1>3. v \in Version /\ v.ver = relay[a].ver + 1 /\ v.content = relay[a].content
    <2>1. relay[a] \in Version
      BY Types DEF SyncInv
    <2> QED BY <2>1, DroppedFields
  <1> HIDE DEF v
  <1>4. /\ relay' \in [Agent -> Version] /\ relay'[a] = v
        /\ \A b \in Agent \ {a} : relay'[b] = relay[b]
    BY <1>1, <1>3 DEF SyncInv, SyncTypeOK
  <1>5. known' \in [Agent -> SUBSET (1 .. edits')]
    BY <1>1, <1>2 DEF SyncInv, EditInv
  <1>6. relay'[a].content \in known'[a]
    <2>1. relay[a].ver \in Nat /\ relay[a].ver > 0
      BY <1>1, Types DEF SyncInv, Version, Lives
    <2> QED BY <1>1, <1>3, <1>4, <2>1 DEF SyncInv, HeldInv, Held
  <1>7. connected' \subseteq Agent
    BY <1>1 DEF SyncInv, SyncTypeOK
  <1> QED BY <1>1, <1>2, <1>3, <1>4, <1>5, <1>6, <1>7, RelayStep

LEMMA ConnectAgentStep ==
    ASSUME SyncInv, NEW a \in Agent, ConnectAgent(a)
    PROVE  SyncInv'
  <1>1. /\ Edits /\ connected' \subseteq Agent
        /\ UNCHANGED <<kind, home, file, hidden, saved, proto, x, relay, known, refused,
                       unsaved, removed>>
    BY DEF ConnectAgent, SyncInv, SyncTypeOK, hostSide, ghosts, consent
  <1>2. /\ edits' = edits + 1 /\ edits \in Nat /\ edits' \in 0 .. MaxEdits
        /\ \A b \in Agent : file[b] \in Nat /\ file[b] <= edits
    BY <1>1, EditsStep, Types DEF SyncInv, EditInv
  <1>3. SyncTypeOK'
    BY <1>1 DEF SyncInv, SyncTypeOK
  <1>4. EditInv'
    <2>1. known' \in [Agent -> SUBSET (1 .. edits')] /\ \A b \in Agent : file'[b] <= edits'
      BY <1>1, <1>2 DEF SyncInv, EditInv
    <2> QED BY <1>1, <1>2, <2>1 DEF SyncInv, EditInv
  <1>5. HeldInv' /\ CurrentInv' /\ PhaseInv' /\ ConsentInv' /\ SeenInv' /\ RemovedInv'
    BY <1>1 DEF SyncInv, HeldInv, CurrentInv, PhaseInv, ConsentInv, NoContentWithoutConsent,
                SeenInv, RemovedInv
  <1>6. UploadInv'
    BY <1>1, <1>2 DEF SyncInv, UploadInv, Based
  <1> QED BY <1>3, <1>4, <1>5, <1>6 DEF SyncInv

--------------------------------------------------------------------------------
(* The exchange up to its request.                                         *)

\* An exchange begins, scans, or falls back to an older protocol.
LEMMA RequestStep ==
    ASSUME SyncInv, UNCHANGED <<hostSide, saved, relaySide, edits, ghosts>>,
           x' \in Exchange, proto' \in {"v3", "v2", "v1"}, x'.at \in {"scan", "post"},
           x'.state = saved,
           \A a \in Agent : x'.answer[a] = x.answer[a] \/ x'.answer[a] = NoVersion,
           UploadInv', NoContentWithoutConsent', SeenInv', RemovedInv',
           x.at # "apply"
    PROVE  SyncInv'
  <1>1. UNCHANGED <<kind, home, file, hidden, speaks, relay, connected, known, refused,
                    unsaved, removed>>
    BY DEF hostSide, relaySide, ghosts, consent
  <1>2. SyncTypeOK' /\ EditInv'
    BY <1>1 DEF SyncInv, SyncTypeOK, EditInv
  <1>3. HeldInv' /\ CurrentInv'
    BY <1>1 DEF SyncInv, HeldInv, CurrentInv
  <1>4. PhaseInv' /\ ConsentInv'
    BY <1>1 DEF SyncInv, PhaseInv, ConsentInv
  <1> QED BY <1>2, <1>3, <1>4 DEF SyncInv

LEMMA BeginStep ==
    ASSUME SyncInv, Begin
    PROVE  SyncInv'
  <1> DEFINE H == {a \in Agent : home[a]}
  <1>1. /\ x.at = "idle"
        /\ x' = [NoExchange EXCEPT !.at = "scan", !.state = saved, !.listed = H,
                                   !.left = H \cup (Agent \ Native)]
        /\ UNCHANGED <<hostSide, saved, proto, relaySide, edits, ghosts>>
    BY DEF Begin
  <1>2. H \subseteq Agent /\ \A a \in H : home[a]
    OBVIOUS
  <1> HIDE DEF H
  <1>3. /\ x'.at = "scan" /\ x'.state = saved /\ x'.listed = H /\ x.at = "idle"
        /\ x'.upload = NoExchange.upload /\ x'.answer = NoExchange.answer
        /\ x'.found = NoExchange.found
    BY <1>1, NoExchangeFields DEF Exchange
  <1>4. x' \in Exchange
    BY <1>1, <1>2, NoExchangeFields DEF Exchange, SyncInv, SyncTypeOK
  <1>5. \A a \in Agent : /\ x'.answer[a] = NoVersion /\ x'.upload[a] = Nothing
                         /\ x'.found[a] = None
    BY <1>3, NoExchangeFields
  <1>6. UploadInv' /\ NoContentWithoutConsent'
    <2>1. refused' \subseteq Agent
      BY <1>1 DEF ghosts, consent, SyncInv, SyncTypeOK
    <2> QED BY <1>5, <2>1, Numbers DEF UploadInv, Based, NoContentWithoutConsent
  <1>7. proto' \in {"v3", "v2", "v1"}
    BY <1>1 DEF SyncInv, SyncTypeOK
  <1>8. SeenInv' /\ RemovedInv'
    <2>1. SeenInv'
      BY <1>5 DEF SeenInv
    <2>2. \A a \in removed : ~home[a] /\ a \notin H
      BY DEF H, SyncInv, RemovedInv
    <2>3. removed' = removed /\ home' = home
      BY <1>1 DEF ghosts, hostSide
    <2> QED BY <1>3, <2>1, <2>2, <2>3 DEF RemovedInv
  <1> QED BY <1>1, <1>3, <1>4, <1>5, <1>6, <1>7, <1>8, RequestStep

\* What a scan adds to the request, and what there was for it.
Noted(a, readable) ==
    IF MayRead(a) THEN UploadOf(x.state.entry[a], ScanOf(a, readable)) ELSE Nothing
Found(a) == IF MayRead(a) /\ ~PassedOver(a) THEN file[a] ELSE None

LEMMA ScanFields ==
    ASSUME x \in Exchange, file \in [Agent -> Content \cup {None}],
           NEW a \in Agent, NEW readable \in BOOLEAN, Scan(a, readable)
    PROVE  /\ x.at = "scan" /\ x'.at = "scan" /\ x'.listed = x.listed
           /\ x'.state = x.state /\ x'.answer = x.answer
           /\ x'.upload = [x.upload EXCEPT ![a] = Noted(a, readable)]
           /\ x'.found = [x.found EXCEPT ![a] = Found(a)]
           /\ x.incomplete \subseteq x'.incomplete
           /\ MayRead(a) /\ ~ScanOf(a, readable).complete => a \in x'.incomplete
           /\ Noted(a, readable) \in Upload => x' \in Exchange
           /\ UNCHANGED <<hostSide, saved, proto, relaySide, edits, ghosts>>
  <1>1. /\ x.at = "scan" /\ x'.at = "scan" /\ x'.listed = x.listed
        /\ x'.state = x.state /\ x'.answer = x.answer
        /\ x'.upload = [x.upload EXCEPT ![a] = Noted(a, readable)]
        /\ x'.found = [x.found EXCEPT ![a] = Found(a)]
    BY DEF Scan, Exchange, Noted, Found
  <1>2. /\ x.incomplete \subseteq x'.incomplete
        /\ MayRead(a) /\ ~ScanOf(a, readable).complete => a \in x'.incomplete
    BY DEF Scan, Exchange
  <1>3. Noted(a, readable) \in Upload => x' \in Exchange
    <2>1. Found(a) \in Content \cup {None}
      BY DEF Found
    <2>2. x' = [x EXCEPT !.left = @ \ {a}, !.upload[a] = Noted(a, readable),
                  !.found[a] = Found(a),
                  !.incomplete = IF MayRead(a) /\ ~ScanOf(a, readable).complete
                                 THEN @ \cup {a} ELSE @]
      BY DEF Scan, Noted, Found
    <2> QED BY <2>1, <2>2 DEF Exchange
  <1> QED BY <1>1, <1>2, <1>3 DEF Scan

\* A scan reports the content of the file, on the version of the state file, or
\* the end of a document that the state file knows.
LEMMA NotedFields ==
    ASSUME SyncTypeOK, NEW a \in Agent, NEW readable \in BOOLEAN
    PROVE  LET u == Noted(a, readable)
               e == x.state.entry[a] IN
           /\ u = Nothing \/ MayRead(a)
           /\ \/ u = Nothing
              \/ /\ u = [what |-> "content", base |-> e.ver, content |-> file[a]]
                 /\ file[a] # None
              \/ /\ u = [what |-> "deleted", base |-> e.ver, content |-> e.content]
                 /\ Lives(e) /\ home[a] /\ (file[a] = None \/ PassedOver(a))
           /\ Found(a) # None => /\ MayRead(a)
                                 /\ ScanOf(a, readable).complete => u.content = Found(a)
  <1> DEFINE s == ScanOf(a, readable)
             e == x.state.entry[a]
  <1>1. /\ s.content # None => s.content = file[a]
        /\ s.complete /\ s.content = None
           => home[a] /\ (file[a] = None \/ PassedOver(a))
        /\ s.complete /\ ~PassedOver(a) => s.content = file[a]
    BY DEF ScanOf, Sent, PassedOver
  <1> HIDE DEF s
  <1>2. \/ UploadOf(e, s) = Nothing
        \/ /\ UploadOf(e, s) = [what |-> "content", base |-> e.ver, content |-> s.content]
           /\ s.content # None
        \/ /\ UploadOf(e, s) = [what |-> "deleted", base |-> e.ver, content |-> e.content]
           /\ s.complete /\ s.content = None /\ Lives(e)
    BY DEF UploadOf
  <1>3. s.content # None => UploadOf(e, s).content = s.content
    BY DEF UploadOf
  <1>4. Noted(a, readable) = IF MayRead(a) THEN UploadOf(e, s) ELSE Nothing
    BY DEF Noted, s
  <1>5. Found(a) # None => MayRead(a) /\ ~PassedOver(a) /\ Found(a) = file[a]
    BY DEF Found
  <1>6. s = ScanOf(a, readable)
    BY DEF s
  <1> QED BY <1>1, <1>2, <1>3, <1>4, <1>5, <1>6

LEMMA ScanStep ==
    ASSUME SyncInv, NEW a \in Agent, NEW readable \in BOOLEAN, Scan(a, readable)
    PROVE  SyncInv'
  <1> DEFINE u == Noted(a, readable)
             e == saved.entry[a]
  <1>1. x \in Exchange /\ file \in [Agent -> Content \cup {None}]
    BY DEF SyncInv, SyncTypeOK
  <1>2. /\ x.at = "scan" /\ x'.at = "scan" /\ x'.listed = x.listed
        /\ x'.state = x.state /\ x'.answer = x.answer
        /\ x'.upload = [x.upload EXCEPT ![a] = u]
        /\ x'.found = [x.found EXCEPT ![a] = Found(a)]
        /\ x.incomplete \subseteq x'.incomplete
        /\ MayRead(a) /\ ~ScanOf(a, readable).complete => a \in x'.incomplete
        /\ u \in Upload => x' \in Exchange
        /\ UNCHANGED <<hostSide, saved, proto, relaySide, edits, ghosts>>
    BY <1>1, ScanFields
  <1>3. x.state = saved /\ x.state.entry[a] = e
    BY <1>2 DEF SyncInv, PhaseInv
  <1>4. /\ u = Nothing \/ MayRead(a)
        /\ \/ u = Nothing
           \/ /\ u = [what |-> "content", base |-> e.ver, content |-> file[a]]
              /\ file[a] # None
           \/ /\ u = [what |-> "deleted", base |-> e.ver, content |-> e.content]
              /\ Lives(e)
        /\ Found(a) # None => /\ MayRead(a)
                              /\ ScanOf(a, readable).complete => u.content = Found(a)
    BY <1>3, NotedFields DEF SyncInv
  <1>5. /\ file[a] \in Content \cup {None} /\ file[a] \in Nat /\ file[a] <= edits
        /\ e \in Version /\ edits \in 0 .. MaxEdits /\ known[a] \subseteq 1 .. edits
        /\ Held(e, relay[a], known[a]) /\ Fresh(e, relay[a], file[a], known[a])
    BY Types, Numbers DEF SyncInv, EditInv, HeldInv, CurrentInv
  <1> HIDE DEF u, e
  <1>6. /\ u \in Upload /\ Based(u, e, relay[a], known[a], edits, FALSE)
    <2>1. CASE u = Nothing
      BY <2>1, Numbers DEF Based
    <2>2. CASE u = [what |-> "content", base |-> e.ver, content |-> file[a]]
               /\ file[a] # None
      <3>1. file[a] \in 1 .. edits /\ e.ver \in Nat
        BY <1>5, <2>2, Numbers DEF Version
      <3>2. u.what = "content" /\ u.base = e.ver /\ u.content = file[a]
        BY <2>2
      <3> QED BY <1>5, <2>2, <3>1, <3>2 DEF Based, Upload
    <2>3. CASE u = [what |-> "deleted", base |-> e.ver, content |-> e.content] /\ Lives(e)
      <3>1. e.ver \in Nat /\ e.ver > 0 /\ e.content \in Content \cup {None}
        BY <1>5, <2>3 DEF Lives, Version
      <3>2. e.content \in 1 .. edits
        BY <1>5, <3>1 DEF Held
      <3>3. u.what = "deleted" /\ u.base = e.ver /\ u.content = e.content
        BY <2>3
      <3> QED BY <2>3, <3>1, <3>2, <3>3 DEF Based, Upload
    <2> QED BY <1>4, <2>1, <2>2, <2>3
  <1>7. x' \in Exchange
    BY <1>2, <1>6
  <1>8. /\ x'.upload[a] = u /\ x'.found[a] = Found(a)
        /\ \A b \in Agent \ {a} : x'.upload[b] = x.upload[b] /\ x'.found[b] = x.found[b]
    BY <1>1, <1>2 DEF Exchange
  <1>9. UploadInv'
    <2>1. UNCHANGED <<relay, known>>
      BY <1>2 DEF relaySide, ghosts
    <2>2. ~(x.at = "apply") /\ ~(x'.at = "apply")
      BY <1>2
    <2> QED BY <1>2, <1>6, <1>8, <2>1, <2>2 DEF e, SyncInv, UploadInv, Based
  <1>10. NoContentWithoutConsent'
    <2>1. refused' = refused /\ unsaved' = unsaved /\ refused \subseteq Agent
      BY <1>2 DEF ghosts, consent, SyncInv, SyncTypeOK
    <2>2. proto = "v3" /\ a \in refused \ unsaved => u = Nothing
      BY <1>2, <1>3, <1>4 DEF SyncInv, ConsentInv, MayRead
    <2> QED BY <1>2, <1>8, <2>1, <2>2, Numbers DEF SyncInv, ConsentInv, NoContentWithoutConsent
  <1>11. proto' \in {"v3", "v2", "v1"}
    BY <1>2 DEF SyncInv, SyncTypeOK
  <1>12. SeenInv'
    BY <1>2, <1>4, <1>8 DEF SyncInv, SeenInv
  <1>13. RemovedInv'
    BY <1>2 DEF SyncInv, RemovedInv, ghosts, hostSide
  <1> QED BY <1>2, <1>3, <1>7, <1>9, <1>10, <1>11, <1>12, <1>13, RequestStep

LEMMA EndScanStep ==
    ASSUME SyncInv, EndScan
    PROVE  SyncInv'
  <1>1. /\ x.at = "scan" /\ x' = [x EXCEPT !.at = "post"]
        /\ UNCHANGED <<hostSide, saved, proto, relaySide, edits, ghosts>>
    BY DEF EndScan
  <1>2. /\ x'.at = "post" /\ x'.state = x.state /\ x'.answer = x.answer
        /\ x'.upload = x.upload /\ x'.listed = x.listed /\ x' \in Exchange
        /\ x'.found = x.found /\ x'.incomplete = x.incomplete
    BY <1>1 DEF SyncInv, SyncTypeOK, Exchange
  <1>3. UploadInv'
    <2>1. UNCHANGED <<relay, known>> /\ ~(x.at = "apply") /\ ~(x'.at = "apply")
      BY <1>1, <1>2 DEF relaySide, ghosts
    <2> QED BY <1>1, <1>2, <2>1 DEF SyncInv, UploadInv, Based
  <1>4. NoContentWithoutConsent' /\ proto' \in {"v3", "v2", "v1"}
    BY <1>1, <1>2
    DEF ghosts, consent, SyncInv, SyncTypeOK, ConsentInv, NoContentWithoutConsent
  <1>5. x'.state = saved /\ SeenInv' /\ RemovedInv'
    BY <1>1, <1>2 DEF SyncInv, PhaseInv, SeenInv, RemovedInv, ghosts, hostSide
  <1> QED BY <1>1, <1>2, <1>3, <1>4, <1>5, RequestStep

LEMMA FallBackStep ==
    ASSUME SyncInv, FallBack
    PROVE  SyncInv'
  <1>1. /\ x.at = "post" /\ proto' \in {"v2", "v1"}
        /\ UNCHANGED <<hostSide, saved, x, relaySide, edits, ghosts>>
    BY DEF FallBack
  <1>2. UNCHANGED <<home, file, speaks, relay, connected, known, refused, unsaved, removed>>
    BY <1>1 DEF hostSide, relaySide, ghosts, consent
  <1>3. UploadInv' /\ NoContentWithoutConsent' /\ SeenInv' /\ RemovedInv'
    BY <1>1, <1>2 DEF SyncInv, UploadInv, NoContentWithoutConsent, SeenInv, RemovedInv
  <1>4. x \in Exchange /\ x.state = saved
    BY <1>1 DEF SyncInv, SyncTypeOK, PhaseInv
  <1> QED BY <1>1, <1>3, <1>4, RequestStep

--------------------------------------------------------------------------------
(* The end of an exchange.                                                 *)

\* An exchange ends, with the state file as it was or with the one it made.
LEMMA EndedStep ==
    ASSUME SyncInv, UNCHANGED <<hostSide, relaySide, edits, known, refused, removed>>,
           x' = NoExchange, saved' = saved \/ saved' = x.state,
           proto' \in {"v3", "v2", "v1"}, unsaved' \subseteq Agent,
           (refused \ unsaved') \cap saved'.canonical = {}
    PROVE  SyncInv'
  <1>1. UNCHANGED <<kind, home, file, hidden, speaks, relay, connected>>
    BY DEF hostSide, relaySide
  <1>2. \A a \in Agent : saved'.entry[a] = saved.entry[a] \/ saved'.entry[a] = x.state.entry[a]
    OBVIOUS
  <1>3. \A a \in Agent : /\ x'.upload[a] = Nothing /\ x'.state.entry[a] = NoVersion
                         /\ x'.answer[a] = NoVersion /\ x'.found[a] = None
    BY NoExchangeFields
  <1>4. HeldInv'
    BY <1>1, <1>2, <1>3 DEF SyncInv, HeldInv
  <1>5. SyncTypeOK'
    <2>1. saved' \in State /\ x' \in Exchange
      BY Types, NoExchangeFields DEF SyncInv, SyncTypeOK
    <2>2. \A a \in Agent : saved'.entry[a].ver <= relay'[a].ver
      BY <1>4 DEF HeldInv, Held
    <2> QED BY <1>1, <2>1, <2>2 DEF SyncInv, SyncTypeOK
  <1>6. EditInv'
    BY <1>1 DEF SyncInv, EditInv
  <1>7. CurrentInv'
    <2>1. \A a \in Agent : Fresh(saved'.entry[a], relay[a], file[a], known[a])
      BY <1>2 DEF SyncInv, CurrentInv
    <2>2. \A a \in Agent : Fresh(NoVersion, relay[a], file[a], known[a])
      BY Numbers DEF SyncInv, HeldInv, Held, Fresh
    <2> QED BY <1>1, <1>3, <2>1, <2>2 DEF CurrentInv
  <1>8. UploadInv' /\ ConsentInv' /\ SeenInv'
    <2>1. x'.at = "idle"
      BY NoExchangeFields
    <2> QED BY <1>3, <2>1, Numbers
            DEF UploadInv, Based, ConsentInv, NoContentWithoutConsent, SeenInv
  <1>9. PhaseInv' /\ RemovedInv'
    BY <1>1, NoExchangeFields DEF PhaseInv, RemovedInv, SyncInv
  <1> QED BY <1>4, <1>5, <1>6, <1>7, <1>8, <1>9 DEF SyncInv

LEMMA FailedStep ==
    ASSUME SyncInv, PostFails \/ ApplyRaises \/ Restart
    PROVE  SyncInv'
  <1>1. /\ x' = NoExchange /\ saved' = saved
        /\ proto' = proto \/ proto' = "v3"
        /\ UNCHANGED <<hostSide, relaySide, edits, known, refused, removed>>
        /\ unsaved' = Unsaved \/ (unsaved' = unsaved /\ x.at = "post")
    BY DEF PostFails, ApplyRaises, Restart, ghosts, consent
  <1>2. /\ proto' \in {"v3", "v2", "v1"} /\ unsaved' \subseteq Agent /\ refused \subseteq Agent
        /\ proto \in {"v3", "v2", "v1"}
    BY <1>1 DEF SyncInv, SyncTypeOK, Unsaved
  <1>3. (refused \ unsaved') \cap saved'.canonical = {}
    <2>1. CASE x.at = "apply" /\ proto = "v3"
      <3>1. x.agents \cap refused = {} /\ unsaved' = unsaved \cup (Agent \ x.agents)
        BY <1>1, <2>1 DEF SyncInv, ConsentInv, Unsaved
      <3> QED BY <1>2, <3>1
    <2>2. CASE x.at # "apply" \/ proto # "v3"
      <3>1. /\ (refused \ unsaved) \cap saved.canonical = {}
            /\ unsaved \subseteq unsaved'
        BY <1>1, <2>2 DEF SyncInv, ConsentInv, Unsaved
      <3> QED BY <1>1, <3>1
    <2> QED BY <2>1, <2>2
  <1> QED BY <1>1, <1>2, <1>3, EndedStep

LEMMA SaveStep ==
    ASSUME SyncInv, Save
    PROVE  SyncInv'
  <1>1. /\ x.at = "apply" /\ x' = NoExchange /\ saved' = x.state /\ proto' = proto
        /\ unsaved' = IF proto = "v3" THEN {} ELSE unsaved
        /\ UNCHANGED <<hostSide, relaySide, edits, known, refused, removed>>
    BY DEF Save
  <1>2. /\ x.state.canonical \subseteq x.agents
        /\ proto = "v3" => x.agents \cap refused = {}
        /\ proto # "v3" => x.state.canonical \cap (refused \ unsaved) = {}
    BY <1>1 DEF SyncInv, PhaseInv, ConsentInv
  <1>3. proto' \in {"v3", "v2", "v1"} /\ unsaved' \subseteq Agent
    BY <1>1 DEF SyncInv, SyncTypeOK
  <1>4. (refused \ unsaved') \cap saved'.canonical = {}
    BY <1>1, <1>2
  <1> QED BY <1>1, <1>3, <1>4, EndedStep

--------------------------------------------------------------------------------
(* Relay gets the request.                                                 *)

\* What an upload u, based on the entry e, does to the record r of Relay: what was
\* held stays held, and where the host's entry still knows Relay's deletion the
\* file is none that Relay has had.
LEMMA MergeHolds ==
    ASSUME SyncInv, NEW a \in Agent, x.at = "post",
           relay' = [b \in Agent |-> Merge(relay[b], x.upload[b])],
           known' = [b \in Agent |-> known[b] \cup ({x.upload[b].content} \ {None})]
    PROVE  /\ relay'[a] \in Version
           /\ relay'[a] = relay[a] \/ relay'[a].ver > relay[a].ver
           /\ known[a] \subseteq known'[a] /\ known'[a] \subseteq 1 .. edits
           /\ \A v \in Version : Held(v, relay[a], known[a]) => Held(v, relay'[a], known'[a])
           /\ Held(relay'[a], relay'[a], known'[a])
           /\ Fresh(saved.entry[a], relay'[a], file[a], known'[a])
  <1> DEFINE r == relay[a]
             u == x.upload[a]
             e == saved.entry[a]
             m == Merge(r, u)
             K == known[a] \cup ({u.content} \ {None})
  <1>1. relay'[a] = m /\ known'[a] = K
    OBVIOUS
  <1>2. /\ r \in Version /\ u \in Upload /\ e \in Version
        /\ Held(e, r, known[a]) /\ Held(r, r, known[a])
        /\ Fresh(e, r, file[a], known[a])
        /\ known[a] \subseteq 1 .. edits
        /\ x.at # "apply" /\ Based(u, e, r, known[a], edits, FALSE)
    <2>1. ~(x.at = "apply")
      OBVIOUS
    <2>2. Based(u, e, r, known[a], edits, x.at = "apply")
      BY DEF SyncInv, UploadInv
    <2>3. Based(u, e, r, known[a], edits, FALSE)
      BY <2>1, <2>2 DEF Based
    <2> QED BY <2>3, Types DEF SyncInv, EditInv, HeldInv, CurrentInv
  <1> HIDE DEF r, u, e
  <1>3. /\ m \in Version
        /\ m = r \/ m.ver = r.ver + 1
        /\ m # r => /\ u.base = r.ver /\ u.what # "nothing"
                    /\ u.what = "content" => m.content = u.content
                    /\ u.what = "deleted" => m.content = r.content
        /\ u.what = "content" /\ u.base = r.ver /\ r.deleted => m # r
    BY <1>2, Merged
  <1> HIDE DEF m
  <1>4. /\ r.ver \in Nat /\ e.ver \in Nat /\ m.ver \in Nat
        /\ u.what \in {"nothing", "content", "deleted"}
    BY <1>2, <1>3 DEF Version, Upload
  <1>5. /\ u.what = "nothing" => u.content = None
        /\ u.what # "nothing" => u.content \in 1 .. edits /\ u.base = e.ver
        /\ u.what = "deleted" => Lives(e)
    BY <1>2 DEF Based
  <1>6. /\ known[a] \subseteq K /\ K \subseteq 1 .. edits
        /\ u.what = "nothing" => K = known[a]
        /\ u.what # "nothing" => u.content \in K
    BY <1>2, <1>5, Numbers
  <1> HIDE DEF K
  <1>7. m = r \/ m.ver > r.ver
    BY <1>3, <1>4
  <1>8. \A v \in Version : Held(v, r, known[a]) => Held(v, m, K)
    BY <1>2, <1>3, <1>6, <1>7, HeldGrows
  <1>9. Held(m, m, K)
    <2>1. CASE m = r
      BY <1>2, <1>8, <2>1
    <2>2. CASE m # r /\ u.what = "content"
      BY <1>3, <1>4, <1>6, <2>2 DEF Held
    <2>3. CASE m # r /\ u.what = "deleted"
      <3>1. r.ver = e.ver /\ e.ver > 0 /\ r.content \in known[a]
        BY <1>2, <1>3, <1>4, <1>5, <2>3 DEF Held, Lives
      <3> QED BY <1>3, <1>4, <1>6, <2>3, <3>1 DEF Held
    <2> QED BY <1>3, <1>4, <2>1, <2>2, <2>3
  <1>10. Fresh(e, m, file[a], K)
    <2>1. CASE m # r
      BY <1>2, <1>4, <1>7, <2>1 DEF Held, Fresh
    <2>2. CASE m = r /\ u.what = "nothing"
      BY <1>2, <1>6, <2>2
    <2>3. CASE m = r /\ u.what = "content"
      BY <1>3, <1>5, <2>3 DEF Fresh
    <2>4. CASE m = r /\ u.what = "deleted"
      <3>1. Lives(e) /\ (e.ver = r.ver => e = r)
        BY <1>2, <1>5, <2>4 DEF Held
      <3> QED BY <2>4, <3>1 DEF Fresh, Lives
    <2> QED BY <1>4, <2>1, <2>2, <2>3, <2>4
  <1> QED BY <1>1, <1>3, <1>6, <1>7, <1>8, <1>9, <1>10 DEF r, e

\* The exchange goes on with the answer, or ends where the answer is lost.
LEMMA AnswerFields ==
    ASSUME SyncInv, NEW lost \in BOOLEAN, RelayMerges(lost), relay' \in [Agent -> Version]
    PROVE  /\ x' \in Exchange
           /\ \/ lost /\ x' = NoExchange
              \/ /\ ~lost /\ x'.at = "apply" /\ x'.listed = x.listed
                 /\ x'.upload = x.upload /\ x'.found = x.found
                 /\ x'.incomplete = x.incomplete
                 /\ x'.state.entry = x.state.entry /\ x'.left = x'.agents
                 /\ x'.named = connected
                 /\ x'.agents = IF proto = "v3" THEN connected ELSE Agent
                 /\ x'.state.canonical \subseteq x'.agents \cap x.state.canonical
                 /\ \A a \in Agent : x'.answer[a] = IF relay'[a].ver # x.state.entry[a].ver
                                                    THEN relay'[a] ELSE NoVersion
  <1>1. CASE lost
    BY <1>1, NoExchangeFields DEF RelayMerges
  <1>2. CASE ~lost
    <2> DEFINE G == IF proto = "v3" THEN connected ELSE Agent
               A == AnswerOf(relay', x.state.entry)
    <2>1. x' = [x EXCEPT !.at = "apply", !.agents = G, !.left = G, !.named = connected,
                         !.answer = A, !.state.canonical = Shared(G)]
      BY <1>2 DEF RelayMerges
    <2>2. /\ G \subseteq Agent /\ connected \subseteq Agent
          /\ Shared(G) \subseteq G \cap x.state.canonical /\ Shared(G) \subseteq Agent
      BY Types DEF SyncInv, SyncTypeOK, Shared
    <2>3. /\ A \in [Agent -> Version]
          /\ \A a \in Agent : A[a] = IF relay'[a].ver # x.state.entry[a].ver
                                     THEN relay'[a] ELSE NoVersion
      BY Numbers DEF AnswerOf
    <2> HIDE DEF G, A
    <2>4. x \in Exchange
      BY DEF SyncInv, SyncTypeOK
    <2>5. /\ x'.at = "apply" /\ x'.listed = x.listed /\ x'.upload = x.upload
          /\ x'.found = x.found /\ x'.incomplete = x.incomplete /\ x'.named = connected
          /\ x'.left = G /\ x'.agents = G /\ x'.answer = A
          /\ x'.state.entry = x.state.entry /\ x'.state.canonical = Shared(G)
      BY <2>1, <2>4 DEF Exchange, State
    <2>6. x' \in Exchange
      BY <2>1, <2>2, <2>3, <2>4 DEF Exchange, State
    <2>7. G = IF proto = "v3" THEN connected ELSE Agent
      BY DEF G
    <2> QED BY <1>2, <2>2, <2>3, <2>5, <2>6, <2>7
  <1> QED BY <1>1, <1>2

LEMMA RelayMergesStep ==
    ASSUME SyncInv, NEW lost \in BOOLEAN, RelayMerges(lost)
    PROVE  SyncInv'
  <1>1. /\ x.at = "post"
        /\ relay' = [b \in Agent |-> Merge(relay[b], x.upload[b])]
        /\ known' = [b \in Agent |-> known[b] \cup ({x.upload[b].content} \ {None})]
        /\ UNCHANGED <<kind, home, file, hidden, saved, proto, connected, edits, unsaved,
                       removed>>
        /\ lost => refused' = refused /\ x' = NoExchange
        /\ ~lost => refused' = IF proto = "v3" THEN Agent \ connected
                                               ELSE refused \ connected
    BY DEF RelayMerges, hostSide
  <1>2. \A a \in Agent :
           /\ relay'[a] \in Version
           /\ relay'[a] = relay[a] \/ relay'[a].ver > relay[a].ver
           /\ known[a] \subseteq known'[a] /\ known'[a] \subseteq 1 .. edits
           /\ \A v \in Version : Held(v, relay[a], known[a]) => Held(v, relay'[a], known'[a])
           /\ Held(relay'[a], relay'[a], known'[a])
           /\ Fresh(saved.entry[a], relay'[a], file[a], known'[a])
    BY <1>1, MergeHolds
  <1>3. relay' \in [Agent -> Version] /\ known' \in [Agent -> SUBSET (1 .. edits)]
    BY <1>1, <1>2
  <1>4. x.state = saved
    BY <1>1 DEF SyncInv, PhaseInv
  <1>5. /\ x' \in Exchange
        /\ \/ lost /\ x' = NoExchange
           \/ /\ ~lost /\ x'.at = "apply" /\ x'.listed = x.listed
              /\ x'.upload = x.upload /\ x'.found = x.found
              /\ x'.incomplete = x.incomplete
              /\ x'.state.entry = saved.entry /\ x'.left = x'.agents
              /\ x'.named = connected
              /\ x'.agents = IF proto = "v3" THEN connected ELSE Agent
              /\ x'.state.canonical \subseteq x'.agents \cap saved.canonical
              /\ \A a \in Agent : x'.answer[a] = IF relay'[a].ver # saved.entry[a].ver
                                                 THEN relay'[a] ELSE NoVersion
    BY <1>3, <1>4, AnswerFields
  <1>6. \A a \in Agent : /\ Held(NoVersion, relay'[a], known'[a])
                         /\ Held(saved.entry[a], relay'[a], known'[a])
    BY <1>2, Types, Numbers DEF SyncInv, HeldInv
  <1>7. HeldInv'
    <2>1. \A a \in Agent : x'.state.entry[a] = saved.entry[a] \/ x'.state.entry[a] = NoVersion
      BY <1>5, NoExchangeFields
    <2>2. \A a \in Agent : x'.answer[a] = relay'[a] \/ x'.answer[a] = NoVersion
      BY <1>5, NoExchangeFields
    <2> QED BY <1>1, <1>2, <1>6, <2>1, <2>2 DEF HeldInv
  <1>8. CurrentInv'
    <2>1. \A a \in Agent : Fresh(NoVersion, relay'[a], file[a], known'[a])
      BY <1>6, Numbers DEF Held, Fresh
    <2>2. \A a \in Agent : x'.state.entry[a] = saved.entry[a] \/ x'.state.entry[a] = NoVersion
      BY <1>5, NoExchangeFields
    <2>3. \A a \in Agent : Fresh(x'.state.entry[a], relay'[a], file[a], known'[a])
      BY <1>2, <2>1, <2>2
    <2> QED BY <1>1, <1>2, <2>3 DEF CurrentInv
  <1>9. SyncTypeOK' /\ EditInv'
    <2>1. \A a \in Agent : saved.entry[a].ver <= relay'[a].ver
      BY <1>6 DEF Held
    <2>2. refused' \subseteq Agent
      BY <1>1 DEF SyncInv, SyncTypeOK
    <2>3. UNCHANGED speaks
      BY DEF RelayMerges
    <2> QED BY <1>1, <1>3, <1>5, <2>1, <2>2, <2>3 DEF SyncInv, SyncTypeOK, EditInv
  <1>10. UploadInv' /\ NoContentWithoutConsent' /\ SeenInv'
    <2>1. CASE x' = NoExchange
      BY <1>1, <2>1, NoExchangeFields, Numbers
      DEF UploadInv, Based, NoContentWithoutConsent, SeenInv, SyncInv, SyncTypeOK
    <2>2. CASE /\ x'.at = "apply" /\ x'.upload = x.upload /\ x'.found = x.found
               /\ x'.incomplete = x.incomplete
      <3>1. UploadInv' /\ NoContentWithoutConsent'
        BY <1>1, <2>2 DEF SyncInv, UploadInv, Based, NoContentWithoutConsent
      <3>2. SeenInv'
        BY <1>1, <2>2 DEF SyncInv, SeenInv
      <3> QED BY <3>1, <3>2
    <2> QED BY <1>5, <2>1, <2>2
  <1>11. PhaseInv'
    <2>1. CASE x' = NoExchange
      BY <2>1, NoExchangeFields DEF PhaseInv
    <2>2. CASE x' # NoExchange
      <3>1. \A a \in Agent : x'.answer[a].ver > 0 => saved.entry[a].ver < x'.answer[a].ver
        <4> SUFFICES ASSUME NEW a \in Agent, x'.answer[a].ver > 0
                     PROVE  saved.entry[a].ver < x'.answer[a].ver
          OBVIOUS
        <4>1. x'.answer[a] = relay'[a] /\ relay'[a].ver # saved.entry[a].ver
          BY <1>5, <2>2, Numbers
        <4>2. saved.entry[a].ver <= relay'[a].ver
          BY <1>6 DEF Held
        <4>3. saved.entry[a].ver \in Nat /\ relay'[a].ver \in Nat
          BY <1>2, Types DEF SyncInv, Version
        <4> QED BY <4>1, <4>2, <4>3
      <3> QED BY <1>1, <1>5, <2>2, <3>1 DEF PhaseInv
    <2> QED BY <2>1, <2>2
  <1>12. ConsentInv'
    <2>1. (refused \ unsaved) \cap saved.canonical = {}
      BY <1>1 DEF SyncInv, ConsentInv
    <2>2. CASE lost
      BY <1>1, <1>10, <2>1, <2>2, NoExchangeFields DEF ConsentInv
    <2>3. CASE ~lost
      <3>1. /\ x'.at = "apply" /\ x'.named = connected
            /\ x'.agents = IF proto = "v3" THEN connected ELSE Agent
            /\ x'.state.canonical \subseteq saved.canonical
        BY <1>5, <2>3
      <3> QED BY <1>1, <1>10, <2>1, <2>3, <3>1 DEF ConsentInv
    <2> QED BY <2>2, <2>3
  <1>13. RemovedInv'
    BY <1>1, <1>5, NoExchangeFields DEF SyncInv, RemovedInv
  <1> QED BY <1>7, <1>8, <1>9, <1>10, <1>11, <1>12, <1>13 DEF SyncInv

--------------------------------------------------------------------------------
(* The answer, one agent after the other.                                  *)

LEMMA ApplyFields ==
    ASSUME SyncTypeOK, NEW a \in Agent, Apply(a)
    PROVE  /\ x.at = "apply" /\ a \in x.left /\ x'.at = "apply"
           /\ x'.left = x.left \ {a} /\ x'.listed = x.listed /\ x'.agents = x.agents
           /\ x'.upload = x.upload /\ x'.answer = x.answer /\ x'.found = x.found
           /\ x'.incomplete = x.incomplete /\ x'.named = x.named /\ x' \in Exchange
           /\ x'.state.canonical \subseteq x.state.canonical \cup ({a} \cap x.named)
           /\ UNCHANGED <<kind, hidden, saved, proto, speaks, relay, connected, edits, known,
                          refused, unsaved, removed>>
           /\ home' \in [Agent -> BOOLEAN]
           /\ \A b \in Agent : home[b] => home'[b]
           /\ \A b \in Agent : b # a \/ Skipped(a) => home'[b] = home[b]
           /\ \/ x'.state.entry = x.state.entry /\ file' = file
              \/ /\ ~Skipped(a) /\ Wanted(a) /\ ~Preserved(a)
                 /\ x'.state.entry = [x.state.entry EXCEPT ![a] = x.answer[a]]
                 /\ file' = [file EXCEPT ![a] = FileAfter(a)]
                 /\ ~x.answer[a].deleted => home'[a]
  <1>1. /\ x \in Exchange /\ Registered(a) \subseteq Agent /\ home \in [Agent -> BOOLEAN]
        /\ Registered(a) \subseteq x.state.canonical \cup ({a} \cap x.named)
    BY Types DEF SyncTypeOK, Registered
  <1>2. /\ x.at = "apply" /\ a \in x.left
        /\ UNCHANGED <<kind, hidden, saved, proto, speaks, relay, connected, edits, known,
                       refused, unsaved, removed>>
    BY DEF Apply, relaySide, ghosts, consent
  <1>3. CASE Skipped(a)
    <2>1. x' = [x EXCEPT !.left = @ \ {a}] /\ file' = file /\ home' = home
      BY <1>3 DEF Apply
    <2>2. /\ x'.at = x.at /\ x'.left = x.left \ {a} /\ x'.listed = x.listed
          /\ x'.agents = x.agents /\ x'.upload = x.upload /\ x'.answer = x.answer
          /\ x'.found = x.found /\ x'.incomplete = x.incomplete /\ x'.named = x.named
          /\ x'.state = x.state /\ x' \in Exchange
      BY <1>1, <2>1 DEF Exchange
    <2> QED BY <1>1, <1>2, <2>1, <2>2
  <1>4. CASE ~Skipped(a) /\ (~Wanted(a) \/ Preserved(a))
    <2>1. /\ x' = [x EXCEPT !.left = @ \ {a}, !.state.canonical = Registered(a)]
          /\ file' = file
          /\ home' = [home EXCEPT ![a] = IF Answered(a) THEN HomeAfter(a) ELSE @]
      BY <1>4 DEF Apply
    <2>2. /\ x'.at = x.at /\ x'.left = x.left \ {a} /\ x'.listed = x.listed
          /\ x'.agents = x.agents /\ x'.upload = x.upload /\ x'.answer = x.answer
          /\ x'.found = x.found /\ x'.incomplete = x.incomplete /\ x'.named = x.named
          /\ x'.state.entry = x.state.entry /\ x'.state.canonical = Registered(a)
      BY <1>1, <2>1 DEF Exchange, State
    <2>3. x' \in Exchange
      BY <1>1, <2>1 DEF Exchange, State
    <2>4. /\ home' \in [Agent -> BOOLEAN]
          /\ \A b \in Agent : (home[b] => home'[b]) /\ (b # a => home'[b] = home[b])
      BY <1>1, <2>1 DEF HomeAfter
    <2> QED BY <1>1, <1>2, <1>4, <2>1, <2>2, <2>3, <2>4
  <1>5. CASE ~Skipped(a) /\ Wanted(a) /\ ~Preserved(a)
    <2>1. /\ x' = [x EXCEPT !.left = @ \ {a}, !.state.canonical = Registered(a),
                            !.state.entry[a] = EntryAfter(a)]
          /\ file' = [file EXCEPT ![a] = FileAfter(a)]
          /\ home' = [home EXCEPT ![a] = HomeAfter(a) \/ ~x.answer[a].deleted]
      BY <1>5 DEF Apply
    <2>2. EntryAfter(a) = x.answer[a] /\ x.answer[a] \in Version
      BY Types DEF EntryAfter
    <2>3. /\ x'.at = x.at /\ x'.left = x.left \ {a} /\ x'.listed = x.listed
          /\ x'.agents = x.agents /\ x'.upload = x.upload /\ x'.answer = x.answer
          /\ x'.found = x.found /\ x'.incomplete = x.incomplete /\ x'.named = x.named
          /\ x'.state.entry = [x.state.entry EXCEPT ![a] = EntryAfter(a)]
          /\ x'.state.canonical = Registered(a)
      BY <1>1, <2>1 DEF Exchange, State
    <2>4. x' \in Exchange
      BY <1>1, <2>1, <2>2 DEF Exchange, State
    <2>5. /\ home' \in [Agent -> BOOLEAN] /\ (~x.answer[a].deleted => home'[a])
          /\ \A b \in Agent : (home[b] => home'[b]) /\ (b # a => home'[b] = home[b])
      BY <1>1, <2>1, <2>2 DEF HomeAfter, Version
    <2> QED BY <1>1, <1>2, <1>5, <2>1, <2>2, <2>3, <2>4, <2>5
  <1> QED BY <1>3, <1>4, <1>5

LEMMA ApplyStep ==
    ASSUME SyncInv, NEW a \in Agent, Apply(a)
    PROVE  SyncInv'
  <1> DEFINE v == x.answer[a]
  <1>1. /\ x.at = "apply" /\ a \in x.left /\ x'.at = "apply"
        /\ x'.left = x.left \ {a} /\ x'.listed = x.listed /\ x'.agents = x.agents
        /\ x'.upload = x.upload /\ x'.answer = x.answer /\ x'.found = x.found
        /\ x'.incomplete = x.incomplete /\ x'.named = x.named /\ x' \in Exchange
        /\ x'.state.canonical \subseteq x.state.canonical \cup ({a} \cap x.named)
        /\ UNCHANGED <<kind, hidden, saved, proto, speaks, relay, connected, edits, known,
                       refused, unsaved, removed>>
        /\ home' \in [Agent -> BOOLEAN]
        /\ \A b \in Agent : home[b] => home'[b]
        /\ \A b \in Agent : b # a \/ Skipped(a) => home'[b] = home[b]
        /\ \/ x'.state.entry = x.state.entry /\ file' = file
           \/ /\ ~Skipped(a) /\ Wanted(a) /\ ~Preserved(a)
              /\ x'.state.entry = [x.state.entry EXCEPT ![a] = v]
              /\ file' = [file EXCEPT ![a] = FileAfter(a)]
              /\ ~v.deleted => home'[a]
    BY ApplyFields DEF SyncInv
  <1>2. PhaseInv /\ a \in x.agents
    BY <1>1 DEF SyncInv, PhaseInv
  <1>3. /\ v \in Version /\ relay[a] \in Version /\ saved.entry[a] \in Version
        /\ Held(v, relay[a], known[a])
        /\ known[a] \subseteq 1 .. edits /\ edits \in 0 .. MaxEdits
        /\ v.ver > 0 => saved.entry[a].ver < v.ver
    BY <1>1, Types DEF SyncInv, EditInv, HeldInv, PhaseInv
  <1>4. x.state.entry \in [Agent -> Version] /\ file \in [Agent -> Content \cup {None}]
    BY Types DEF SyncInv, SyncTypeOK
  <1>5. UploadInv' /\ ConsentInv' /\ SeenInv' /\ RemovedInv'
    <2>1. UploadInv' /\ SeenInv'
      BY <1>1 DEF SyncInv, UploadInv, SeenInv
    <2>2. ConsentInv'
      BY <1>1 DEF SyncInv, ConsentInv, NoContentWithoutConsent
    <2>3. RemovedInv'
      <3>1. removed \subseteq Native \cap Agent
        BY Types, Numbers DEF SyncInv
      <3>2. a \in removed => Skipped(a)
        BY <3>1 DEF SyncInv, RemovedInv, Skipped
      <3> QED BY <1>1, <3>1, <3>2 DEF SyncInv, RemovedInv
    <2> QED BY <2>1, <2>2, <2>3
  <1>6. CASE x'.state.entry = x.state.entry /\ file' = file
    <2>1. SyncTypeOK' /\ EditInv' /\ HeldInv' /\ CurrentInv'
      BY <1>1, <1>6 DEF SyncInv, SyncTypeOK, EditInv, HeldInv, CurrentInv
    <2>2. PhaseInv'
      BY <1>1, <1>2, <1>6 DEF PhaseInv
    <2> QED BY <1>5, <2>1, <2>2 DEF SyncInv
  <1>7. CASE /\ Wanted(a)
             /\ x'.state.entry = [x.state.entry EXCEPT ![a] = v]
             /\ file' = [file EXCEPT ![a] = FileAfter(a)]
             /\ ~v.deleted => home'[a]
    <2>1. v.ver > 0
      BY <1>7 DEF Wanted, Answered
    <2>2. FileAfter(a) = IF v.deleted THEN None ELSE v.content
      BY DEF FileAfter
    <2> HIDE DEF v
    <2>3. /\ v.content \in 1 .. edits /\ v.content \in known[a]
          /\ v.content \in Content \cup {None}
      BY <1>3, <2>1 DEF Held, Version
    <2>4. /\ FileAfter(a) \in Content \cup {None} /\ FileAfter(a) <= edits
          /\ FileAfter(a) # None => ~v.deleted
      BY <1>3, <2>2, <2>3, Numbers
    <2>5. \A b \in Agent :
             /\ x'.state.entry[b] = IF b = a THEN v ELSE x.state.entry[b]
             /\ file'[b] = IF b = a THEN FileAfter(a) ELSE file[b]
      BY <1>4, <1>7
    <2>6. file' \in [Agent -> Content \cup {None}]
      BY <1>4, <1>7, <2>4
    <2>7. SyncTypeOK'
      BY <1>1, <2>6 DEF SyncInv, SyncTypeOK
    <2>8. EditInv'
      <3>1. \A b \in Agent : file'[b] <= edits /\ (file'[b] # None => home'[b])
        BY <1>1, <1>7, <2>4, <2>5 DEF SyncInv, EditInv
      <3> QED BY <1>1, <3>1 DEF SyncInv, EditInv
    <2>9. HeldInv'
      <3>1. \A b \in Agent : Held(x'.state.entry[b], relay[b], known[b])
        BY <1>3, <2>5 DEF SyncInv, HeldInv
      <3> QED BY <1>1, <3>1 DEF SyncInv, HeldInv
    <2>10. CurrentInv'
      <3> SUFFICES ASSUME NEW b \in Agent
                   PROVE  /\ Fresh(saved.entry[b], relay[b], file'[b], known[b])
                          /\ Fresh(x'.state.entry[b], relay[b], file'[b], known[b])
        BY <1>1 DEF CurrentInv
      <3>1. CASE b = a
        <4>1. Fresh(saved.entry[a], relay[a], file'[a], known[a])
          <5>1. saved.entry[a].ver # relay[a].ver
            BY <1>3, <2>1 DEF Held, Version
          <5> QED BY <5>1 DEF Fresh
        <4>2. Fresh(v, relay[a], file'[a], known[a])
          <5>1. v.ver = relay[a].ver => v = relay[a]
            BY <1>3 DEF Held
          <5>2. None \notin known[a]
            BY <1>3, Numbers
          <5> QED BY <2>2, <2>5, <5>1, <5>2 DEF Fresh
        <4> QED BY <2>5, <3>1, <4>1, <4>2
      <3>2. CASE b # a
        BY <2>5, <3>2 DEF SyncInv, CurrentInv
      <3> QED BY <3>1, <3>2
    <2>11. PhaseInv'
      <3>1. \A b \in x'.left : x'.state.entry[b] = saved.entry[b]
        BY <1>1, <1>2, <2>5, Types DEF PhaseInv, SyncInv
      <3> QED BY <1>1, <1>2, <3>1 DEF PhaseInv
    <2> QED BY <1>5, <2>7, <2>8, <2>9, <2>10, <2>11 DEF SyncInv
  <1> QED BY <1>1, <1>6, <1>7

--------------------------------------------------------------------------------
(* The invariant.                                                          *)

LEMMA SyncInitInv == SyncInit => SyncInv
  <1> SUFFICES ASSUME SyncInit
               PROVE  SyncInv
    OBVIOUS
  <1>1. /\ kind \in Kinds /\ hidden = {} /\ unsaved = {} /\ removed = {}
        /\ home = [a \in Agent |-> TRUE] /\ file = [a \in Agent |-> None]
        /\ saved = NoExchange.state /\ proto = "v3" /\ x = NoExchange
        /\ relay = [a \in Agent |-> NoVersion] /\ connected = {} /\ edits = 0
        /\ known = [a \in Agent |-> {}] /\ refused = {}
    BY DEF SyncInit
  <1>2. \A a \in Agent :
           /\ home[a] /\ file[a] = None /\ relay[a] = NoVersion /\ known[a] = {}
           /\ saved.entry[a] = NoVersion /\ x.state.entry[a] = NoVersion
           /\ x.answer[a] = NoVersion /\ x.upload[a] = Nothing /\ x.found[a] = None
    BY <1>1, NoExchangeFields
  <1>3. SyncTypeOK
    <2>1. /\ home \in [Agent -> BOOLEAN] /\ file \in [Agent -> Content \cup {None}]
          /\ relay \in [Agent -> Version] /\ saved \in State /\ x \in Exchange
      BY <1>1, NoExchangeFields, Numbers
    <2>2. \A a \in Agent : saved.entry[a].ver <= relay[a].ver
      BY <1>2, Numbers
    <2> QED BY <1>1, <2>1, <2>2 DEF SyncTypeOK
  <1>4. EditInv
    BY <1>1, <1>2, Numbers DEF EditInv
  <1>5. HeldInv /\ CurrentInv
    BY <1>2, Numbers DEF HeldInv, CurrentInv, Held, Fresh
  <1>6. UploadInv /\ SeenInv
    BY <1>2, Numbers DEF UploadInv, Based, SeenInv
  <1>7. PhaseInv /\ ConsentInv /\ RemovedInv
    BY <1>1, NoExchangeFields DEF PhaseInv, ConsentInv, NoContentWithoutConsent, RemovedInv
  <1> QED BY <1>3, <1>4, <1>5, <1>6, <1>7 DEF SyncInv

LEMMA SyncNextInv == SyncInv /\ [SyncNext]_syncVars => SyncInv'
  <1> SUFFICES ASSUME SyncInv, [SyncNext]_syncVars
               PROVE  SyncInv'
    OBVIOUS
  <1>1. ASSUME NEW lost \in BOOLEAN, RelayMerges(lost) PROVE SyncInv'
    BY <1>1, RelayMergesStep
  <1>2. ASSUME NEW a \in Agent, NEW readable \in BOOLEAN, Scan(a, readable) PROVE SyncInv'
    BY <1>2, ScanStep
  <1>3. ASSUME NEW a \in Agent,
               \/ Apply(a) \/ Edit(a) \/ Delete(a) \/ Hide(a) \/ Vanish(a) \/ Remove(a)
               \/ Provision(a) \/ RelayEdit(a) \/ RelayDelete(a) \/ ConnectAgent(a)
        PROVE  SyncInv'
    BY <1>3, ApplyStep, EditStep, DeleteStep, HideStep, VanishStep, RemoveStep, ProvisionStep,
       RelayEditStep, RelayDeleteStep, ConnectAgentStep
  <1>4. CASE Begin \/ EndScan \/ FallBack \/ PostFails \/ ApplyRaises \/ Save \/ Restart
    BY <1>4, BeginStep, EndScanStep, FallBackStep, FailedStep, SaveStep
  <1>5. CASE UNCHANGED syncVars
    <2>1. UNCHANGED <<kind, home, file, hidden, saved, proto, x, speaks, relay, connected,
                      edits, known, refused, unsaved, removed>>
      BY <1>5 DEF syncVars
    <2> QED BY <2>1 DEF SyncInv, SyncTypeOK, EditInv, HeldInv, CurrentInv, UploadInv,
                        SeenInv, PhaseInv, ConsentInv, NoContentWithoutConsent, RemovedInv
  <1> QED BY <1>1, <1>2, <1>3, <1>4, <1>5 DEF SyncNext

\* What the host holds of a document is always what Relay had, and what it asks Relay
\* for is based on its state file: the invariant of every exchange, whatever agents,
\* users, removals and Relay do beside it.
THEOREM SyncInvariance == SyncSpec => []SyncInv
  BY SyncInitInv, SyncNextInv, PTL DEF SyncSpec

\* The state is well typed, no entry is ahead of Relay, and with the newest protocol no
\* content is on its way for an agent that the last answer did not call connected.
THEOREM SyncConsistency == SyncSpec => []SyncConsistent
  <1>1. SyncInv => SyncConsistent
    BY DEF SyncInv, ConsentInv, SyncConsistent
  <1> QED BY <1>1, SyncInvariance, PTL

--------------------------------------------------------------------------------
(* What a step may not do.                                                 *)

\* Only the application of an answer changes a file or a directory in a step of an
\* exchange, only a request changes Relay's records, and only a scan the uploads,
\* unless the exchange begins or ends.
LEMMA ExchangeSteps ==
    ASSUME SyncInv, SyncNext, x' # x
    PROVE  /\ (file' = file /\ home' = home) \/ \E a \in Agent : Apply(a)
           /\ relay' = relay \/ \E lost \in BOOLEAN : RelayMerges(lost)
           /\ \/ x'.upload = x.upload \/ x'.upload = NoExchange.upload
              \/ \E a \in Agent, readable \in BOOLEAN : Scan(a, readable)
  <1>1. x \in Exchange /\ SyncTypeOK
    BY DEF SyncInv, SyncTypeOK
  <1>2. CASE Begin
    BY <1>2, NoExchangeFields DEF Begin, Exchange, hostSide, relaySide
  <1>3. CASE EndScan
    BY <1>1, <1>3 DEF EndScan, Exchange, hostSide, relaySide
  <1>4. CASE FallBack \/ PostFails \/ ApplyRaises \/ Save \/ Restart
    BY <1>4 DEF FallBack, PostFails, ApplyRaises, Save, Restart, hostSide, relaySide
  <1>5. ASSUME NEW lost \in BOOLEAN, RelayMerges(lost)
        PROVE  file' = file /\ home' = home
               /\ (x'.upload = x.upload \/ x'.upload = NoExchange.upload)
    <2>1. file' = file /\ home' = home
      BY <1>5 DEF RelayMerges, hostSide
    <2>2. CASE lost
      BY <1>5, <2>1, <2>2 DEF RelayMerges
    <2>3. CASE ~lost
      BY <1>1, <1>5, <2>1, <2>3 DEF RelayMerges, Exchange
    <2> QED BY <2>2, <2>3
  <1>6. ASSUME NEW a \in Agent, NEW readable \in BOOLEAN, Scan(a, readable)
        PROVE  UNCHANGED <<file, home, relay>>
    BY <1>6 DEF Scan, hostSide, relaySide
  <1>7. ASSUME NEW a \in Agent, Apply(a)
        PROVE  relay' = relay /\ x'.upload = x.upload
    BY <1>1, <1>7, ApplyFields
  <1>8. ASSUME NEW a \in Agent,
               \/ Edit(a) \/ Delete(a) \/ Hide(a) \/ Vanish(a) \/ Remove(a)
               \/ Provision(a) \/ RelayEdit(a) \/ RelayDelete(a) \/ ConnectAgent(a)
        PROVE  FALSE
    BY <1>8 DEF Edit, Delete, Hide, Vanish, Remove, Gone, Provision, RelayEdit, RelayDelete,
                ConnectAgent
  <1> QED BY <1>2, <1>3, <1>4, <1>5, <1>6, <1>7, <1>8 DEF SyncNext

\* A content that the exchange's own scan could send is not lost to Relay's answer
\* before Relay has had it, and where the host has an entry no edit is, whatever files
\* and records change between the scan and the answer.
THEOREM NoUnseenEditIsLost == SyncSpec => UnseenEditIsKept
  <1>1. ASSUME SyncInv, SyncNext, x' # x, NEW a \in Agent, file[a] # None,
               file'[a] # file[a]
        PROVE  \/ file[a] \in known[a]
               \/ /\ file[a] # x.found[a]
                  /\ ~Lives(x.state.entry[a]) \/ file[a] \in Garbled
    <2>1. PICK b \in Agent : Apply(b)
      BY <1>1, ExchangeSteps
    <2>2. /\ x.at = "apply" /\ b \in x.left /\ Wanted(b) /\ ~Preserved(b)
          /\ file' = [file EXCEPT ![b] = FileAfter(b)]
      BY <1>1, <2>1, ApplyFields DEF SyncInv
    <2>3. b = a
      BY <1>1, <2>2 DEF SyncInv, SyncTypeOK
    <2>4. CASE file[a] = x.found[a]
      <3>1. a \notin x.incomplete
        BY <2>2, <2>3 DEF Wanted, Answered
      <3> QED BY <1>1, <2>2, <2>4, <3>1 DEF SyncInv, SeenInv
    <2>5. CASE Lives(x.state.entry[a]) /\ file[a] \notin Garbled
      <3>1. /\ x.answer[a].ver > 0 /\ x.state.entry[a].ver > 0
            /\ x.answer[a].ver # x.state.entry[a].ver
        <4>1. x.answer[a].ver > 0 /\ x.state.entry[a].ver > 0
          BY <2>2, <2>3, <2>5 DEF Wanted, Answered, Lives
        <4>2. x.state.entry[a] = saved.entry[a] /\ saved.entry[a].ver < x.answer[a].ver
          BY <1>1, <2>2, <2>3, <4>1 DEF SyncInv, PhaseInv
        <4>3. saved.entry[a].ver \in Nat /\ x.answer[a].ver \in Nat
          BY <1>1, Types DEF SyncInv, Version
        <4> QED BY <4>1, <4>2, <4>3
      <3>2. x.answer[a].content \in known[a] /\ x.state.entry[a].content \in known[a]
        BY <1>1, <3>1 DEF SyncInv, HeldInv, Held
      <3> QED BY <1>1, <2>2, <2>3, <2>5, <3>1, <3>2 DEF Preserved
    <2> QED BY <2>4, <2>5
  <1>2. SyncInv /\ [SyncNext]_syncVars
        => [\A a \in Agent :
              x' # x /\ file[a] # None /\ file'[a] # file[a] =>
                  \/ file[a] \in known[a]
                  \/ /\ file[a] # x.found[a]
                     /\ ~Lives(x.state.entry[a]) \/ file[a] \in Garbled]_syncVars
    BY <1>1
  <1> QED BY <1>2, SyncInvariance, PTL DEF SyncSpec, UnseenEditIsKept

\* What a request calls deleted was looked for in a directory that is there, and is not
\* there or is one that a scan passes over; and with the newest protocol its agent is
\* one whose consent the state file holds.
THEOREM TombstonesAreTruthful == SyncSpec => TombstoneIsTruthful
  <1>1. ASSUME SyncInv, SyncNext, NEW a \in Agent,
               x.upload[a].what # "deleted", x'.upload[a].what = "deleted"
        PROVE  /\ home[a] /\ (file[a] = None \/ PassedOver(a))
               /\ proto = "v3" => a \in saved.canonical
    <2>1. x' # x /\ x'.upload # x.upload /\ x'.upload # NoExchange.upload
      BY <1>1, NoExchangeFields, Numbers
    <2>2. PICK b \in Agent, readable \in BOOLEAN : Scan(b, readable)
      BY <1>1, <2>1, ExchangeSteps
    <2>3. x \in Exchange /\ SyncTypeOK /\ file \in [Agent -> Content \cup {None}]
      BY <1>1 DEF SyncInv, SyncTypeOK
    <2>4. x'.upload = [x.upload EXCEPT ![b] = Noted(b, readable)] /\ x.at = "scan"
      BY <2>2, <2>3, ScanFields
    <2>5. b = a /\ Noted(a, readable).what = "deleted"
      BY <1>1, <2>3, <2>4 DEF Exchange
    <2>6. home[a] /\ (file[a] = None \/ PassedOver(a)) /\ MayRead(a)
      BY <2>3, <2>5, NotedFields, Numbers
    <2>7. x.state = saved
      BY <1>1, <2>4 DEF SyncInv, PhaseInv
    <2> QED BY <2>6, <2>7 DEF MayRead
  <1>2. SyncInv /\ [SyncNext]_syncVars
        => [\A a \in Agent :
              x.upload[a].what # "deleted" /\ x'.upload[a].what = "deleted" =>
                  /\ home[a] /\ (file[a] = None \/ PassedOver(a))
                  /\ proto = "v3" => a \in saved.canonical]_syncVars
    BY <1>1
  <1> QED BY <1>2, SyncInvariance, PTL DEF SyncSpec, TombstoneIsTruthful

\* Neither a document that Relay has deleted nor the home of a profile that a native
\* removal removed is brought back by an exchange, whatever the user does beside it.
THEOREM NothingRevives == SyncSpec => NothingComesBack
  <1>1. ASSUME SyncInv, SyncNext, x' # x, NEW a \in Agent,
               relay[a].deleted, ~relay'[a].deleted
        PROVE  relay'[a].content \notin known[a]
    <2>1. PICK lost \in BOOLEAN : RelayMerges(lost)
      BY <1>1, ExchangeSteps
    <2>2. x.at = "post" /\ relay'[a] = Merge(relay[a], x.upload[a])
      BY <2>1 DEF RelayMerges
    <2>3. relay[a] \in Version /\ x.upload[a] \in Upload
      BY <1>1, Types DEF SyncInv
    <2>4. /\ x.upload[a].what = "content" /\ x.upload[a].base = relay[a].ver
          /\ relay'[a].content = x.upload[a].content
      BY <1>1, <2>2, <2>3, Merged
    <2>5. ~(x.at = "apply")
      BY <2>2
    <2>6. /\ x.upload[a].base = saved.entry[a].ver
          /\ Fresh(saved.entry[a], relay[a], x.upload[a].content, known[a])
      BY <1>1, <2>4, <2>5 DEF SyncInv, UploadInv, Based
    <2> QED BY <1>1, <2>4, <2>6 DEF Fresh
  <1>2. ASSUME SyncInv, SyncNext, x' # x, NEW a \in removed
        PROVE  ~home'[a]
    <2>1. a \in Agent /\ a \in Native
      BY <1>2, Types, Numbers DEF SyncInv
    <2>2. a \notin x.listed /\ ~home[a]
      BY <1>2 DEF SyncInv, RemovedInv
    <2>3. CASE home' = home
      BY <2>2, <2>3
    <2>4. CASE \E b \in Agent : Apply(b)
      <3>1. PICK b \in Agent : Apply(b)
        BY <2>4
      <3>2. a # b \/ Skipped(b) => home'[a] = home[a]
        BY <1>2, <2>1, <3>1, ApplyFields DEF SyncInv
      <3>3. b = a => Skipped(b)
        BY <2>1, <2>2 DEF Skipped
      <3> QED BY <2>2, <3>2, <3>3
    <2> QED BY <1>2, <2>3, <2>4, ExchangeSteps
  <1>3. SyncInv /\ [SyncNext]_syncVars
        => [/\ \A a \in Agent :
                 x' # x /\ relay[a].deleted /\ ~relay'[a].deleted =>
                     relay'[a].content \notin known[a]
            /\ \A a \in removed : x' # x => ~home'[a]]_syncVars
    BY <1>1, <1>2
  <1> QED BY <1>3, SyncInvariance, PTL DEF SyncSpec, NothingComesBack

================================================================================
