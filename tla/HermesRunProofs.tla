---------------------------- MODULE HermesRunProofs ----------------------------
(***************************************************************************)
(* Proofs about HermesRun for every value of its constants.                *)
(***************************************************************************)
EXTENDS HermesRun, FiniteSetTheorems, SequenceTheorems, TLAPS

--------------------------------------------------------------------------------
\* The inductive invariant of the execution locks.

\* The worker is inside _scoped_execution, from counting itself to leaving.
InScope(d) == \/ pc[d] \in ScopedPC
              \/ pc[d] \in {"emit", "put"} /\ out[d].then \in {"deref", "release"}

\* The worker has recorded itself as the owner and not yet come to the finally.
MayOwn(d) == \/ pc[d] \in CriticalPC \cup {"owned", "release"}
             \/ pc[d] \in {"emit", "put"} /\ out[d].then = "release"

Users(o) == {d \in Dispatch : obj[d] = o}

\* Only an event about to be emitted leads anywhere but to the finally.
OutInv == \A d \in Dispatch :
              pc[d] \notin {"emit", "put"} => out[d].then = "final"

\* Runs of one key use one lock object, the registered one.
ObjInv == /\ \A d \in Dispatch : obj[d] # NoDispatch <=> InScope(d)
          /\ \A d \in Dispatch : obj[d] # NoDispatch => obj[d] = entry[KeyOf[d]]

EntryInv == \A k \in Key : entry[k] # NoDispatch =>
                /\ KeyOf[entry[k]] = k
                /\ \E d \in Dispatch : KeyOf[d] = k /\ obj[d] = entry[k]

RefInv == \A o \in Dispatch : ref[o] = Cardinality(Users(o))

\* A recorded owner is inside and has the lock.
OwnerInv == \A o, d \in Dispatch :
                owner[o] = d => obj[d] = o /\ MayOwn(d) /\ held[o]

\* Between lock.acquire and the recording the lock has no owner, and only one
\* run is there.
GotInv == /\ \A d \in Dispatch : pc[d] = "got" =>
                 held[obj[d]] /\ owner[obj[d]] = NoDispatch
          /\ \A d, e \in Dispatch :
                 pc[d] = "got" /\ pc[e] = "got" /\ obj[d] = obj[e] => d = e

\* A run without a terminal event cannot have lost the lock it acquired.
UnsettledOwns == \A d \in Dispatch :
                     MayOwn(d) /\ run[d].terminal = None => owner[obj[d]] = d

\* Whoever settles a run has marked it first.
MarkedInv == /\ loop.d # NoDispatch /\ loop.at \in {"put", "record", "release", "done"}
                    => run[loop.d].terminal # None
             /\ \A d \in Dispatch :
                    timer[d].at \in {"put", "record", "release", "done"}
                       => run[d].terminal # None

\* A dispatch the ledger does not know has left no trace in the process.
FreshInv == \A d \in Dispatch : ledger[d] = None =>
                /\ pc[d] = None /\ d \notin runs
                /\ timer[d].at = "off" /\ loop.d # d

\* An event about to be emitted is a terminal one; a run whose worker has come
\* to its last steps, or that somebody settles, is marked.
OutcomeInv == \A d \in Dispatch :
                  /\ pc[d] \in {"emit", "put"} => out[d].kind # None
                  /\ pc[d] = "save" => out[d].kind = "completed"
                  /\ pc[d] \in {"put", "record", "quit", "end"}
                        => run[d].terminal # None
                  /\ timer[d].at \notin {"off", "armed"} => timer[d].kind # None

LockInv == /\ OutInv /\ ObjInv /\ EntryInv /\ RefInv /\ OwnerInv /\ GotInv
           /\ LockedByALivingRun

\* A step that leaves the lock objects alone and moves workers only where their
\* relation to them stays the same.
Drift == /\ UNCHANGED <<obj, lockVars>>
         /\ OutInv'
         /\ \A d \in Dispatch : /\ InScope(d)' <=> InScope(d)
                                /\ MayOwn(d)' <=> MayOwn(d)
                                /\ pc'[d] = "got" <=> pc[d] = "got"

SettleInv == MarkedInv /\ FreshInv /\ OutcomeInv /\ SettledHasOutcome

IInv == TypeOK /\ LockInv /\ SettleInv /\ UnsettledOwns

--------------------------------------------------------------------------------
\* The users of a lock object are finitely many, so ref_count is their number.
LEMMA UsersFinite == ASSUME NEW o PROVE IsFiniteSet(Users(o))
BY RunAssumption, FS_Subset DEF Users

\* A drift keeps what is known of the locks.
LEMMA DriftStep == ASSUME LockInv, Drift PROVE LockInv'
<1>1. ObjInv'
  BY DEF LockInv, Drift, ObjInv, lockVars
<1>2. EntryInv'
  BY DEF LockInv, Drift, EntryInv, lockVars
<1>3. RefInv'
  BY DEF LockInv, Drift, RefInv, Users, lockVars
<1>4. OwnerInv'
  BY DEF LockInv, Drift, OwnerInv, lockVars
<1>5. GotInv'
  BY DEF LockInv, Drift, GotInv, lockVars
<1>6. LockedByALivingRun'
  BY DEF LockInv, Drift, LockedByALivingRun, lockVars
<1> QED BY <1>1, <1>2, <1>3, <1>4, <1>5, <1>6 DEF LockInv, Drift

\* One worker has moved.
Moved(d) == /\ UNCHANGED <<obj, lockVars>>
            /\ \A e \in Dispatch \ {d} : pc'[e] = pc[e] /\ out'[e] = out[e]

\* The step of one worker that leaves the locks alone and moves within the same
\* region of the protocol keeps what the other lemmas need of a drift.
LEMMA DriftOfOne ==
  ASSUME LockInv, NEW d \in Dispatch, Moved(d),
         pc'[d] \notin {"emit", "put"} => out'[d].then = "final",
         InScope(d)' <=> InScope(d),
         MayOwn(d)' <=> MayOwn(d),
         pc'[d] = "got" <=> pc[d] = "got"
  PROVE  Drift
<1>1. \A e \in Dispatch : (InScope(e)' <=> InScope(e)) /\ (MayOwn(e)' <=> MayOwn(e))
  BY DEF Moved, InScope, MayOwn
<1>2. OutInv'
  BY DEF LockInv, OutInv, Moved
<1> QED BY <1>1, <1>2 DEF Moved, Drift

\* The steps of the worker that are drifts.
LEMMA WorkerDrifts ==
  ASSUME TypeOK, LockInv, FreshInv, NEW d \in Dispatch,
         \/ Start(d) \/ EmitMark(d) \/ EmitPut(d) \/ Setup(d) \/ CheckWait(d)
         \/ AcquireFails(d) \/ CheckOwned(d) \/ LoadSnapshot(d)
         \/ BuildAgent(d) \/ AgentReturns(d) \/ AgentRaises(d)
         \/ SaveSnapshot(d) \/ Finally(d) \/ RecordTerminal(d) \/ Quit(d)
  PROVE  Drift
<1>0. pc[d] \notin {"emit", "put"} => out[d].then = "final"
  BY DEF LockInv, OutInv
<1>a. /\ pc \in [Dispatch -> PC]
      /\ out \in [Dispatch -> Outcome]
  BY DEF TypeOK
<1> USE DEF Goto, None, Outcome
<1>1. CASE Start(d)
  <2>1. pc[d] = None /\ pc'[d] = "begin" /\ out'[d] = out[d]
    BY <1>a, <1>1 DEF Start, FreshInv
  <2>2. Moved(d)
    BY <1>a, <1>1 DEF Start, Moved, lockVars
  <2> QED BY <1>0, <1>a, <2>1, <2>2, DriftOfOne DEF InScope, MayOwn, ScopedPC, CriticalPC
<1>2. CASE EmitMark(d)
  <2>1. /\ pc[d] = "emit"
        /\ \/ pc'[d] = "put" /\ out'[d] = out[d]
           \/ pc'[d] = out[d].then /\ out'[d].then = "final"
    BY <1>a, <1>2 DEF EmitMark, NoOut
  <2>2. Moved(d)
    BY <1>a, <1>2 DEF EmitMark, Moved, lockVars
  <2> QED BY <1>0, <1>a, <2>1, <2>2, DriftOfOne DEF InScope, MayOwn, ScopedPC, CriticalPC
<1>3. CASE EmitPut(d)
  <2>1. pc[d] = "put" /\ pc'[d] = out[d].then /\ out'[d].then = "final"
    BY <1>a, <1>3 DEF EmitPut, NoOut
  <2>2. Moved(d)
    BY <1>a, <1>3 DEF EmitPut, Moved, lockVars
  <2> QED BY <1>0, <1>a, <2>1, <2>2, DriftOfOne DEF InScope, MayOwn, ScopedPC, CriticalPC
<1>4. CASE Setup(d)
  <2>1. /\ pc[d] = "begin"
        /\ \/ pc'[d] \in {"enter", "died"} /\ out'[d] = out[d]
           \/ pc'[d] = "emit" /\ out'[d].then = "quit"
    BY <1>a, <1>4 DEF Setup, ToEmit
  <2>2. Moved(d)
    BY <1>a, <1>4 DEF Setup, Moved, lockVars, ToEmit
  <2> QED BY <1>0, <1>a, <2>1, <2>2, DriftOfOne DEF InScope, MayOwn, ScopedPC, CriticalPC
<1>5. CASE CheckWait(d)
  <2>1. /\ pc[d] = "wait"
        /\ \/ pc'[d] = "poll" /\ out'[d] = out[d]
           \/ pc'[d] = "emit" /\ out'[d].then = "deref"
    BY <1>a, <1>5 DEF CheckWait, ToEmit
  <2>2. Moved(d)
    BY <1>a, <1>5 DEF CheckWait, Moved, lockVars, ToEmit
  <2> QED BY <1>0, <1>a, <2>1, <2>2, DriftOfOne DEF InScope, MayOwn, ScopedPC, CriticalPC
<1>6. CASE AcquireFails(d)
  <2>1. pc[d] = "poll" /\ pc'[d] = "wait" /\ out'[d] = out[d]
    BY <1>a, <1>6 DEF AcquireFails
  <2>2. Moved(d)
    BY <1>a, <1>6 DEF AcquireFails, Moved, lockVars
  <2> QED BY <1>0, <1>a, <2>1, <2>2, DriftOfOne DEF InScope, MayOwn, ScopedPC, CriticalPC
<1>7. CASE CheckOwned(d)
  <2>1. /\ pc[d] = "owned"
        /\ \/ pc'[d] = "load" /\ out'[d] = out[d]
           \/ pc'[d] = "emit" /\ out'[d].then = "release"
    BY <1>a, <1>7 DEF CheckOwned, ToEmit
  <2>2. Moved(d)
    BY <1>a, <1>7 DEF CheckOwned, Moved, lockVars, ToEmit
  <2> QED BY <1>0, <1>a, <2>1, <2>2, DriftOfOne DEF InScope, MayOwn, ScopedPC, CriticalPC
<1>8. CASE LoadSnapshot(d)
  <2>1. pc[d] = "load" /\ pc'[d] = "build" /\ out'[d] = out[d]
    BY <1>a, <1>8 DEF LoadSnapshot
  <2>2. Moved(d)
    BY <1>a, <1>8 DEF LoadSnapshot, Moved, lockVars
  <2> QED BY <1>0, <1>a, <2>1, <2>2, DriftOfOne DEF InScope, MayOwn, ScopedPC, CriticalPC
<1>9. CASE BuildAgent(d)
  <2>1. /\ pc[d] = "build"
        /\ \/ pc'[d] = "exec" /\ out'[d] = out[d]
           \/ pc'[d] = "release" /\ out'[d].then = "final"
    BY <1>a, <1>9 DEF BuildAgent
  <2>2. Moved(d)
    BY <1>a, <1>9 DEF BuildAgent, Moved, lockVars
  <2> QED BY <1>0, <1>a, <2>1, <2>2, DriftOfOne DEF InScope, MayOwn, ScopedPC, CriticalPC
<1>10. CASE AgentReturns(d)
  <2>1. pc[d] = "exec" /\ pc'[d] = "release" /\ out'[d].then = "final"
    BY <1>a, <1>10 DEF AgentReturns
  <2>2. Moved(d)
    BY <1>a, <1>10 DEF AgentReturns, Moved, lockVars
  <2> QED BY <1>0, <1>a, <2>1, <2>2, DriftOfOne DEF InScope, MayOwn, ScopedPC, CriticalPC
<1>11. CASE AgentRaises(d)
  <2>1. pc[d] = "exec" /\ pc'[d] = "release" /\ out'[d].then = "final"
    BY <1>a, <1>11 DEF AgentRaises
  <2>2. Moved(d)
    BY <1>a, <1>11 DEF AgentRaises, Moved, lockVars
  <2> QED BY <1>0, <1>a, <2>1, <2>2, DriftOfOne DEF InScope, MayOwn, ScopedPC, CriticalPC
<1>12. CASE SaveSnapshot(d)
  <2>1. pc[d] = "save" /\ pc'[d] = "emit" /\ out'[d].then = out[d].then
    BY <1>a, <1>12 DEF SaveSnapshot
  <2>2. Moved(d)
    BY <1>a, <1>12 DEF SaveSnapshot, Moved, lockVars
  <2> QED BY <1>0, <1>a, <2>1, <2>2, DriftOfOne DEF InScope, MayOwn, ScopedPC, CriticalPC
<1>13. CASE Finally(d)
  <2>1. /\ pc[d] = "final"
        /\ \/ pc'[d] = "record" /\ out'[d] = out[d]
           \/ pc'[d] = "emit" /\ out'[d].then = "final"
    BY <1>a, <1>13 DEF Finally, ToEmit
  <2>2. Moved(d)
    BY <1>a, <1>13 DEF Finally, Moved, lockVars, ToEmit
  <2> QED BY <1>0, <1>a, <2>1, <2>2, DriftOfOne DEF InScope, MayOwn, ScopedPC, CriticalPC
<1>14. CASE RecordTerminal(d)
  <2>1. pc[d] = "record" /\ pc'[d] = "quit" /\ out'[d] = out[d]
    BY <1>a, <1>14 DEF RecordTerminal
  <2>2. Moved(d)
    BY <1>a, <1>14 DEF RecordTerminal, Moved, lockVars
  <2> QED BY <1>0, <1>a, <2>1, <2>2, DriftOfOne DEF InScope, MayOwn, ScopedPC, CriticalPC
<1>15. CASE Quit(d)
  <2>1. pc[d] = "quit" /\ pc'[d] = "end" /\ out'[d] = out[d]
    BY <1>a, <1>15 DEF Quit
  <2>2. Moved(d)
    BY <1>a, <1>15 DEF Quit, Moved, lockVars
  <2> QED BY <1>0, <1>a, <2>1, <2>2, DriftOfOne DEF InScope, MayOwn, ScopedPC, CriticalPC
<1> QED
  BY <1>1, <1>2, <1>3, <1>4, <1>5, <1>6, <1>7, <1>8,
     <1>9, <1>10, <1>11, <1>12, <1>13, <1>14, <1>15

--------------------------------------------------------------------------------
\* The steps that change the lock objects keep LockInv.
LEMMA EnterScopeStep ==
  ASSUME TypeOK, LockInv, NEW d \in Dispatch, EnterScope(d)
  PROVE  LockInv'
<1> DEFINE k == KeyOf[d]
           o == IF entry[k] = NoDispatch THEN d ELSE entry[k]
<1>1. /\ k \in Key /\ o \in Dispatch /\ NoDispatch \notin Dispatch
      /\ KeyOf[o] = k
  BY RunAssumption DEF TypeOK, LockInv, EntryInv
<1>2. /\ pc[d] = "enter" /\ pc' = [pc EXCEPT ![d] = "wait"]
      /\ obj' = [obj EXCEPT ![d] = o]
      /\ ref' = [ref EXCEPT ![o] = @ + 1]
      /\ entry' = [entry EXCEPT ![k] = o]
      /\ UNCHANGED <<out, held, owner>>
  BY DEF EnterScope, Goto
<1>3. /\ pc \in [Dispatch -> PC] /\ obj \in [Dispatch -> Dispatch \cup {NoDispatch}]
      /\ entry \in [Key -> Dispatch \cup {NoDispatch}] /\ ref \in [Dispatch -> Nat]
  BY DEF TypeOK
<1>4. obj[d] = NoDispatch
  BY <1>2 DEF LockInv, ObjInv, InScope, ScopedPC, CriticalPC
<1>5. \A e \in Dispatch : obj[e] = o => KeyOf[e] = k /\ entry[k] = o
  BY <1>1, <1>3, RunAssumption DEF LockInv, ObjInv, EntryInv
<1>6. OutInv'
  BY <1>2, <1>3 DEF LockInv, OutInv
<1>7. ObjInv'
  <2>1. \A e \in Dispatch : obj'[e] # NoDispatch <=> InScope(e)'
    BY <1>1, <1>2, <1>3 DEF LockInv, ObjInv, InScope, ScopedPC, CriticalPC
  <2>2. \A e \in Dispatch : obj'[e] # NoDispatch => obj'[e] = entry'[KeyOf[e]]
    BY <1>1, <1>2, <1>3, <1>5, RunAssumption DEF LockInv, ObjInv
  <2> QED BY <2>1, <2>2 DEF ObjInv
<1>8. EntryInv'
  <2> SUFFICES ASSUME NEW l \in Key, entry'[l] # NoDispatch
               PROVE  /\ KeyOf[entry'[l]] = l
                      /\ \E e \in Dispatch : KeyOf[e] = l /\ obj'[e] = entry'[l]
    BY DEF EntryInv
  <2>1. CASE l = k
    BY <2>1, <1>1, <1>2, <1>3
  <2>2. CASE l # k
    <3>1. /\ entry'[l] = entry[l] /\ KeyOf[entry[l]] = l
          /\ \E e \in Dispatch : KeyOf[e] = l /\ obj[e] = entry[l]
      BY <2>2, <1>2, <1>3 DEF LockInv, EntryInv
    <3> QED BY <3>1, <1>2, <1>3, <1>4, <2>2
  <2> QED BY <2>1, <2>2
<1>9. RefInv'
  <2> SUFFICES ASSUME NEW p \in Dispatch
               PROVE  ref'[p] = Cardinality(Users(p)')
    BY DEF RefInv
  <2>1. ref[p] = Cardinality(Users(p))
    BY DEF LockInv, RefInv
  <2>2. CASE p = o
    <3>1. Users(p)' = Users(p) \cup {d} /\ d \notin Users(p)
      BY <2>2, <1>1, <1>2, <1>3, <1>4 DEF Users
    <3>2. Cardinality(Users(p)') = Cardinality(Users(p)) + 1
      BY <3>1, UsersFinite, FS_AddElement
    <3> QED BY <3>2, <2>1, <2>2, <1>2, <1>3
  <2>3. CASE p # o
    <3>1. Users(p)' = Users(p)
      BY <2>3, <1>1, <1>2, <1>3, <1>4 DEF Users
    <3> QED BY <3>1, <2>1, <2>3, <1>2, <1>3
  <2> QED BY <2>2, <2>3
<1>10. OwnerInv'
  BY <1>1, <1>2, <1>3, <1>4 DEF LockInv, OwnerInv, MayOwn, CriticalPC
<1>11. GotInv'
  BY <1>1, <1>2, <1>3 DEF LockInv, GotInv
<1>12. LockedByALivingRun'
  BY <1>1, <1>2, <1>3, <1>4 DEF LockInv, LockedByALivingRun
<1> QED BY <1>6, <1>7, <1>8, <1>9, <1>10, <1>11, <1>12 DEF LockInv

\* The worker that acquires a free lock is the only one to hold it.
LEMMA AcquireStep ==
  ASSUME TypeOK, LockInv, NEW d \in Dispatch, Acquire(d)
  PROVE  LockInv'
<1> DEFINE o == obj[d]
<1>1. /\ pc[d] = "poll" /\ pc' = [pc EXCEPT ![d] = "got"]
      /\ ~held[o] /\ held' = [held EXCEPT ![o] = TRUE]
      /\ UNCHANGED <<out, obj, entry, ref, owner>>
  BY DEF Acquire, Goto
<1>2. /\ pc \in [Dispatch -> PC] /\ obj \in [Dispatch -> Dispatch \cup {NoDispatch}]
      /\ held \in [Dispatch -> BOOLEAN]
      /\ owner \in [Dispatch -> Dispatch \cup {NoDispatch}]
  BY DEF TypeOK
<1>3. o \in Dispatch
  BY <1>1, <1>2 DEF LockInv, ObjInv, InScope, ScopedPC
<1>4. owner[o] = NoDispatch
  BY <1>1, <1>2, <1>3 DEF LockInv, OwnerInv
<1>5. OutInv' /\ ObjInv' /\ EntryInv' /\ RefInv'
  BY <1>1, <1>2 DEF LockInv, OutInv, ObjInv, EntryInv, RefInv, Users, InScope,
     ScopedPC, CriticalPC
<1>6. OwnerInv'
  BY <1>1, <1>2, <1>3, <1>4 DEF LockInv, OwnerInv, MayOwn, CriticalPC
<1>7. GotInv'
  BY <1>1, <1>2, <1>3, <1>4 DEF LockInv, GotInv
<1>8. LockedByALivingRun'
  BY <1>1, <1>2, <1>3 DEF LockInv, LockedByALivingRun
<1> QED BY <1>5, <1>6, <1>7, <1>8 DEF LockInv

\* The owner that is recorded is the worker that has just acquired the lock.
LEMMA RecordOwnerStep ==
  ASSUME TypeOK, LockInv, NEW d \in Dispatch, RecordOwner(d)
  PROVE  LockInv'
<1> DEFINE o == obj[d]
<1>1. /\ pc[d] = "got" /\ pc' = [pc EXCEPT ![d] = "owned"]
      /\ owner' = [owner EXCEPT ![o] = d]
      /\ UNCHANGED <<out, obj, entry, ref, held>>
  BY DEF RecordOwner, Goto
<1>2. /\ pc \in [Dispatch -> PC] /\ obj \in [Dispatch -> Dispatch \cup {NoDispatch}]
      /\ held \in [Dispatch -> BOOLEAN]
      /\ owner \in [Dispatch -> Dispatch \cup {NoDispatch}]
      /\ NoDispatch \notin Dispatch
  BY RunAssumption DEF TypeOK
<1>3. o \in Dispatch
  BY <1>1, <1>2 DEF LockInv, ObjInv, InScope, ScopedPC
<1>4. held[o] /\ owner[o] = NoDispatch
  BY <1>1 DEF LockInv, GotInv
<1>5. OutInv' /\ ObjInv' /\ EntryInv' /\ RefInv'
  BY <1>1, <1>2 DEF LockInv, OutInv, ObjInv, EntryInv, RefInv, Users, InScope,
     ScopedPC, CriticalPC
<1>6. OwnerInv'
  BY <1>1, <1>2, <1>3, <1>4 DEF LockInv, OwnerInv, MayOwn, CriticalPC
<1>7. GotInv'
  BY <1>1, <1>2, <1>3 DEF LockInv, GotInv
<1>8. LockedByALivingRun'
  BY <1>1, <1>2, <1>3 DEF LockInv, LockedByALivingRun, GotInv
<1> QED BY <1>5, <1>6, <1>7, <1>8 DEF LockInv

\* A worker releases its lock only when it is still recorded as the owner.
LEMMA ReleaseLockStep ==
  ASSUME TypeOK, LockInv, NEW d \in Dispatch, ReleaseLock(d)
  PROVE  LockInv'
<1> DEFINE o == obj[d]
<1>1. /\ pc[d] = "release" /\ pc' = [pc EXCEPT ![d] = "deref"]
      /\ \/ /\ owner[o] = d
            /\ held' = [held EXCEPT ![o] = FALSE]
            /\ owner' = [owner EXCEPT ![o] = NoDispatch]
         \/ owner[o] # d /\ UNCHANGED <<held, owner>>
      /\ UNCHANGED <<out, obj, entry, ref>>
  BY DEF ReleaseLock, Goto
<1>2. /\ pc \in [Dispatch -> PC] /\ obj \in [Dispatch -> Dispatch \cup {NoDispatch}]
      /\ held \in [Dispatch -> BOOLEAN]
      /\ owner \in [Dispatch -> Dispatch \cup {NoDispatch}]
      /\ NoDispatch \notin Dispatch
  BY RunAssumption DEF TypeOK
<1>3. o \in Dispatch
  BY <1>1, <1>2 DEF LockInv, ObjInv, InScope, ScopedPC
<1>4. \A p \in Dispatch : p # o => owner[p] # d
  BY DEF LockInv, OwnerInv
<1>5. OutInv' /\ ObjInv' /\ EntryInv' /\ RefInv'
  BY <1>1, <1>2 DEF LockInv, OutInv, ObjInv, EntryInv, RefInv, Users, InScope,
     ScopedPC, CriticalPC
<1>6. OwnerInv'
  BY <1>1, <1>2, <1>3, <1>4 DEF LockInv, OwnerInv, MayOwn, CriticalPC
<1>7. GotInv'
  <2>1. \A e \in Dispatch : pc'[e] = "got" => e # d /\ pc[e] = "got"
    BY <1>1, <1>2
  <2>2. CASE owner[o] = d
    <3>1. \A e \in Dispatch : pc[e] = "got" => obj[e] \in Dispatch \ {o}
      BY <2>2, <1>2 DEF LockInv, GotInv, ObjInv, InScope, ScopedPC
    <3> QED BY <3>1, <2>1, <2>2, <1>1, <1>2, <1>3 DEF LockInv, GotInv
  <2>3. CASE owner[o] # d
    BY <2>1, <2>3, <1>1, <1>2 DEF LockInv, GotInv
  <2> QED BY <2>2, <2>3
<1>8. LockedByALivingRun'
  BY <1>1, <1>2, <1>3, <1>4 DEF LockInv, LockedByALivingRun
<1> QED BY <1>5, <1>6, <1>7, <1>8 DEF LockInv

\* A worker that leaves the scope takes one reference away, and the entry of the
\* map with the last one.
LEMMA LeaveScopeStep ==
  ASSUME TypeOK, LockInv, NEW d \in Dispatch, LeaveScope(d)
  PROVE  LockInv' /\ ref' \in [Dispatch -> Nat]
<1> DEFINE k == KeyOf[d]
<1>0. PICK o \in Dispatch : o = obj[d]
  BY DEF LeaveScope, TypeOK, LockInv, ObjInv, InScope, ScopedPC
<1>1. /\ pc[d] = "deref" /\ obj' = [obj EXCEPT ![d] = NoDispatch]
      /\ \E l \in {"final", "save", "emit"} : pc' = [pc EXCEPT ![d] = l]
      /\ ref' = [ref EXCEPT ![o] = @ - 1]
      /\ entry' = IF ref[o] <= 1 THEN [entry EXCEPT ![k] = NoDispatch] ELSE entry
      /\ UNCHANGED <<out, held, owner>>
  <2> DEFINE l == CASE out[d].kind = None        -> "final"
                    [] out[d].kind = "completed" -> "save"
                    [] OTHER                     -> "emit"
  <2>1. pc' = [pc EXCEPT ![d] = l]
    BY DEF LeaveScope, Goto
  <2>2. l \in {"final", "save", "emit"}
    OBVIOUS
  <2> HIDE DEF l
  <2> QED BY <2>1, <2>2, <1>0 DEF LeaveScope
<1>2. /\ pc \in [Dispatch -> PC] /\ obj \in [Dispatch -> Dispatch \cup {NoDispatch}]
      /\ entry \in [Key -> Dispatch \cup {NoDispatch}] /\ ref \in [Dispatch -> Nat]
      /\ owner \in [Dispatch -> Dispatch \cup {NoDispatch}]
      /\ NoDispatch \notin Dispatch /\ k \in Key
  BY RunAssumption DEF TypeOK
<1>3. obj[d] = o /\ o = entry[k] /\ KeyOf[o] = k
  BY <1>0, <1>1, <1>2 DEF LockInv, ObjInv, EntryInv, InScope, ScopedPC
<1>4. out[d].then = "final" /\ ~InScope(d)' /\ ~MayOwn(d)'
  BY <1>1, <1>2 DEF LockInv, OutInv, InScope, MayOwn, ScopedPC, CriticalPC
<1>5. \A e \in Dispatch \ {d} : /\ obj'[e] = obj[e] /\ pc'[e] = pc[e]
                                /\ InScope(e)' <=> InScope(e)
                                /\ MayOwn(e)' <=> MayOwn(e)
  BY <1>1, <1>2 DEF InScope, MayOwn
<1>6. obj'[d] = NoDispatch /\ pc'[d] \in {"final", "save", "emit"}
  BY <1>1, <1>2
<1>7. \A p \in Dispatch : ref[p] = Cardinality(Users(p)) /\ IsFiniteSet(Users(p))
  BY UsersFinite DEF LockInv, RefInv
<1>8. Users(o)' = Users(o) \ {d} /\ d \in Users(o)
  BY <1>5, <1>6, <1>2, <1>3 DEF Users
<1>9. /\ Cardinality(Users(o)') = ref[o] - 1 /\ ref[o] \in Nat \ {0}
      /\ IsFiniteSet(Users(o)')
  <2>1. /\ IsFiniteSet(Users(o) \ {d})
        /\ Cardinality(Users(o) \ {d}) = Cardinality(Users(o)) - 1
    BY <1>3, <1>7, <1>8, FS_RemoveElement
  <2>2. Cardinality(Users(o) \ {d}) \in Nat
    BY <2>1, FS_CardinalityType
  <2> QED BY <2>1, <2>2, <1>2, <1>3, <1>7, <1>8
<1>10. ASSUME ref[o] <= 1 PROVE ObjInv' /\ EntryInv'
  <2>1. Users(o)' = {}
    BY <1>9, <1>10, FS_EmptySet
  <2>2. \A e \in Dispatch : obj'[e] # o
    BY <2>1 DEF Users
  <2>3. \A e \in Dispatch : KeyOf[e] = k => obj'[e] = NoDispatch
    BY <2>2, <1>3, <1>5, <1>6 DEF LockInv, ObjInv
  <2>4. entry' = [entry EXCEPT ![k] = NoDispatch]
    BY <1>1, <1>10
  <2>5. ObjInv'
    <3>1. \A e \in Dispatch : obj'[e] # NoDispatch <=> InScope(e)'
      BY <1>4, <1>5, <1>6 DEF LockInv, ObjInv
    <3>2. \A e \in Dispatch : obj'[e] # NoDispatch => obj'[e] = entry'[KeyOf[e]]
      BY <2>3, <2>4, <1>2, <1>5, <1>6, RunAssumption DEF LockInv, ObjInv
    <3> QED BY <3>1, <3>2 DEF ObjInv
  <2>6. EntryInv'
    <3> SUFFICES ASSUME NEW l \in Key, entry'[l] # NoDispatch
                 PROVE  /\ KeyOf[entry'[l]] = l
                        /\ \E e \in Dispatch : KeyOf[e] = l /\ obj'[e] = entry'[l]
      BY DEF EntryInv
    <3>1. l # k /\ entry'[l] = entry[l]
      BY <2>4, <1>2
    <3>2. /\ KeyOf[entry[l]] = l
          /\ \E e \in Dispatch : KeyOf[e] = l /\ obj[e] = entry[l]
      BY <3>1 DEF LockInv, EntryInv
    <3> QED BY <3>1, <3>2, <1>5
  <2> QED BY <2>5, <2>6
<1>11. ASSUME ~(ref[o] <= 1) PROVE ObjInv' /\ EntryInv'
  <2>1. PICK f \in Users(o)' : TRUE
    <3>1. Cardinality(Users(o)') # 0
      BY <1>9, <1>11
    <3> QED BY <3>1, <1>9, FS_EmptySet
  <2>2. f \in Dispatch \ {d} /\ obj'[f] = o
    BY <2>1, <1>2, <1>3, <1>6 DEF Users
  <2>3. KeyOf[f] = k
    BY <2>2, <1>2, <1>3, <1>5, RunAssumption DEF LockInv, ObjInv, EntryInv
  <2>4. entry' = entry
    BY <1>1, <1>11
  <2>5. ObjInv'
    BY <2>4, <1>4, <1>5, <1>6 DEF LockInv, ObjInv
  <2>6. EntryInv'
    <3> SUFFICES ASSUME NEW l \in Key, entry[l] # NoDispatch
                 PROVE  /\ KeyOf[entry[l]] = l
                        /\ \E e \in Dispatch : KeyOf[e] = l /\ obj'[e] = entry[l]
      BY <2>4 DEF EntryInv
    <3>1. CASE l = k
      BY <3>1, <2>2, <2>3, <1>3
    <3>2. CASE l # k
      BY <3>2, <1>5 DEF LockInv, EntryInv
    <3> QED BY <3>1, <3>2
  <2> QED BY <2>5, <2>6
<1>12. ObjInv' /\ EntryInv'
  BY <1>10, <1>11
<1>13. OutInv'
  BY <1>1, <1>4, <1>5, <1>6 DEF LockInv, OutInv
<1>14. RefInv' /\ ref' \in [Dispatch -> Nat]
  <2>1. \A p \in Dispatch \ {o} : Users(p)' = Users(p)
    BY <1>2, <1>3, <1>5, <1>6 DEF Users
  <2>2. ref'[o] = ref[o] - 1 /\ \A p \in Dispatch \ {o} : ref'[p] = ref[p]
    BY <1>1, <1>2, <1>3
  <2>3. RefInv'
    <3> SUFFICES ASSUME NEW p \in Dispatch PROVE ref'[p] = Cardinality(Users(p)')
      BY DEF RefInv
    <3>1. CASE p = o
      BY <3>1, <2>2, <1>9
    <3>2. CASE p # o
      BY <3>2, <2>1, <2>2, <1>7
    <3> QED BY <3>1, <3>2
  <2>4. ref[o] - 1 \in Nat
    BY <1>9
  <2> QED BY <2>3, <2>4, <1>1, <1>2, <1>3
<1>15. OwnerInv'
  BY <1>1, <1>2, <1>5 DEF LockInv, OwnerInv, MayOwn, CriticalPC
<1>16. GotInv'
  BY <1>1, <1>5, <1>6 DEF LockInv, GotInv
<1>17. LockedByALivingRun'
  BY <1>1, <1>2, <1>5 DEF LockInv, LockedByALivingRun, OwnerInv, MayOwn, CriticalPC
<1> QED BY <1>12, <1>13, <1>14, <1>15, <1>16, <1>17 DEF LockInv

\* A forced release, by a cancel or by the watchdog.
LEMMA ForceReleaseStep ==
  ASSUME TypeOK, LockInv, NEW d \in Dispatch, ForceRelease(d),
         UNCHANGED <<pc, out, obj>>
  PROVE  LockInv'
<1>1. OutInv' /\ ObjInv' /\ EntryInv' /\ RefInv'
  BY DEF ForceRelease, LockInv, OutInv, ObjInv, EntryInv, RefInv, Users, InScope
<1>2. \A o \in Dispatch : \/ held'[o] = held[o] /\ owner'[o] = owner[o]
                          \/ owner[o] = d /\ ~held'[o] /\ owner'[o] = NoDispatch
  BY DEF ForceRelease, OwnedBy, TypeOK
<1>3. NoDispatch \notin Dispatch
  BY RunAssumption
<1>4. OwnerInv'
  BY <1>2, <1>3 DEF LockInv, OwnerInv, MayOwn
<1>5. GotInv'
  BY <1>2, <1>3 DEF LockInv, GotInv, ObjInv, InScope, ScopedPC, TypeOK
<1>6. LockedByALivingRun'
  BY <1>2 DEF LockInv, LockedByALivingRun
<1> QED BY <1>1, <1>4, <1>5, <1>6 DEF LockInv

\* The process starts without locks, and a crash takes all of them.
NoLocks == /\ pc = [d \in Dispatch |-> None] /\ out = [d \in Dispatch |-> NoOut]
           /\ obj = [d \in Dispatch |-> NoDispatch]
           /\ entry = [k \in Key |-> NoDispatch]
           /\ ref = [d \in Dispatch |-> 0]
           /\ held = [d \in Dispatch |-> FALSE]
           /\ owner = [d \in Dispatch |-> NoDispatch]

\* Without locks and workers the lock invariant holds.
LEMMA LockFresh == NoLocks => LockInv
<1> SUFFICES ASSUME NoLocks PROVE LockInv
  OBVIOUS
<1> USE DEF NoLocks
<1>1. OutInv /\ ObjInv /\ EntryInv
  BY DEF OutInv, ObjInv, EntryInv, InScope, ScopedPC, CriticalPC, None, NoOut
<1>2. RefInv
  <2>1. \A o \in Dispatch : Users(o) = {}
    BY RunAssumption DEF Users
  <2> QED BY <2>1, FS_EmptySet DEF RefInv
<1>3. OwnerInv /\ GotInv /\ LockedByALivingRun
  BY RunAssumption DEF OwnerInv, GotInv, LockedByALivingRun, None
<1> QED BY <1>1, <1>2, <1>3 DEF LockInv

\* Every step keeps LockInv.
LEMMA LockStep ==
  ASSUME TypeOK, LockInv, FreshInv, [Next]_vars
  PROVE  LockInv'
<1>1. ASSUME NEW d \in Dispatch,
             \/ Start(d) \/ EmitMark(d) \/ EmitPut(d) \/ Setup(d) \/ CheckWait(d)
             \/ AcquireFails(d) \/ CheckOwned(d) \/ LoadSnapshot(d)
             \/ BuildAgent(d) \/ AgentReturns(d) \/ AgentRaises(d)
             \/ SaveSnapshot(d) \/ Finally(d) \/ RecordTerminal(d) \/ Quit(d)
      PROVE  LockInv'
  BY <1>1, WorkerDrifts, DriftStep
<1>2. ASSUME NEW d \in Dispatch,
             \/ EnterScope(d) \/ Acquire(d) \/ RecordOwner(d) \/ ReleaseLock(d)
             \/ LeaveScope(d)
      PROVE  LockInv'
  BY <1>2, EnterScopeStep, AcquireStep, RecordOwnerStep, ReleaseLockStep,
     LeaveScopeStep
<1>3. ASSUME NEW d \in Dispatch, CancelRelease(d) \/ TimerRelease(d)
      PROVE  LockInv'
  BY <1>3, ForceReleaseStep DEF CancelRelease, TimerRelease, workVars
<1>4. ASSUME UNCHANGED <<pc, out, obj, lockVars>> PROVE LockInv'
  <2>1. Drift
    BY <1>4 DEF Drift, OutInv, LockInv, InScope, MayOwn
  <2> QED BY <2>1, DriftStep
<1>5. ASSUME NEW d \in Dispatch,
             \/ SkipTerminal(d) \/ CancelBegin(d) \/ CancelMark(d)
             \/ CancelPut(d) \/ CancelRecord(d) \/ CancelDone(d)
             \/ Forward(d) \/ ForwardEnd(d) \/ Expire(d) \/ TimerFire(d)
             \/ TimerPut(d) \/ TimerRecord(d) \/ TimerDone(d)
      PROVE  LockInv'
  BY <1>4, <1>5 DEF SkipTerminal, CancelBegin, CancelMark, CancelPut,
     CancelRecord, CancelDone, Forward, ForwardEnd, Expire, TimerFire, TimerPut,
     TimerRecord, TimerDone, workVars
<1>6. ASSUME NEW s \in Session, ResetSession(s) PROVE LockInv'
  BY <1>4, <1>6 DEF ResetSession, workVars
<1>7. ASSUME Crash PROVE LockInv'
  <2>1. NoLocks'
    BY <1>7 DEF Crash, NoLocks
  <2> QED BY <2>1, LockFresh, PTL
<1>8. ASSUME UNCHANGED vars PROVE LockInv'
  BY <1>4, <1>8 DEF vars, workVars
<1> QED
  BY <1>1, <1>2, <1>3, <1>5, <1>6, <1>7, <1>8
  DEF Next, LoopStep, Cancel, WorkerStep, AgentStep, TimerStep

--------------------------------------------------------------------------------
\* Marking a run keeps its flags well typed.
LEMMA MarkTyped ==
  ASSUME NEW d \in Dispatch, NEW kind \in Terminal \cup {None},
         run \in [Dispatch -> RunFlags], Mark(d, kind)
  PROVE  run' \in [Dispatch -> RunFlags]
BY DEF Mark, RunFlags

\* Every step keeps the types.
LEMMA TypeStep ==
  ASSUME TypeOK, LockInv, OutcomeInv, [Next]_vars
  PROVE  TypeOK'
<1>a. ledger \in [Dispatch -> LedgerState]
  BY DEF TypeOK
<1>b. run \in [Dispatch -> RunFlags]
  BY DEF TypeOK
<1>c. pc \in [Dispatch -> PC]
  BY DEF TypeOK
<1>d. out \in [Dispatch -> Outcome]
  BY DEF TypeOK
<1>e. timer \in [Dispatch -> TimerState]
  BY DEF TypeOK
<1>f. loop \in LoopState
  BY DEF TypeOK
<1>g. queue \in [Dispatch -> Seq(Terminal)]
  BY DEF TypeOK
<1>h. sent \in [Dispatch -> Seq(Terminal)]
  BY DEF TypeOK
<1> USE RunAssumption DEF runVars, workVars, lockVars, diskVars, auxVars
<1>1. ASSUME NEW d \in Dispatch, Start(d) PROVE TypeOK'
  <2>1. run' \in [Dispatch -> RunFlags]
    BY <1>b, <1>1 DEF Start, RunFlags, None, Terminal, NewRun
  <2>2. ledger' \in [Dispatch -> LedgerState]
    BY <1>a, <1>1 DEF Start, LedgerState, None, Terminal
  <2>3. pc' \in [Dispatch -> PC]
    BY <1>c, <1>1 DEF Start, Goto, PC, ScopedPC, CriticalPC, None
  <2>4. queue' \in [Dispatch -> Seq(Terminal)]
    BY <1>g, <1>1 DEF Start, Terminal
  <2> QED
    BY <2>1, <2>2, <2>3, <2>4, <1>1 DEF TypeOK, Start
<1>2. ASSUME NEW d \in Dispatch, SkipTerminal(d) PROVE TypeOK'
  <2>1. ledger' \in [Dispatch -> LedgerState]
    BY <1>a, <1>2 DEF SkipTerminal, LedgerState, None, Terminal
  <2> QED
    BY <2>1, <1>2 DEF TypeOK, SkipTerminal
<1>3. ASSUME NEW d \in Dispatch, CancelBegin(d) PROVE TypeOK'
  <2>1. run' \in [Dispatch -> RunFlags]
    BY <1>b, <1>3 DEF CancelBegin, RunFlags, None, Terminal
  <2>2. loop' \in LoopState
    BY <1>f, <1>3 DEF CancelBegin, LoopState
  <2> QED
    BY <2>1, <2>2, <1>3 DEF TypeOK, CancelBegin
<1>4. ASSUME NEW d \in Dispatch, CancelMark(d) PROVE TypeOK'
  <2>1. run' \in [Dispatch -> RunFlags]
    BY <1>b, <1>4 DEF CancelMark, RunFlags, None, Terminal, Mark
  <2>2. loop' \in LoopState
    BY <1>f, <1>4 DEF CancelMark, LoopState
  <2> QED
    BY <2>1, <2>2, <1>4 DEF TypeOK, CancelMark, Mark
<1>5. ASSUME NEW d \in Dispatch, CancelPut(d) PROVE TypeOK'
  <2>1. queue' \in [Dispatch -> Seq(Terminal)]
    BY <1>g, <1>5 DEF CancelPut, Terminal
  <2>2. loop' \in LoopState
    BY <1>f, <1>5 DEF CancelPut, LoopState
  <2> QED
    BY <2>1, <2>2, <1>5 DEF TypeOK, CancelPut
<1>6. ASSUME NEW d \in Dispatch, CancelRecord(d) PROVE TypeOK'
  <2>1. ledger' \in [Dispatch -> LedgerState]
    BY <1>a, <1>6 DEF CancelRecord, LedgerState, None, Terminal
  <2>2. loop' \in LoopState
    BY <1>f, <1>6 DEF CancelRecord, LoopState
  <2> QED
    BY <2>1, <2>2, <1>6 DEF TypeOK, CancelRecord
<1>7. ASSUME NEW d \in Dispatch, CancelRelease(d) PROVE TypeOK'
  <2>1. loop' \in LoopState
    BY <1>f, <1>7 DEF CancelRelease, LoopState
  <2> QED
    BY <2>1, <1>7 DEF TypeOK, CancelRelease, ForceRelease
<1>8. ASSUME NEW d \in Dispatch, CancelDone(d) PROVE TypeOK'
  <2>1. run' \in [Dispatch -> RunFlags]
    BY <1>b, <1>8 DEF CancelDone, RunFlags, None, Terminal, Settle
  <2>2. loop' \in LoopState
    BY <1>f, <1>8 DEF CancelDone, LoopState, LoopIdle
  <2> QED
    BY <2>1, <2>2, <1>8 DEF TypeOK, CancelDone, Settle
<1>9. ASSUME NEW d \in Dispatch, Forward(d) PROVE TypeOK'
  <2>1. queue' \in [Dispatch -> Seq(Terminal)]
    BY <1>g, <1>9 DEF Forward, Terminal
  <2>2. sent' \in [Dispatch -> Seq(Terminal)]
    BY <1>h, <1>9, <1>g DEF Forward
  <2> QED
    BY <2>1, <2>2, <1>9 DEF TypeOK, Forward
<1>10. ASSUME NEW d \in Dispatch, ForwardEnd(d) PROVE TypeOK'
  BY <1>10 DEF TypeOK, ForwardEnd
<1>11. ASSUME NEW d \in Dispatch, EmitMark(d) PROVE TypeOK'
  <2>1. run' \in [Dispatch -> RunFlags]
    <3>1. Mark(d, out[d].kind) /\ out[d].kind \in Terminal \cup {None}
      BY <1>d, <1>11 DEF EmitMark, Outcome
    <3> QED BY <3>1, MarkTyped, <1>b
  <2>2. pc' \in [Dispatch -> PC]
    BY <1>c, <1>11, <1>d DEF EmitMark, Goto, PC, ScopedPC, CriticalPC, None,
       Outcome
  <2>3. out' \in [Dispatch -> Outcome]
    BY <1>d, <1>11 DEF EmitMark, Outcome, None, Terminal, NoOut
  <2> QED
    BY <2>1, <2>2, <2>3, <1>11 DEF TypeOK, EmitMark, Mark
<1>12. ASSUME NEW d \in Dispatch, EmitPut(d) PROVE TypeOK'
  <2>1. queue' \in [Dispatch -> Seq(Terminal)]
    BY <1>g, <1>12, <1>d DEF EmitPut, Terminal, Outcome, OutcomeInv, None
  <2>2. pc' \in [Dispatch -> PC]
    BY <1>c, <1>12, <1>d DEF EmitPut, Goto, PC, ScopedPC, CriticalPC, None,
       Outcome
  <2>3. out' \in [Dispatch -> Outcome]
    BY <1>d, <1>12 DEF EmitPut, Outcome, None, Terminal, NoOut
  <2> QED
    BY <2>1, <2>2, <2>3, <1>12 DEF TypeOK, EmitPut
<1>13. ASSUME NEW d \in Dispatch, Setup(d) PROVE TypeOK'
  <2>1. pc' \in [Dispatch -> PC]
    BY <1>c, <1>13 DEF Setup, Goto, PC, ScopedPC, CriticalPC, None, ToEmit
  <2>2. out' \in [Dispatch -> Outcome]
    BY <1>d, <1>13 DEF Setup, Outcome, None, Terminal, ToEmit
  <2> QED
    BY <2>1, <2>2, <1>13 DEF TypeOK, Setup, ToEmit
<1>14. ASSUME NEW d \in Dispatch, EnterScope(d) PROVE TypeOK'
  <2>1. pc' \in [Dispatch -> PC]
    BY <1>c, <1>14 DEF EnterScope, Goto, PC, ScopedPC, CriticalPC, None
  <2> QED
    BY <2>1, <1>14 DEF TypeOK, EnterScope
<1>15. ASSUME NEW d \in Dispatch, Expire(d) PROVE TypeOK'
  <2>1. run' \in [Dispatch -> RunFlags]
    BY <1>b, <1>15 DEF Expire, RunFlags, None, Terminal
  <2> QED
    BY <2>1, <1>15 DEF TypeOK, Expire
<1>16. ASSUME NEW d \in Dispatch, CheckWait(d) PROVE TypeOK'
  <2>1. pc' \in [Dispatch -> PC]
    BY <1>c, <1>16 DEF CheckWait, Goto, PC, ScopedPC, CriticalPC, None, ToEmit
  <2>2. out' \in [Dispatch -> Outcome]
    BY <1>d, <1>16 DEF CheckWait, Outcome, None, Terminal, ToEmit
  <2> QED
    BY <2>1, <2>2, <1>16 DEF TypeOK, CheckWait, ToEmit
<1>17. ASSUME NEW d \in Dispatch, Acquire(d) PROVE TypeOK'
  <2>1. pc' \in [Dispatch -> PC]
    BY <1>c, <1>17 DEF Acquire, Goto, PC, ScopedPC, CriticalPC, None
  <2> QED
    BY <2>1, <1>17 DEF TypeOK, Acquire
<1>18. ASSUME NEW d \in Dispatch, AcquireFails(d) PROVE TypeOK'
  <2>1. pc' \in [Dispatch -> PC]
    BY <1>c, <1>18 DEF AcquireFails, Goto, PC, ScopedPC, CriticalPC, None
  <2> QED
    BY <2>1, <1>18 DEF TypeOK, AcquireFails
<1>19. ASSUME NEW d \in Dispatch, RecordOwner(d) PROVE TypeOK'
  <2>1. pc' \in [Dispatch -> PC]
    BY <1>c, <1>19 DEF RecordOwner, Goto, PC, ScopedPC, CriticalPC, None
  <2> QED
    BY <2>1, <1>19 DEF TypeOK, RecordOwner
<1>20. ASSUME NEW d \in Dispatch, CheckOwned(d) PROVE TypeOK'
  <2>1. pc' \in [Dispatch -> PC]
    BY <1>c, <1>20 DEF CheckOwned, Goto, PC, ScopedPC, CriticalPC, None, ToEmit
  <2>2. out' \in [Dispatch -> Outcome]
    BY <1>d, <1>20 DEF CheckOwned, Outcome, None, Terminal, ToEmit
  <2> QED
    BY <2>1, <2>2, <1>20 DEF TypeOK, CheckOwned, ToEmit
<1>21. ASSUME NEW d \in Dispatch, LoadSnapshot(d) PROVE TypeOK'
  <2>1. pc' \in [Dispatch -> PC]
    BY <1>c, <1>21 DEF LoadSnapshot, Goto, PC, ScopedPC, CriticalPC, None
  <2> QED
    BY <2>1, <1>21 DEF TypeOK, LoadSnapshot
<1>22. ASSUME NEW d \in Dispatch, BuildAgent(d) PROVE TypeOK'
  <2>1. pc' \in [Dispatch -> PC]
    BY <1>c, <1>22 DEF BuildAgent, Goto, PC, ScopedPC, CriticalPC, None
  <2>2. out' \in [Dispatch -> Outcome]
    BY <1>d, <1>22 DEF BuildAgent, Outcome, None, Terminal
  <2>3. timer' \in [Dispatch -> TimerState]
    BY <1>e, <1>22 DEF BuildAgent, TimerState, None, Terminal
  <2> QED
    <3>1. execs' \in [Dispatch -> Nat]
      BY <1>22 DEF BuildAgent, TypeOK
    <3> QED BY <2>1, <2>2, <2>3, <3>1, <1>22 DEF TypeOK, BuildAgent
<1>23. ASSUME NEW d \in Dispatch, AgentReturns(d) PROVE TypeOK'
  <2>1. pc' \in [Dispatch -> PC]
    BY <1>c, <1>23 DEF AgentReturns, Goto, PC, ScopedPC, CriticalPC, None
  <2>2. out' \in [Dispatch -> Outcome]
    BY <1>d, <1>23 DEF AgentReturns, Outcome, None, Terminal
  <2> QED
    BY <2>1, <2>2, <1>23 DEF TypeOK, AgentReturns
<1>24. ASSUME NEW d \in Dispatch, AgentRaises(d) PROVE TypeOK'
  <2>1. pc' \in [Dispatch -> PC]
    BY <1>c, <1>24 DEF AgentRaises, Goto, PC, ScopedPC, CriticalPC, None
  <2>2. out' \in [Dispatch -> Outcome]
    BY <1>d, <1>24 DEF AgentRaises, Outcome, None, Terminal
  <2> QED
    BY <2>1, <2>2, <1>24 DEF TypeOK, AgentRaises
<1>25. ASSUME NEW d \in Dispatch, ReleaseLock(d) PROVE TypeOK'
  <2>1. pc' \in [Dispatch -> PC]
    BY <1>c, <1>25 DEF ReleaseLock, Goto, PC, ScopedPC, CriticalPC, None
  <2> QED
    BY <2>1, <1>25 DEF TypeOK, ReleaseLock
<1>26. ASSUME NEW d \in Dispatch, LeaveScope(d) PROVE TypeOK'
  <2>1. pc' \in [Dispatch -> PC]
    BY <1>c, <1>26 DEF LeaveScope, Goto, PC, ScopedPC, CriticalPC, None
  <2> QED
    BY <2>1, <1>26, LeaveScopeStep DEF TypeOK, LeaveScope
<1>27. ASSUME NEW d \in Dispatch, SaveSnapshot(d) PROVE TypeOK'
  <2>1. pc' \in [Dispatch -> PC]
    BY <1>c, <1>27 DEF SaveSnapshot, Goto, PC, ScopedPC, CriticalPC, None
  <2>2. out' \in [Dispatch -> Outcome]
    BY <1>d, <1>27 DEF SaveSnapshot, Outcome, None, Terminal
  <2> QED
    <3>1. history' \in [Session -> SUBSET Dispatch]
      <4>1. base[d] \cup {d} \in SUBSET Dispatch
        BY DEF TypeOK
      <4>2. \/ history' = history
            \/ history' = [history EXCEPT ![SessionOf[d]] = base[d] \cup {d}]
        BY <1>27 DEF SaveSnapshot
      <4> QED BY <4>1, <4>2 DEF TypeOK
    <3> QED BY <2>1, <2>2, <3>1, <1>27 DEF TypeOK, SaveSnapshot
<1>28. ASSUME NEW d \in Dispatch, Finally(d) PROVE TypeOK'
  <2>1. pc' \in [Dispatch -> PC]
    BY <1>c, <1>28 DEF Finally, Goto, PC, ScopedPC, CriticalPC, None, ToEmit
  <2>2. out' \in [Dispatch -> Outcome]
    BY <1>d, <1>28 DEF Finally, Outcome, None, Terminal, ToEmit
  <2>3. timer' \in [Dispatch -> TimerState]
    BY <1>e, <1>28 DEF Finally, TimerState, None, Terminal, TimerOff
  <2> QED
    BY <2>1, <2>2, <2>3, <1>28 DEF TypeOK, Finally, ToEmit
<1>29. ASSUME NEW d \in Dispatch, RecordTerminal(d) PROVE TypeOK'
  <2>1. ledger' \in [Dispatch -> LedgerState]
    BY <1>a, <1>29, <1>b DEF RecordTerminal, LedgerState, None, Terminal,
       RunFlags
  <2>2. pc' \in [Dispatch -> PC]
    BY <1>c, <1>29 DEF RecordTerminal, Goto, PC, ScopedPC, CriticalPC, None
  <2> QED
    BY <2>1, <2>2, <1>29 DEF TypeOK, RecordTerminal
<1>30. ASSUME NEW d \in Dispatch, Quit(d) PROVE TypeOK'
  <2>1. run' \in [Dispatch -> RunFlags]
    BY <1>b, <1>30 DEF Quit, RunFlags, None, Terminal, Settle
  <2>2. pc' \in [Dispatch -> PC]
    BY <1>c, <1>30 DEF Quit, Goto, PC, ScopedPC, CriticalPC, None
  <2> QED
    BY <2>1, <2>2, <1>30 DEF TypeOK, Quit, Settle
<1>31. ASSUME NEW d \in Dispatch, TimerFire(d) PROVE TypeOK'
  <2>1. run' \in [Dispatch -> RunFlags]
    <3>1. CASE run[d].done
      BY <3>1, <1>b, <1>31 DEF TimerFire
    <3>2. CASE ~run[d].done
      <4>1. PICK kind \in Terminal :
              run' = [run EXCEPT ![d].interrupted = TRUE,
                                 ![d].terminal = IF @ = None THEN kind ELSE @]
        BY <3>2, <1>31 DEF TimerFire, Terminal
      <4>2. run[d] \in RunFlags
        BY <1>b
      <4>3. [run[d] EXCEPT !.interrupted = TRUE,
                           !.terminal = IF @ = None THEN kind ELSE @] \in RunFlags
        BY <4>2 DEF RunFlags
      <4> QED BY <4>1, <4>3, <1>b DEF RunFlags
    <3> QED BY <3>1, <3>2
  <2>2. timer' \in [Dispatch -> TimerState]
    BY <1>e, <1>31 DEF TimerFire, TimerState, None, Terminal, TimerOff
  <2> QED
    BY <2>1, <2>2, <1>31 DEF TypeOK, TimerFire
<1>32. ASSUME NEW d \in Dispatch, TimerPut(d) PROVE TypeOK'
  <2>1. queue' \in [Dispatch -> Seq(Terminal)]
    BY <1>g, <1>32, <1>e DEF TimerPut, Terminal, TimerState, OutcomeInv, None
  <2>2. timer' \in [Dispatch -> TimerState]
    BY <1>e, <1>32 DEF TimerPut, TimerState, None, Terminal
  <2> QED
    BY <2>1, <2>2, <1>32 DEF TypeOK, TimerPut
<1>33. ASSUME NEW d \in Dispatch, TimerRecord(d) PROVE TypeOK'
  <2>1. ledger' \in [Dispatch -> LedgerState]
    BY <1>a, <1>33, <1>e DEF TimerRecord, LedgerState, None, Terminal,
       TimerState
  <2>2. timer' \in [Dispatch -> TimerState]
    BY <1>e, <1>33 DEF TimerRecord, TimerState, None, Terminal
  <2> QED
    BY <2>1, <2>2, <1>33 DEF TypeOK, TimerRecord
<1>34. ASSUME NEW d \in Dispatch, TimerRelease(d) PROVE TypeOK'
  <2>1. timer' \in [Dispatch -> TimerState]
    BY <1>e, <1>34 DEF TimerRelease, TimerState, None, Terminal
  <2> QED
    BY <2>1, <1>34 DEF TypeOK, TimerRelease, ForceRelease
<1>35. ASSUME NEW d \in Dispatch, TimerDone(d) PROVE TypeOK'
  <2>1. run' \in [Dispatch -> RunFlags]
    BY <1>b, <1>35 DEF TimerDone, RunFlags, None, Terminal, Settle
  <2>2. timer' \in [Dispatch -> TimerState]
    BY <1>e, <1>35 DEF TimerDone, TimerState, None, Terminal, TimerOff
  <2> QED
    BY <2>1, <2>2, <1>35 DEF TypeOK, TimerDone, Settle
<1>36. ASSUME NEW s \in Session, ResetSession(s) PROVE TypeOK'
  BY <1>36 DEF ResetSession, TypeOK
<1>37. ASSUME Crash PROVE TypeOK'
  <2>1. /\ NewRun \in RunFlags /\ NoOut \in Outcome /\ TimerOff \in TimerState
        /\ LoopIdle \in LoopState /\ None \in PC
    BY DEF NewRun, RunFlags, NoOut, Outcome, TimerOff, TimerState, LoopIdle,
       LoopState, None, PC
  <2> QED BY <2>1, <1>37 DEF Crash, TypeOK
<1>38. ASSUME UNCHANGED vars PROVE TypeOK'
  BY <1>38 DEF vars, TypeOK
<1> QED
  BY <1>1, <1>2, <1>3, <1>4, <1>5, <1>6, <1>7, <1>8, <1>9, <1>10, <1>11,
     <1>12, <1>13, <1>14, <1>15, <1>16, <1>17, <1>18, <1>19, <1>20, <1>21,
     <1>22, <1>23, <1>24, <1>25, <1>26, <1>27, <1>28, <1>29, <1>30, <1>31,
     <1>32, <1>33, <1>34, <1>35, <1>36, <1>37, <1>38
  DEF Next, LoopStep, Cancel, WorkerStep, AgentStep, TimerStep

--------------------------------------------------------------------------------
\* Every step keeps SettleInv.
LEMMA SettleStep ==
  ASSUME TypeOK, SettleInv, [Next]_vars
  PROVE  SettleInv'
<1>a. /\ run \in [Dispatch -> RunFlags] /\ pc \in [Dispatch -> PC]
      /\ ledger \in [Dispatch -> LedgerState] /\ out \in [Dispatch -> Outcome]
      /\ timer \in [Dispatch -> TimerState] /\ loop \in LoopState
  BY DEF TypeOK
<1> USE RunAssumption DEF runVars, workVars, lockVars, diskVars, auxVars, Goto,
        SettleInv, MarkedInv, FreshInv, OutcomeInv, SettledHasOutcome, None,
        Terminal, RunFlags, Outcome, TimerState, LoopState
<1>1. ASSUME NEW d \in Dispatch, Start(d) PROVE SettleInv'
  BY <1>a, <1>1 DEF Start, NewRun
<1>2. ASSUME NEW d \in Dispatch, SkipTerminal(d) PROVE SettleInv'
  BY <1>a, <1>2 DEF SkipTerminal
<1>3. ASSUME NEW d \in Dispatch, CancelBegin(d) PROVE SettleInv'
  BY <1>a, <1>3 DEF CancelBegin
<1>4. ASSUME NEW d \in Dispatch, CancelMark(d) PROVE SettleInv'
  BY <1>a, <1>4 DEF CancelMark, Mark
<1>5. ASSUME NEW d \in Dispatch, CancelPut(d) PROVE SettleInv'
  BY <1>a, <1>5 DEF CancelPut
<1>6. ASSUME NEW d \in Dispatch, CancelRecord(d) PROVE SettleInv'
  BY <1>a, <1>6 DEF CancelRecord
<1>7. ASSUME NEW d \in Dispatch, CancelRelease(d) PROVE SettleInv'
  BY <1>a, <1>7 DEF CancelRelease, ForceRelease
<1>8. ASSUME NEW d \in Dispatch, CancelDone(d) PROVE SettleInv'
  BY <1>a, <1>8 DEF CancelDone, Settle, LoopIdle
<1>9. ASSUME NEW d \in Dispatch, Forward(d) PROVE SettleInv'
  BY <1>a, <1>9 DEF Forward
<1>10. ASSUME NEW d \in Dispatch, ForwardEnd(d) PROVE SettleInv'
  BY <1>a, <1>10 DEF ForwardEnd
<1>11. ASSUME NEW d \in Dispatch, EmitMark(d) PROVE SettleInv'
  <2>1. \A e \in Dispatch :
           /\ run'[e].terminal = IF e = d /\ run[d].terminal = None
                                 THEN out[d].kind ELSE run[e].terminal
           /\ run'[e].done = run[e].done
    BY <1>a, <1>11 DEF EmitMark, Mark
  <2>2. /\ pc[d] = "emit" /\ pc'[d] \in {"put", "deref", "release", "final", "quit"}
        /\ pc'[d] = "put" => out'[d] = out[d]
        /\ \A e \in Dispatch \ {d} : pc'[e] = pc[e] /\ out'[e] = out[e]
    BY <1>a, <1>11 DEF EmitMark
  <2>3. UNCHANGED <<runs, ledger, timer, loop>>
    BY <1>11 DEF EmitMark
  <2> QED BY <1>a, <2>1, <2>2, <2>3
<1>12. ASSUME NEW d \in Dispatch, EmitPut(d) PROVE SettleInv'
  <2>1. /\ pc[d] = "put" /\ pc'[d] \in {"deref", "release", "final", "quit"}
        /\ \A e \in Dispatch \ {d} : pc'[e] = pc[e] /\ out'[e] = out[e]
    BY <1>a, <1>12 DEF EmitPut
  <2>2. UNCHANGED <<run, runs, ledger, timer, loop>>
    BY <1>12 DEF EmitPut
  <2>3. MarkedInv'
    BY <1>a, <2>2
  <2>4. FreshInv'
    BY <1>a, <2>1, <2>2
  <2>5. OutcomeInv'
    BY <1>a, <2>1, <2>2
  <2>6. SettledHasOutcome'
    BY <1>a, <2>1, <2>2
  <2> QED BY <2>3, <2>4, <2>5, <2>6
<1>13. ASSUME NEW d \in Dispatch, Setup(d) PROVE SettleInv'
  BY <1>a, <1>13 DEF Setup, ToEmit
<1>14. ASSUME NEW d \in Dispatch, EnterScope(d) PROVE SettleInv'
  BY <1>a, <1>14 DEF EnterScope
<1>15. ASSUME NEW d \in Dispatch, Expire(d) PROVE SettleInv'
  BY <1>a, <1>15 DEF Expire
<1>16. ASSUME NEW d \in Dispatch, CheckWait(d) PROVE SettleInv'
  <2>1. /\ pc[d] = "wait" /\ pc'[d] \in {"emit", "poll"}
        /\ pc'[d] = "emit" => out'[d].kind # None
        /\ \A e \in Dispatch \ {d} : pc'[e] = pc[e] /\ out'[e] = out[e]
    BY <1>a, <1>16 DEF CheckWait, ToEmit
  <2>2. UNCHANGED <<run, runs, ledger, timer, loop>>
    BY <1>16 DEF CheckWait
  <2>3. MarkedInv'
    BY <1>a, <2>2
  <2>4. FreshInv'
    BY <1>a, <2>1, <2>2
  <2>5. OutcomeInv'
    BY <1>a, <2>1, <2>2
  <2>6. SettledHasOutcome'
    BY <1>a, <2>1, <2>2
  <2> QED BY <2>3, <2>4, <2>5, <2>6
<1>17. ASSUME NEW d \in Dispatch, Acquire(d) PROVE SettleInv'
  BY <1>a, <1>17 DEF Acquire
<1>18. ASSUME NEW d \in Dispatch, AcquireFails(d) PROVE SettleInv'
  BY <1>a, <1>18 DEF AcquireFails
<1>19. ASSUME NEW d \in Dispatch, RecordOwner(d) PROVE SettleInv'
  BY <1>a, <1>19 DEF RecordOwner
<1>20. ASSUME NEW d \in Dispatch, CheckOwned(d) PROVE SettleInv'
  BY <1>a, <1>20 DEF CheckOwned, ToEmit
<1>21. ASSUME NEW d \in Dispatch, LoadSnapshot(d) PROVE SettleInv'
  BY <1>a, <1>21 DEF LoadSnapshot
<1>22. ASSUME NEW d \in Dispatch, BuildAgent(d) PROVE SettleInv'
  <2>1. /\ pc[d] = "build" /\ pc'[d] \in {"exec", "release"}
        /\ \A e \in Dispatch \ {d} : pc'[e] = pc[e] /\ out'[e] = out[e]
    BY <1>a, <1>22 DEF BuildAgent
  <2>2. /\ UNCHANGED <<run, runs, ledger, loop>>
        /\ \A e \in Dispatch \ {d} : timer'[e] = timer[e]
        /\ timer'[d] = timer[d] \/ timer'[d].at = "armed"
    <3>1. \/ timer' = timer
          \/ timer' = [timer EXCEPT ![d] = [at |-> "armed", kind |-> None]]
      BY <1>22 DEF BuildAgent
    <3> QED BY <3>1, <1>a, <1>22 DEF BuildAgent
  <2>3. MarkedInv'
    BY <1>a, <2>2
  <2>4. FreshInv'
    BY <1>a, <2>1, <2>2
  <2>5. OutcomeInv'
    BY <1>a, <2>1, <2>2
  <2>6. SettledHasOutcome'
    BY <1>a, <2>1, <2>2
  <2> QED BY <2>3, <2>4, <2>5, <2>6
<1>23. ASSUME NEW d \in Dispatch, AgentReturns(d) PROVE SettleInv'
  BY <1>a, <1>23 DEF AgentReturns
<1>24. ASSUME NEW d \in Dispatch, AgentRaises(d) PROVE SettleInv'
  BY <1>a, <1>24 DEF AgentRaises
<1>25. ASSUME NEW d \in Dispatch, ReleaseLock(d) PROVE SettleInv'
  BY <1>a, <1>25 DEF ReleaseLock
<1>26. ASSUME NEW d \in Dispatch, LeaveScope(d) PROVE SettleInv'
  BY <1>a, <1>26 DEF LeaveScope
<1>27. ASSUME NEW d \in Dispatch, SaveSnapshot(d) PROVE SettleInv'
  BY <1>a, <1>27 DEF SaveSnapshot
<1>28. ASSUME NEW d \in Dispatch, Finally(d) PROVE SettleInv'
  BY <1>a, <1>28 DEF Finally, ToEmit, TimerOff
<1>29. ASSUME NEW d \in Dispatch, RecordTerminal(d) PROVE SettleInv'
  BY <1>a, <1>29 DEF RecordTerminal
<1>30. ASSUME NEW d \in Dispatch, Quit(d) PROVE SettleInv'
  BY <1>a, <1>30 DEF Quit, Settle
<1>31. ASSUME NEW d \in Dispatch, TimerFire(d) PROVE SettleInv'
  <2>1. CASE run[d].done
    <3>1. /\ timer'[d].at = "off" /\ \A e \in Dispatch \ {d} : timer'[e] = timer[e]
          /\ UNCHANGED <<run, runs, pc, out, ledger, loop>>
      BY <2>1, <1>a, <1>31 DEF TimerFire, TimerOff
    <3>2. MarkedInv'
      <4>1. \A e \in Dispatch : timer'[e].at \in {timer[e].at, "off"}
        BY <3>1
      <4> QED BY <4>1, <3>1
    <3>3. FreshInv'
      <4>1. \A e \in Dispatch : timer'[e].at \in {timer[e].at, "off"}
        BY <3>1
      <4> QED BY <4>1, <3>1
    <3>4. OutcomeInv' /\ SettledHasOutcome'
      BY <3>1, <1>a
    <3> QED BY <3>2, <3>3, <3>4
  <2>2. CASE ~run[d].done
    <3>1. PICK kind \in Terminal :
            /\ run' = [run EXCEPT ![d].interrupted = TRUE,
                                  ![d].terminal = IF @ = None THEN kind ELSE @]
            /\ timer' = [timer EXCEPT ![d] =
                          [at |-> IF run[d].terminal = None THEN "put" ELSE "record",
                           kind |-> kind]]
      BY <2>2, <1>31 DEF TimerFire
    <3>2. \A e \in Dispatch :
             /\ run'[e].terminal = IF e = d /\ run[d].terminal = None
                                   THEN kind ELSE run[e].terminal
             /\ run'[e].done = run[e].done
      BY <1>a, <3>1
    <3>3. /\ timer[d].at = "armed" /\ timer'[d].kind = kind
          /\ \A e \in Dispatch \ {d} : timer'[e] = timer[e]
      BY <1>a, <1>31, <3>1 DEF TimerFire
    <3>4. UNCHANGED <<runs, pc, out, ledger, loop>>
      BY <1>31 DEF TimerFire
    <3> QED BY <1>a, <3>1, <3>2, <3>3, <3>4
  <2> QED BY <2>1, <2>2
<1>32. ASSUME NEW d \in Dispatch, TimerPut(d) PROVE SettleInv'
  BY <1>a, <1>32 DEF TimerPut
<1>33. ASSUME NEW d \in Dispatch, TimerRecord(d) PROVE SettleInv'
  BY <1>a, <1>33 DEF TimerRecord
<1>34. ASSUME NEW d \in Dispatch, TimerRelease(d) PROVE SettleInv'
  BY <1>a, <1>34 DEF TimerRelease, ForceRelease
<1>35. ASSUME NEW d \in Dispatch, TimerDone(d) PROVE SettleInv'
  BY <1>a, <1>35 DEF TimerDone, Settle, TimerOff
<1>36. ASSUME NEW s \in Session, ResetSession(s) PROVE SettleInv'
  BY <1>a, <1>36 DEF ResetSession
<1>37. ASSUME Crash PROVE SettleInv'
  BY <1>a, <1>37 DEF Crash, NewRun, NoOut, TimerOff, LoopIdle
<1>38. ASSUME UNCHANGED vars PROVE SettleInv'
  BY <1>a, <1>38 DEF vars
<1> HIDE DEF SettleInv
<1> QED
  BY <1>1, <1>2, <1>3, <1>4, <1>5, <1>6, <1>7, <1>8, <1>9, <1>10, <1>11,
     <1>12, <1>13, <1>14, <1>15, <1>16, <1>17, <1>18, <1>19, <1>20, <1>21,
     <1>22, <1>23, <1>24, <1>25, <1>26, <1>27, <1>28, <1>29, <1>30, <1>31,
     <1>32, <1>33, <1>34, <1>35, <1>36, <1>37, <1>38
  DEF Next, LoopStep, Cancel, WorkerStep, AgentStep, TimerStep

--------------------------------------------------------------------------------
\* A marked run stays marked while its worker may own a lock.
LEMMA MarkStays ==
  ASSUME TypeOK, [Next]_vars, NEW e \in Dispatch, run[e].terminal # None
  PROVE  run'[e].terminal # None \/ ~MayOwn(e)'
<1>a. run \in [Dispatch -> RunFlags] /\ pc \in [Dispatch -> PC]
  BY DEF TypeOK
<1>1. ASSUME NEW d \in Dispatch, Start(d)
      PROVE  run'[e].terminal # None \/ ~MayOwn(e)'
  BY <1>1, <1>a DEF Start, Goto, MayOwn, CriticalPC
<1>2. ASSUME NEW d \in Dispatch,
             \/ CancelBegin(d) \/ CancelMark(d) \/ CancelDone(d) \/ EmitMark(d)
             \/ Expire(d) \/ Quit(d) \/ TimerDone(d)
      PROVE  run'[e].terminal # None
  BY <1>2, <1>a DEF CancelBegin, CancelMark, CancelDone, EmitMark, Expire, Quit,
     TimerDone, Mark, Settle, RunFlags
<1>3. ASSUME NEW d \in Dispatch, TimerFire(d)
      PROVE  run'[e].terminal # None
  <2>1. CASE run[d].done
    BY <2>1, <1>3 DEF TimerFire
  <2>2. CASE ~run[d].done
    <3>1. PICK kind : run' = [run EXCEPT ![d].interrupted = TRUE,
                                ![d].terminal = IF @ = None THEN kind ELSE @]
      BY <2>2, <1>3 DEF TimerFire
    <3> QED BY <3>1, <1>a DEF RunFlags
  <2> QED BY <2>1, <2>2
<1>4. ASSUME NEW d \in Dispatch,
             \/ SkipTerminal(d) \/ CancelPut(d) \/ CancelRecord(d)
             \/ CancelRelease(d) \/ Forward(d) \/ ForwardEnd(d) \/ EmitPut(d)
             \/ Setup(d) \/ EnterScope(d) \/ CheckWait(d) \/ Acquire(d)
             \/ AcquireFails(d) \/ RecordOwner(d) \/ CheckOwned(d)
             \/ LoadSnapshot(d) \/ BuildAgent(d) \/ AgentReturns(d)
             \/ AgentRaises(d) \/ ReleaseLock(d) \/ LeaveScope(d)
             \/ SaveSnapshot(d) \/ Finally(d) \/ RecordTerminal(d)
             \/ TimerPut(d) \/ TimerRecord(d) \/ TimerRelease(d)
      PROVE  run' = run
  BY <1>4 DEF SkipTerminal, CancelPut, CancelRecord, CancelRelease, Forward,
     ForwardEnd, EmitPut, Setup, EnterScope, CheckWait, Acquire, AcquireFails,
     RecordOwner, CheckOwned, LoadSnapshot, BuildAgent, AgentReturns,
     AgentRaises, ReleaseLock, LeaveScope, SaveSnapshot, Finally,
     RecordTerminal, TimerPut, TimerRecord, TimerRelease, runVars
<1>5. ASSUME NEW s \in Session, ResetSession(s) PROVE run' = run
  BY <1>5 DEF ResetSession, runVars
<1>6. ASSUME Crash PROVE ~MayOwn(e)'
  BY <1>6 DEF Crash, MayOwn, CriticalPC, None
<1>7. ASSUME UNCHANGED vars PROVE run' = run
  BY <1>7 DEF vars, runVars
<1> QED
  BY <1>1, <1>2, <1>3, <1>4, <1>5, <1>6, <1>7
  DEF Next, LoopStep, Cancel, WorkerStep, AgentStep, TimerStep

\* Every step keeps UnsettledOwns.
LEMMA OwnsStep ==
  ASSUME TypeOK, LockInv, SettleInv, UnsettledOwns, [Next]_vars
  PROVE  UnsettledOwns'
<1>a. /\ obj \in [Dispatch -> Dispatch \cup {NoDispatch}]
      /\ owner \in [Dispatch -> Dispatch \cup {NoDispatch}]
      /\ pc \in [Dispatch -> PC] /\ NoDispatch \notin Dispatch
  BY RunAssumption DEF TypeOK
<1>b. \A e \in Dispatch : /\ MayOwn(e)' /\ run'[e].terminal = None
                          /\ MayOwn(e)
                          => run[e].terminal = None /\ owner[obj[e]] = e
  BY MarkStays DEF UnsettledOwns
<1>c. \A e \in Dispatch : MayOwn(e) => obj[e] \in Dispatch
  BY <1>a DEF LockInv, ObjInv, InScope, MayOwn, ScopedPC
<1>1. ASSUME Drift PROVE UnsettledOwns'
  BY <1>1, <1>b DEF Drift, lockVars, UnsettledOwns
<1>2. ASSUME NEW d \in Dispatch,
             \/ Start(d) \/ EmitMark(d) \/ EmitPut(d) \/ Setup(d) \/ CheckWait(d)
             \/ AcquireFails(d) \/ CheckOwned(d) \/ LoadSnapshot(d)
             \/ BuildAgent(d) \/ AgentReturns(d) \/ AgentRaises(d)
             \/ SaveSnapshot(d) \/ Finally(d) \/ RecordTerminal(d) \/ Quit(d)
      PROVE  UnsettledOwns'
  BY <1>1, <1>2, WorkerDrifts DEF SettleInv
<1>3. ASSUME NEW d \in Dispatch, EnterScope(d) PROVE UnsettledOwns'
  <2>1. \A e \in Dispatch : MayOwn(e)' => MayOwn(e) /\ obj'[e] = obj[e]
    BY <1>3, <1>a DEF EnterScope, Goto, MayOwn, CriticalPC
  <2>2. owner' = owner
    BY <1>3 DEF EnterScope
  <2> QED BY <2>1, <2>2, <1>b DEF UnsettledOwns
<1>4. ASSUME NEW d \in Dispatch, Acquire(d) PROVE UnsettledOwns'
  <2>1. \A e \in Dispatch : MayOwn(e)' => MayOwn(e)
    BY <1>4, <1>a DEF Acquire, Goto, MayOwn, CriticalPC
  <2>2. owner' = owner /\ obj' = obj
    BY <1>4 DEF Acquire
  <2> QED BY <2>1, <2>2, <1>b DEF UnsettledOwns
<1>5. ASSUME NEW d \in Dispatch, RecordOwner(d) PROVE UnsettledOwns'
  <2>1. /\ pc[d] = "got" /\ owner' = [owner EXCEPT ![obj[d]] = d] /\ obj' = obj
        /\ owner[obj[d]] = NoDispatch
    BY <1>5 DEF RecordOwner, LockInv, GotInv
  <2>2. \A e \in Dispatch \ {d} : MayOwn(e)' => MayOwn(e)
    BY <1>5, <1>a DEF RecordOwner, Goto, MayOwn
  <2>3. obj[d] \in Dispatch
    BY <2>1, <1>a DEF LockInv, ObjInv, InScope, ScopedPC
  <2> QED BY <2>1, <2>2, <2>3, <1>a, <1>b DEF UnsettledOwns
<1>6. ASSUME NEW d \in Dispatch, ReleaseLock(d) PROVE UnsettledOwns'
  <2>1. ~MayOwn(d)' /\ \A e \in Dispatch \ {d} : MayOwn(e)' => MayOwn(e)
    BY <1>6, <1>a DEF ReleaseLock, Goto, MayOwn, CriticalPC
  <2>2. obj' = obj /\ \A o \in Dispatch : owner'[o] = owner[o] \/ owner[o] = d
    BY <1>6, <1>a DEF ReleaseLock
  <2> QED BY <2>1, <2>2, <1>b, <1>c DEF UnsettledOwns
<1>7. ASSUME NEW d \in Dispatch, LeaveScope(d) PROVE UnsettledOwns'
  <2>1. owner' = owner /\ \A e \in Dispatch \ {d} : obj'[e] = obj[e]
    BY <1>7, <1>a DEF LeaveScope
  <2>2. ~MayOwn(d)' /\ \A e \in Dispatch \ {d} : MayOwn(e)' => MayOwn(e)
    <3>1. obj'[d] = NoDispatch /\ ObjInv'
      BY <1>7, <1>a, LeaveScopeStep DEF LeaveScope, LockInv
    <3>2. ~InScope(d)'
      BY <3>1 DEF ObjInv
    <3> QED BY <1>7, <1>a, <3>2 DEF LeaveScope, Goto, MayOwn, InScope, ScopedPC
  <2> QED BY <2>1, <2>2, <1>b DEF UnsettledOwns
<1>8. ASSUME NEW d \in Dispatch, CancelRelease(d) \/ TimerRelease(d)
      PROVE  UnsettledOwns'
  <2>1. run[d].terminal # None
    <3>1. CASE CancelRelease(d)
      BY <3>1, <1>a DEF CancelRelease, SettleInv, MarkedInv
    <3>2. CASE TimerRelease(d)
      BY <3>2 DEF TimerRelease, SettleInv, MarkedInv
    <3> QED BY <1>8, <3>1, <3>2
  <2>2. /\ UNCHANGED <<pc, out, obj, run>>
        /\ \A o \in Dispatch : owner'[o] = owner[o] \/ owner[o] = d
    BY <1>8 DEF CancelRelease, TimerRelease, ForceRelease, OwnedBy, workVars,
       runVars
  <2>3. \A e \in Dispatch : MayOwn(e)' <=> MayOwn(e)
    BY <2>2 DEF MayOwn
  <2> QED BY <2>1, <2>2, <2>3, <1>c DEF UnsettledOwns
<1>9. ASSUME UNCHANGED <<pc, out, obj, lockVars>> PROVE UnsettledOwns'
  BY <1>9, <1>b DEF UnsettledOwns, MayOwn, lockVars
<1>10. ASSUME NEW d \in Dispatch,
             \/ SkipTerminal(d) \/ CancelBegin(d) \/ CancelMark(d)
             \/ CancelPut(d) \/ CancelRecord(d) \/ CancelDone(d)
             \/ Forward(d) \/ ForwardEnd(d) \/ Expire(d) \/ TimerFire(d)
             \/ TimerPut(d) \/ TimerRecord(d) \/ TimerDone(d)
      PROVE  UNCHANGED <<pc, out, obj, lockVars>>
  BY <1>10 DEF SkipTerminal, CancelBegin, CancelMark, CancelPut, CancelRecord,
     CancelDone, Forward, ForwardEnd, Expire, TimerFire, TimerPut, TimerRecord,
     TimerDone, workVars
<1>11. ASSUME NEW s \in Session, ResetSession(s)
       PROVE  UNCHANGED <<pc, out, obj, lockVars>>
  BY <1>11 DEF ResetSession, workVars
<1>12. ASSUME Crash PROVE UnsettledOwns'
  BY <1>12 DEF Crash, UnsettledOwns, MayOwn, CriticalPC, None
<1>13. ASSUME UNCHANGED vars PROVE UNCHANGED <<pc, out, obj, lockVars>>
  BY <1>13 DEF vars, workVars
<1> QED
  BY <1>2, <1>3, <1>4, <1>5, <1>6, <1>7, <1>8, <1>9, <1>10, <1>11, <1>12, <1>13
  DEF Next, LoopStep, Cancel, WorkerStep, AgentStep, TimerStep

--------------------------------------------------------------------------------
\* Nothing has happened yet.
LEMMA InitInv == Init => IInv
<1> SUFFICES ASSUME Init PROVE IInv
  OBVIOUS
<1>1. TypeOK
  <2>1. /\ NewRun \in RunFlags /\ NoOut \in Outcome /\ TimerOff \in TimerState
        /\ LoopIdle \in LoopState /\ None \in PC /\ None \in LedgerState
    BY DEF NewRun, RunFlags, NoOut, Outcome, TimerOff, TimerState, LoopIdle,
       LoopState, None, PC, LedgerState
  <2> QED BY <2>1 DEF Init, TypeOK
<1>2. LockInv
  BY LockFresh DEF Init, NoLocks
<1>3. SettleInv
  BY RunAssumption DEF Init, SettleInv, MarkedInv, FreshInv, OutcomeInv,
     SettledHasOutcome, NewRun, NoOut, TimerOff, LoopIdle, None
<1>4. UnsettledOwns
  BY DEF Init, UnsettledOwns, MayOwn, CriticalPC, None
<1> QED BY <1>1, <1>2, <1>3, <1>4 DEF IInv

\* Every step keeps the inductive invariant.
LEMMA InductiveStep == IInv /\ [Next]_vars => IInv'
<1> SUFFICES ASSUME IInv, [Next]_vars PROVE IInv'
  OBVIOUS
<1> QED BY LockStep, TypeStep, SettleStep, OwnsStep DEF IInv, SettleInv

\* The inductive invariant holds in every reachable state.
THEOREM Invariance == Spec => []IInv
BY InitInv, InductiveStep, PTL DEF Spec

\* The state of the run manager keeps its types; in particular no reference
\* count of a lock object ever becomes negative.
THEOREM TypeCorrect == Spec => []TypeOK
<1>1. IInv => TypeOK
  BY DEF IInv
<1> QED BY <1>1, Invariance, PTL

\* The execution lock excludes: two unsettled runs with one lock key are never
\* inside _scoped_execution together, for any number of dispatches and keys,
\* through cancels, timeouts, give-ups and crashes.
THEOREM Exclusion == Spec => []OneUnsettledRunPerKey
<1>1. IInv => OneUnsettledRunPerKey
  <2> SUFFICES ASSUME IInv, NEW d \in Dispatch, NEW e \in Dispatch, d # e,
                      KeyOf[d] = KeyOf[e], Executing(d), Executing(e),
                      run[d].terminal = None, run[e].terminal = None
               PROVE  FALSE
    BY DEF OneUnsettledRunPerKey
  <2>1. owner[obj[d]] = d /\ owner[obj[e]] = e
    BY DEF IInv, UnsettledOwns, MayOwn, Executing
  <2>2. obj[d] = obj[e]
    BY DEF IInv, LockInv, ObjInv, InScope, ScopedPC, Executing
  <2> QED BY <2>1, <2>2
<1> QED BY <1>1, Invariance, PTL

\* A locked execution lock always has a run inside that will unlock it.
THEOREM NoLeakedLock == Spec => []LockedByALivingRun
<1>1. IInv => LockedByALivingRun
  BY DEF IInv, LockInv
<1> QED BY <1>1, Invariance, PTL

\* The map of lock objects holds exactly the lock objects in use.
THEOREM LockMap == Spec => []MapHoldsTheLocksInUse
<1>1. IInv => MapHoldsTheLocksInUse
  BY DEF IInv, LockInv, ObjInv, EntryInv, MapHoldsTheLocksInUse
<1> QED BY <1>1, Invariance, PTL

\* The manager's state is well typed, no lock is leaked, and the map of lock objects
\* and the runs that use them fit together.
THEOREM Consistency == Spec => []Consistent
<1>1. TypeOK /\ LockedByALivingRun /\ MapHoldsTheLocksInUse => Consistent
  BY DEF Consistent
<1> QED BY <1>1, TypeCorrect, NoLeakedLock, LockMap, PTL

\* Whoever settles a run or records its end, its terminal event was chosen.
THEOREM SettledOutcome == Spec => []SettledHasOutcome
<1>1. IInv => SettledHasOutcome
  BY DEF IInv, SettleInv
<1> QED BY <1>1, Invariance, PTL

--------------------------------------------------------------------------------
(***************************************************************************)
(* HermesRun implements RunPromise: at most one execution and at most one  *)
(* report of each dispatch, for every value of the constants.              *)
(***************************************************************************)

\* The threads that have marked d and not yet put its event.
Putting(d) == (IF pc[d] = "put" THEN 1 ELSE 0)
              + (IF loop.d = d /\ loop.at = "put" THEN 1 ELSE 0)
              + (IF timer[d].at = "put" THEN 1 ELSE 0)

\* The terminal events of d that exist somewhere.
Events(d) == Len(sent[d]) + Len(queue[d]) + Putting(d)

\* Nobody acts for a dispatch whose worker was not started by this process.
QuietInv == \A d \in Dispatch : pc[d] = None =>
                d \notin runs /\ timer[d].at = "off" /\ loop.d # d

\* There is at most one terminal event, and none before the run is marked.
EventInv == \A d \in Dispatch :
                /\ Events(d) <= 1
                /\ pc[d] # None /\ run[d].terminal = None => Events(d) = 0

\* A worker that may still begin its conversation has not begun one, and its
\* watchdog is not started.
EarlyPC == {"begin", "enter", "wait", "poll", "got", "owned", "load", "build"}

ExecInv == \A d \in Dispatch : /\ execs[d] \in {0, 1}
                               /\ pc[d] \in EarlyPC => execs[d] = 0 /\ timer[d].at = "off"

\* A dispatch the ledger does not know was neither executed nor reported.
UnknownInv == \A d \in Dispatch : ledger[d] = None =>
                  execs[d] = 0 /\ sent[d] = <<>> /\ queue[d] = <<>>

PInv == QuietInv /\ EventInv /\ ExecInv /\ UnknownInv

--------------------------------------------------------------------------------
\* Every step keeps the parts of PInv that do not count events.
LEMMA TraceStep ==
  ASSUME TypeOK, SettleInv, QuietInv, ExecInv, UnknownInv, [Next]_vars
  PROVE  QuietInv' /\ ExecInv' /\ UnknownInv'
<1>a. /\ pc \in [Dispatch -> PC] /\ ledger \in [Dispatch -> LedgerState]
      /\ out \in [Dispatch -> Outcome] /\ timer \in [Dispatch -> TimerState]
      /\ loop \in LoopState /\ execs \in [Dispatch -> Nat]
      /\ sent \in [Dispatch -> Seq(Terminal)] /\ runs \subseteq Dispatch
      /\ queue \in [Dispatch -> Seq(Terminal)] /\ run \in [Dispatch -> RunFlags]
  BY DEF TypeOK
<1>b. \A d \in Dispatch : out[d].then \notin EarlyPC /\ out[d].then # None
  BY <1>a DEF Outcome, EarlyPC, None
<1> USE RunAssumption DEF runVars, workVars, lockVars, diskVars, auxVars, Goto,
        QuietInv, ExecInv, UnknownInv, None
<1>c. \A d \in Dispatch : run[d].terminal # None => ledger[d] # None \/ pc[d] = None
  BY DEF SettleInv, FreshInv
<1>1. ASSUME NEW d \in Dispatch, Start(d)
      PROVE  QuietInv' /\ ExecInv' /\ UnknownInv'
  BY <1>a, <1>b, <1>1 DEF Start, NewRun, EarlyPC, SettleInv, FreshInv
<1>2. ASSUME NEW d \in Dispatch, SkipTerminal(d)
      PROVE  QuietInv' /\ ExecInv' /\ UnknownInv'
  BY <1>a, <1>b, <1>2 DEF SkipTerminal, EarlyPC, SettleInv, FreshInv
<1>3. ASSUME NEW d \in Dispatch, CancelBegin(d)
      PROVE  QuietInv' /\ ExecInv' /\ UnknownInv'
  BY <1>a, <1>b, <1>3 DEF CancelBegin, EarlyPC, SettleInv, FreshInv
<1>4. ASSUME NEW d \in Dispatch, CancelMark(d)
      PROVE  QuietInv' /\ ExecInv' /\ UnknownInv'
  BY <1>a, <1>b, <1>4 DEF CancelMark, Mark, EarlyPC, SettleInv, FreshInv
<1>5. ASSUME NEW d \in Dispatch, CancelPut(d)
      PROVE  QuietInv' /\ ExecInv' /\ UnknownInv'
  BY <1>a, <1>b, <1>5 DEF CancelPut, EarlyPC, SettleInv, FreshInv
<1>6. ASSUME NEW d \in Dispatch, CancelRecord(d)
      PROVE  QuietInv' /\ ExecInv' /\ UnknownInv'
  BY <1>a, <1>b, <1>6 DEF CancelRecord, EarlyPC, SettleInv, FreshInv
<1>7. ASSUME NEW d \in Dispatch, CancelRelease(d)
      PROVE  QuietInv' /\ ExecInv' /\ UnknownInv'
  BY <1>a, <1>b, <1>7 DEF CancelRelease, EarlyPC, SettleInv, FreshInv
<1>8. ASSUME NEW d \in Dispatch, CancelDone(d)
      PROVE  QuietInv' /\ ExecInv' /\ UnknownInv'
  BY <1>a, <1>b, <1>8 DEF CancelDone, Settle, LoopIdle, EarlyPC, SettleInv, FreshInv
<1>9. ASSUME NEW d \in Dispatch, Forward(d)
      PROVE  QuietInv' /\ ExecInv' /\ UnknownInv'
  BY <1>a, <1>b, <1>9 DEF Forward, EarlyPC, SettleInv, FreshInv
<1>10. ASSUME NEW d \in Dispatch, ForwardEnd(d)
      PROVE  QuietInv' /\ ExecInv' /\ UnknownInv'
  BY <1>a, <1>b, <1>10 DEF ForwardEnd, EarlyPC, SettleInv, FreshInv
<1>11. ASSUME NEW d \in Dispatch, EmitMark(d)
      PROVE  QuietInv' /\ ExecInv' /\ UnknownInv'
  BY <1>a, <1>b, <1>11 DEF EmitMark, Mark, NoOut, EarlyPC, SettleInv, FreshInv
<1>12. ASSUME NEW d \in Dispatch, EmitPut(d)
      PROVE  QuietInv' /\ ExecInv' /\ UnknownInv'
  BY <1>a, <1>b, <1>12 DEF EmitPut, NoOut, EarlyPC, SettleInv, FreshInv
<1>13. ASSUME NEW d \in Dispatch, Setup(d)
      PROVE  QuietInv' /\ ExecInv' /\ UnknownInv'
  BY <1>a, <1>b, <1>13 DEF Setup, ToEmit, EarlyPC, SettleInv, FreshInv
<1>14. ASSUME NEW d \in Dispatch, EnterScope(d)
      PROVE  QuietInv' /\ ExecInv' /\ UnknownInv'
  BY <1>a, <1>b, <1>14 DEF EnterScope, EarlyPC, SettleInv, FreshInv
<1>15. ASSUME NEW d \in Dispatch, Expire(d)
      PROVE  QuietInv' /\ ExecInv' /\ UnknownInv'
  BY <1>a, <1>b, <1>15 DEF Expire, EarlyPC, SettleInv, FreshInv
<1>16. ASSUME NEW d \in Dispatch, CheckWait(d)
      PROVE  QuietInv' /\ ExecInv' /\ UnknownInv'
  BY <1>a, <1>b, <1>16 DEF CheckWait, ToEmit, EarlyPC, SettleInv, FreshInv
<1>17. ASSUME NEW d \in Dispatch, Acquire(d)
      PROVE  QuietInv' /\ ExecInv' /\ UnknownInv'
  BY <1>a, <1>b, <1>17 DEF Acquire, EarlyPC, SettleInv, FreshInv
<1>18. ASSUME NEW d \in Dispatch, AcquireFails(d)
      PROVE  QuietInv' /\ ExecInv' /\ UnknownInv'
  BY <1>a, <1>b, <1>18 DEF AcquireFails, EarlyPC, SettleInv, FreshInv
<1>19. ASSUME NEW d \in Dispatch, RecordOwner(d)
      PROVE  QuietInv' /\ ExecInv' /\ UnknownInv'
  BY <1>a, <1>b, <1>19 DEF RecordOwner, EarlyPC, SettleInv, FreshInv
<1>20. ASSUME NEW d \in Dispatch, CheckOwned(d)
      PROVE  QuietInv' /\ ExecInv' /\ UnknownInv'
  BY <1>a, <1>b, <1>20 DEF CheckOwned, ToEmit, EarlyPC, SettleInv, FreshInv
<1>21. ASSUME NEW d \in Dispatch, LoadSnapshot(d)
      PROVE  QuietInv' /\ ExecInv' /\ UnknownInv'
  BY <1>a, <1>b, <1>21 DEF LoadSnapshot, EarlyPC, SettleInv, FreshInv
<1>22. ASSUME NEW d \in Dispatch, BuildAgent(d)
      PROVE  QuietInv' /\ ExecInv' /\ UnknownInv'
  <2>1. /\ UNCHANGED <<runs, loop, ledger, sent, queue>> /\ pc[d] = "build"
        /\ pc'[d] \in {"exec", "release"}
        /\ \A e \in Dispatch \ {d} : pc'[e] = pc[e]
    BY <1>a, <1>22 DEF BuildAgent
  <2>2. \A e \in Dispatch \ {d} : timer'[e] = timer[e] /\ execs'[e] = execs[e]
    <3>1. \/ timer' = timer
          \/ timer' = [timer EXCEPT ![d] = [at |-> "armed", kind |-> None]]
      BY <1>22 DEF BuildAgent
    <3> QED BY <3>1, <1>a, <1>22 DEF BuildAgent
  <2>3. execs[d] = 0 /\ execs'[d] \in {0, 1} /\ ledger[d] # None
    BY <1>a, <1>22 DEF BuildAgent, EarlyPC, SettleInv, FreshInv
  <2> QED BY <2>1, <2>2, <2>3 DEF EarlyPC
<1>23. ASSUME NEW d \in Dispatch, AgentReturns(d)
      PROVE  QuietInv' /\ ExecInv' /\ UnknownInv'
  BY <1>a, <1>b, <1>23 DEF AgentReturns, EarlyPC, SettleInv, FreshInv
<1>24. ASSUME NEW d \in Dispatch, AgentRaises(d)
      PROVE  QuietInv' /\ ExecInv' /\ UnknownInv'
  BY <1>a, <1>b, <1>24 DEF AgentRaises, EarlyPC, SettleInv, FreshInv
<1>25. ASSUME NEW d \in Dispatch, ReleaseLock(d)
      PROVE  QuietInv' /\ ExecInv' /\ UnknownInv'
  BY <1>a, <1>b, <1>25 DEF ReleaseLock, EarlyPC, SettleInv, FreshInv
<1>26. ASSUME NEW d \in Dispatch, LeaveScope(d)
      PROVE  QuietInv' /\ ExecInv' /\ UnknownInv'
  BY <1>a, <1>b, <1>26 DEF LeaveScope, EarlyPC, SettleInv, FreshInv
<1>27. ASSUME NEW d \in Dispatch, SaveSnapshot(d)
      PROVE  QuietInv' /\ ExecInv' /\ UnknownInv'
  BY <1>a, <1>b, <1>27 DEF SaveSnapshot, EarlyPC, SettleInv, FreshInv
<1>28. ASSUME NEW d \in Dispatch, Finally(d)
      PROVE  QuietInv' /\ ExecInv' /\ UnknownInv'
  BY <1>a, <1>b, <1>28 DEF Finally, ToEmit, TimerOff, EarlyPC, SettleInv, FreshInv
<1>29. ASSUME NEW d \in Dispatch, RecordTerminal(d)
      PROVE  QuietInv' /\ ExecInv' /\ UnknownInv'
  BY <1>a, <1>b, <1>29 DEF RecordTerminal, EarlyPC, SettleInv, OutcomeInv
<1>30. ASSUME NEW d \in Dispatch, Quit(d)
      PROVE  QuietInv' /\ ExecInv' /\ UnknownInv'
  BY <1>a, <1>b, <1>30 DEF Quit, Settle, EarlyPC, SettleInv, FreshInv
<1>31. ASSUME NEW d \in Dispatch, TimerFire(d)
      PROVE  QuietInv' /\ ExecInv' /\ UnknownInv'
  <2>1. /\ UNCHANGED <<runs, loop, ledger, sent, queue, pc, execs>>
        /\ timer[d].at = "armed"
        /\ \A e \in Dispatch \ {d} : timer'[e] = timer[e]
    BY <1>a, <1>31 DEF TimerFire
  <2>2. pc[d] # None /\ pc[d] \notin EarlyPC
    BY <2>1
  <2> QED BY <2>1, <2>2
<1>32. ASSUME NEW d \in Dispatch, TimerPut(d)
      PROVE  QuietInv' /\ ExecInv' /\ UnknownInv'
  BY <1>a, <1>b, <1>32 DEF TimerPut, EarlyPC, SettleInv, FreshInv
<1>33. ASSUME NEW d \in Dispatch, TimerRecord(d)
      PROVE  QuietInv' /\ ExecInv' /\ UnknownInv'
  BY <1>a, <1>b, <1>33 DEF TimerRecord, EarlyPC, SettleInv, OutcomeInv
<1>34. ASSUME NEW d \in Dispatch, TimerRelease(d)
      PROVE  QuietInv' /\ ExecInv' /\ UnknownInv'
  BY <1>a, <1>b, <1>34 DEF TimerRelease, EarlyPC, SettleInv, FreshInv
<1>35. ASSUME NEW d \in Dispatch, TimerDone(d)
      PROVE  QuietInv' /\ ExecInv' /\ UnknownInv'
  BY <1>a, <1>b, <1>35 DEF TimerDone, Settle, TimerOff, EarlyPC, SettleInv, FreshInv
<1>36. ASSUME NEW s \in Session, ResetSession(s)
      PROVE  QuietInv' /\ ExecInv' /\ UnknownInv'
  BY <1>36 DEF ResetSession
<1>37. ASSUME Crash PROVE QuietInv' /\ ExecInv' /\ UnknownInv'
  BY <1>37 DEF Crash, TimerOff, LoopIdle, EarlyPC
<1>38. ASSUME UNCHANGED vars PROVE QuietInv' /\ ExecInv' /\ UnknownInv'
  BY <1>38 DEF vars
<1> HIDE DEF QuietInv, ExecInv, UnknownInv
<1> QED
  BY <1>1, <1>2, <1>3, <1>4, <1>5, <1>6, <1>7, <1>8, <1>9, <1>10, <1>11,
     <1>12, <1>13, <1>14, <1>15, <1>16, <1>17, <1>18, <1>19, <1>20, <1>21,
     <1>22, <1>23, <1>24, <1>25, <1>26, <1>27, <1>28, <1>29, <1>30, <1>31,
     <1>32, <1>33, <1>34, <1>35, <1>36, <1>37, <1>38
  DEF Next, LoopStep, Cancel, WorkerStep, AgentStep, TimerStep

--------------------------------------------------------------------------------
\* A step after which no run is newly unmarked, and no event newly exists, keeps
\* EventInv.
EventFrame == \A e \in Dispatch :
                  /\ Events(e)' = Events(e)
                  /\ pc'[e] # None /\ run'[e].terminal = None
                        => pc[e] # None /\ run[e].terminal = None

\* The number of puts under way is a number, before and after a step.
LEMMA PuttingType == \A e : Putting(e) \in Nat /\ Putting(e)' \in Nat
BY DEF Putting

\* Such a step keeps EventInv.
LEMMA EventFrameStep == ASSUME EventInv, EventFrame PROVE EventInv'
BY DEF EventInv, EventFrame

\* A step that gives a marked run its event keeps EventInv.
MarkFrame(d) == /\ Events(d)' <= Events(d) + 1
                /\ pc[d] # None /\ run[d].terminal = None
                /\ run'[d].terminal # None
                /\ \A e \in Dispatch \ {d} :
                      /\ Events(e)' = Events(e)
                      /\ pc'[e] = pc[e] /\ run'[e].terminal = run[e].terminal

\* Such a step keeps EventInv: the run had no event before it was marked.
LEMMA MarkFrameStep ==
  ASSUME TypeOK, EventInv, NEW d \in Dispatch, MarkFrame(d)
  PROVE  EventInv'
<1>1. Events(d) = 0
  BY DEF EventInv, MarkFrame
<1>2. Events(d)' <= 1
  BY <1>1 DEF MarkFrame
<1> QED BY <1>2 DEF EventInv, MarkFrame

\* What an attempt to mark a run amounts to.
LEMMA MarkedOrNot ==
  ASSUME TypeOK, NEW d \in Dispatch, NEW kind, kind # None,
         UNCHANGED <<sent, queue>>, pc[d] # None,
         \A e \in Dispatch : run'[e].terminal =
            IF e = d /\ run[d].terminal = None THEN kind ELSE run[e].terminal,
         \A e \in Dispatch \ {d} : pc'[e] = pc[e],
         Putting(d)' = Putting(d) + IF run[d].terminal = None THEN 1 ELSE 0,
         \A e \in Dispatch \ {d} : Putting(e)' = Putting(e)
  PROVE  MarkFrame(d) \/ EventFrame
<1>a. \A e \in Dispatch : Len(sent[e]) \in Nat /\ Len(queue[e]) \in Nat
  BY DEF TypeOK
<1>b. \A e \in Dispatch \ {d} : Events(e)' = Events(e)
  BY DEF Events
<1>c. /\ Putting(d) \in Nat /\ Putting(d)' \in Nat
      /\ sent'[d] = sent[d] /\ queue'[d] = queue[d]
  BY PuttingType
<1>1. CASE run[d].terminal = None
  <2>1. Events(d)' <= Events(d) + 1
    <3>1. Putting(d)' = Putting(d) + 1
      BY <1>1
    <3>2. PICK m \in Nat, n \in Nat : m = Len(sent[d]) /\ n = Len(queue[d])
      BY <1>a
    <3>3. /\ Events(d) = m + n + Putting(d)
          /\ Events(d)' = m + n + (Putting(d) + 1)
      BY <3>1, <3>2, <1>c DEF Events
    <3> QED BY <3>3, <1>c
  <2> QED BY <1>1, <1>b, <2>1 DEF MarkFrame
<1>2. CASE run[d].terminal # None
  <2>1. Events(d)' = Events(d)
    <3>1. Putting(d)' = Putting(d)
      BY <1>2, <1>c
    <3> QED BY <3>1, <1>a, <1>c DEF Events
  <2> QED BY <1>2, <1>b, <2>1 DEF EventFrame
<1> QED BY <1>1, <1>2

\* The steps that mark a run.
LEMMA MarkSteps ==
  ASSUME TypeOK, QuietInv, OutcomeInv, NEW d \in Dispatch,
         CancelMark(d) \/ EmitMark(d) \/ TimerFire(d)
  PROVE  MarkFrame(d) \/ EventFrame
<1>a. /\ pc \in [Dispatch -> PC] /\ run \in [Dispatch -> RunFlags]
      /\ out \in [Dispatch -> Outcome] /\ timer \in [Dispatch -> TimerState]
      /\ loop \in LoopState /\ NoDispatch \notin Dispatch
      /\ \A e \in Dispatch : Len(sent[e]) \in Nat /\ Len(queue[e]) \in Nat
  BY RunAssumption DEF TypeOK
<1>1. CASE CancelMark(d)
  <2>1. /\ UNCHANGED <<sent, queue, pc, timer>>
        /\ loop = [d |-> d, at |-> "mark"]
        /\ loop' = [d |-> d, at |-> IF run[d].terminal = None THEN "put" ELSE "record"]
    BY <1>1 DEF CancelMark, workVars, auxVars
  <2>2. \A e \in Dispatch : run'[e].terminal =
           IF e = d /\ run[d].terminal = None THEN "cancelled" ELSE run[e].terminal
    BY <1>1, <1>a DEF CancelMark, Mark, RunFlags
  <2>3. pc[d] # None
    BY <2>1 DEF QuietInv
  <2>4. /\ Putting(d)' = Putting(d) + IF run[d].terminal = None THEN 1 ELSE 0
        /\ \A e \in Dispatch \ {d} : Putting(e)' = Putting(e)
    BY <2>1 DEF Putting
  <2>5. None # "cancelled"
    BY DEF None
  <2> QED
    BY <2>4, <2>5, MarkedOrNot, <2>1, <2>2, <2>3
<1>2. CASE EmitMark(d)
  <2>1. UNCHANGED <<sent, queue, timer, loop>>
    BY <1>2 DEF EmitMark, auxVars
  <2>2. \A e \in Dispatch : run'[e].terminal =
           IF e = d /\ run[d].terminal = None THEN out[d].kind ELSE run[e].terminal
    BY <1>2, <1>a DEF EmitMark, Mark, RunFlags
  <2>3. /\ pc[d] = "emit" /\ out[d].kind # None
        /\ \A e \in Dispatch \ {d} : pc'[e] = pc[e]
        /\ pc'[d] = IF run[d].terminal = None THEN "put" ELSE out[d].then
    BY <1>2, <1>a DEF EmitMark, Goto, OutcomeInv
  <2>4. out[d].then # "put"
    BY <1>a DEF Outcome
  <2>5. /\ Putting(d)' = Putting(d) + IF run[d].terminal = None THEN 1 ELSE 0
        /\ \A e \in Dispatch \ {d} : Putting(e)' = Putting(e)
    BY <2>1, <2>3, <2>4 DEF Putting
  <2>6. pc[d] # None /\ pc'[d] # None
    BY <2>3, <1>a DEF None, Outcome
  <2> QED
    BY <2>5, <2>6, MarkedOrNot, <2>1, <2>2, <2>3
<1>3. CASE TimerFire(d) /\ run[d].done
  <2>1. /\ UNCHANGED <<sent, queue, pc, run, loop>>
        /\ timer[d].at = "armed" /\ timer'[d].at = "off"
        /\ \A e \in Dispatch \ {d} : timer'[e] = timer[e]
    BY <1>3, <1>a DEF TimerFire, TimerOff, workVars, auxVars
  <2> QED BY <1>a, <2>1 DEF EventFrame, Events, Putting
<1>4. CASE TimerFire(d) /\ ~run[d].done
  <2>1. PICK kind \in Terminal :
          /\ run' = [run EXCEPT ![d].interrupted = TRUE,
                                ![d].terminal = IF @ = None THEN kind ELSE @]
          /\ timer' = [timer EXCEPT ![d] =
                        [at |-> IF run[d].terminal = None THEN "put" ELSE "record",
                         kind |-> kind]]
    BY <1>4 DEF TimerFire, Terminal
  <2>2. \A e \in Dispatch : run'[e].terminal =
           IF e = d /\ run[d].terminal = None THEN kind ELSE run[e].terminal
    BY <1>a, <2>1 DEF RunFlags
  <2>3. /\ timer[d].at = "armed"
        /\ timer'[d].at = IF run[d].terminal = None THEN "put" ELSE "record"
        /\ \A e \in Dispatch \ {d} : timer'[e] = timer[e]
        /\ UNCHANGED <<sent, queue, pc, loop>>
    BY <1>a, <1>4, <2>1 DEF TimerFire, workVars, auxVars
  <2>4. pc[d] # None /\ kind # None
    BY <2>3 DEF QuietInv, Terminal, None
  <2>5. /\ Putting(d)' = Putting(d) + IF run[d].terminal = None THEN 1 ELSE 0
        /\ \A e \in Dispatch \ {d} : Putting(e)' = Putting(e)
    BY <2>3 DEF Putting
  <2> QED BY <2>5, MarkedOrNot, <2>2, <2>3, <2>4
<1> QED BY <1>1, <1>2, <1>3, <1>4

\* What putting an event into the queue amounts to.
LEMMA HandedOn ==
  ASSUME TypeOK, NEW d \in Dispatch, UNCHANGED <<sent, run>>,
         \A e \in Dispatch \ {d} : pc'[e] = pc[e], pc[d] # None,
         Len(queue'[d]) = Len(queue[d]) + 1,
         \A e \in Dispatch \ {d} : queue'[e] = queue[e],
         Putting(d)' = Putting(d) - 1,
         \A e \in Dispatch \ {d} : Putting(e)' = Putting(e)
  PROVE  EventFrame
<1>1. \A e \in Dispatch : Len(sent[e]) \in Nat /\ Len(queue[e]) \in Nat
  BY DEF TypeOK
<1>2. \A e \in Dispatch : Events(e)' = Events(e)
  <2>1. \A e \in Dispatch : sent'[e] = sent[e]
    OBVIOUS
  <2>2. Putting(d) \in Nat
    BY PuttingType
  <2>3. Events(d)' = Events(d)
    <3>1. PICK m \in Nat, n \in Nat : m = Len(sent[d]) /\ n = Len(queue[d])
      BY <1>1
    <3>2. /\ Events(d) = m + n + Putting(d)
          /\ Events(d)' = m + (n + 1) + (Putting(d) - 1)
      BY <2>1, <3>1 DEF Events
    <3> QED BY <3>2, <2>2
  <2>4. \A e \in Dispatch \ {d} : Events(e)' = Events(e)
    BY <2>1 DEF Events
  <2> QED BY <2>3, <2>4
<1> QED BY <1>2 DEF EventFrame

\* The steps that hand an event on.
LEMMA EventMoves ==
  ASSUME TypeOK, QuietInv, OutcomeInv, NEW d \in Dispatch,
         CancelPut(d) \/ EmitPut(d) \/ TimerPut(d) \/ Forward(d)
  PROVE  EventFrame
<1>a. /\ pc \in [Dispatch -> PC] /\ out \in [Dispatch -> Outcome]
      /\ timer \in [Dispatch -> TimerState] /\ loop \in LoopState
      /\ sent \in [Dispatch -> Seq(Terminal)]
      /\ queue \in [Dispatch -> Seq(Terminal)] /\ NoDispatch \notin Dispatch
  BY RunAssumption DEF TypeOK
<1>b. \A e \in Dispatch : Len(sent[e]) \in Nat /\ Len(queue[e]) \in Nat
  BY <1>a
<1>1. CASE CancelPut(d)
  <2>1. /\ UNCHANGED <<sent, run, pc, timer>>
        /\ loop.d = d /\ loop.at = "put" /\ loop'.d = d /\ loop'.at = "record"
    BY <1>1, <1>a DEF CancelPut, workVars, auxVars, LoopState
  <2>2. pc[d] # None
    BY <2>1 DEF QuietInv
  <2>3. /\ Len(queue'[d]) = Len(queue[d]) + 1
        /\ \A e \in Dispatch \ {d} : queue'[e] = queue[e]
    <3>1. queue' = [queue EXCEPT ![d] = Append(queue[d], "cancelled")]
      BY <1>1 DEF CancelPut
    <3> QED BY <1>a, <3>1 DEF Terminal
  <2>4. /\ Putting(d)' = Putting(d) - 1
        /\ \A e \in Dispatch \ {d} : Putting(e)' = Putting(e)
    BY <2>1 DEF Putting
  <2> QED BY <2>1, <2>2, <2>3, <2>4, HandedOn
<1>2. CASE EmitPut(d)
  <2>1. /\ UNCHANGED <<sent, run, loop, timer>>
        /\ pc[d] = "put" /\ pc'[d] = out[d].then /\ out[d].then # "put"
        /\ \A e \in Dispatch \ {d} : pc'[e] = pc[e]
    BY <1>2, <1>a DEF EmitPut, auxVars, Goto, Outcome
  <2>2. /\ Len(queue'[d]) = Len(queue[d]) + 1
        /\ \A e \in Dispatch \ {d} : queue'[e] = queue[e]
    <3>1. /\ queue' = [queue EXCEPT ![d] = Append(queue[d], out[d].kind)]
          /\ out[d].kind \in Terminal
      BY <1>2, <1>a DEF EmitPut, OutcomeInv, Outcome
    <3> QED BY <1>a, <3>1
  <2>3. /\ Putting(d)' = Putting(d) - 1
        /\ \A e \in Dispatch \ {d} : Putting(e)' = Putting(e)
    BY <2>1 DEF Putting
  <2>4. pc[d] # None
    BY <2>1 DEF None
  <2> QED BY <2>1, <2>2, <2>3, <2>4, HandedOn
<1>3. CASE TimerPut(d)
  <2>1. /\ UNCHANGED <<sent, run, loop, pc>>
        /\ timer[d].at = "put" /\ timer'[d].at = "record"
        /\ \A e \in Dispatch \ {d} : timer'[e] = timer[e]
    BY <1>3, <1>a DEF TimerPut, workVars, auxVars, TimerState
  <2>2. pc[d] # None
    BY <2>1 DEF QuietInv
  <2>3. /\ Len(queue'[d]) = Len(queue[d]) + 1
        /\ \A e \in Dispatch \ {d} : queue'[e] = queue[e]
    <3>1. /\ queue' = [queue EXCEPT ![d] = Append(queue[d], timer[d].kind)]
          /\ timer[d].kind \in Terminal
      BY <1>3, <1>a DEF TimerPut, OutcomeInv, TimerState
    <3> QED BY <1>a, <3>1
  <2>4. /\ Putting(d)' = Putting(d) - 1
        /\ \A e \in Dispatch \ {d} : Putting(e)' = Putting(e)
    BY <2>1 DEF Putting
  <2> QED BY <2>1, <2>2, <2>3, <2>4, HandedOn
<1>4. CASE Forward(d)
  <2>1. UNCHANGED <<run, loop, pc, timer>>
    BY <1>4 DEF Forward, workVars
  <2>2. /\ Len(queue'[d]) = Len(queue[d]) - 1
        /\ Len(sent'[d]) = Len(sent[d]) + 1
        /\ \A e \in Dispatch \ {d} : queue'[e] = queue[e] /\ sent'[e] = sent[e]
    <3>1. /\ queue[d] # <<>> /\ queue[d] \in Seq(Terminal) /\ sent[d] \in Seq(Terminal)
          /\ queue' = [queue EXCEPT ![d] = Tail(queue[d])]
          /\ sent' = [sent EXCEPT ![d] = Append(sent[d], Head(queue[d]))]
      BY <1>4, <1>a DEF Forward
    <3>2. Head(queue[d]) \in Terminal /\ Len(Tail(queue[d])) = Len(queue[d]) - 1
      BY <3>1
    <3> QED BY <1>a, <3>1, <3>2
  <2>3. \A e \in Dispatch : Putting(e)' = Putting(e)
    BY <2>1 DEF Putting
  <2>4. \A e \in Dispatch : Events(e)' = Events(e)
    <3>1. Putting(d) \in Nat
      BY PuttingType
    <3>2. Events(d)' = Events(d)
      <4>1. PICK m \in Nat, n \in Nat : m = Len(sent[d]) /\ n = Len(queue[d])
        BY <1>b
      <4>2. /\ Events(d) = m + n + Putting(d)
            /\ Events(d)' = (m + 1) + (n - 1) + Putting(d)
        BY <2>2, <2>3, <4>1 DEF Events
      <4> QED BY <4>2, <3>1
    <3>3. \A e \in Dispatch \ {d} : Events(e)' = Events(e)
      BY <2>2, <2>3 DEF Events
    <3> QED BY <3>2, <3>3
  <2> QED BY <2>1, <2>4 DEF EventFrame
<1> QED BY <1>1, <1>2, <1>3, <1>4

\* The other steps of a dispatch neither mark a run nor touch its events.
Untouched == /\ UNCHANGED <<sent, queue>>
             /\ \A e \in Dispatch :
                   /\ run'[e].terminal = run[e].terminal
                   /\ pc'[e] # None => pc[e] # None
                   /\ pc'[e] = "put" <=> pc[e] = "put"
                   /\ timer'[e].at = "put" <=> timer[e].at = "put"
                   /\ loop' = loop \/ (loop.at # "put" /\ loop'.at # "put")

\* A step that touches no event counts as framed.
LEMMA UntouchedStep == ASSUME Untouched PROVE EventFrame
<1>1. \A e \in Dispatch : Putting(e)' = Putting(e)
  BY DEF Untouched, Putting
<1>2. \A e \in Dispatch : Events(e)' = Events(e)
  BY <1>1 DEF Untouched, Events
<1> QED BY <1>2 DEF Untouched, EventFrame

\* The steps that neither mark a run, nor put or forward an event, nor start one.
LEMMA OtherSteps ==
  ASSUME TypeOK, ExecInv, NEW d \in Dispatch,
         \/ SkipTerminal(d) \/ CancelBegin(d) \/ CancelRecord(d)
         \/ CancelRelease(d) \/ CancelDone(d) \/ ForwardEnd(d) \/ Setup(d)
         \/ EnterScope(d) \/ Expire(d) \/ CheckWait(d) \/ Acquire(d)
         \/ AcquireFails(d) \/ RecordOwner(d) \/ CheckOwned(d)
         \/ LoadSnapshot(d) \/ BuildAgent(d) \/ AgentReturns(d)
         \/ AgentRaises(d) \/ ReleaseLock(d) \/ LeaveScope(d)
         \/ SaveSnapshot(d) \/ Finally(d) \/ RecordTerminal(d) \/ Quit(d)
         \/ TimerRecord(d) \/ TimerRelease(d) \/ TimerDone(d)
  PROVE  Untouched
<1>a. /\ pc \in [Dispatch -> PC] /\ run \in [Dispatch -> RunFlags]
      /\ timer \in [Dispatch -> TimerState] /\ loop \in LoopState
  BY DEF TypeOK
<1> USE DEF Untouched, Goto, None, RunFlags, runVars, workVars, lockVars, diskVars,
        auxVars
<1>1. CASE SkipTerminal(d)
  BY <1>a, <1>1 DEF SkipTerminal
<1>2. CASE CancelBegin(d)
  <2>1. \A e \in Dispatch : run'[e].terminal = run[e].terminal
    BY <1>a, <1>2 DEF CancelBegin
  <2>2. UNCHANGED <<sent, queue, pc, timer>> /\ loop.at = "idle" /\ loop'.at = "mark"
    BY <1>2 DEF CancelBegin, LoopIdle
  <2> QED BY <2>1, <2>2
<1>3. CASE CancelRecord(d)
  BY <1>a, <1>3 DEF CancelRecord
<1>4. CASE CancelRelease(d)
  BY <1>a, <1>4 DEF CancelRelease
<1>5. CASE CancelDone(d)
  BY <1>a, <1>5 DEF CancelDone, Settle, LoopIdle
<1>6. CASE ForwardEnd(d)
  BY <1>a, <1>6 DEF ForwardEnd
<1>7. CASE Setup(d)
  BY <1>a, <1>7 DEF Setup, ToEmit
<1>8. CASE EnterScope(d)
  BY <1>a, <1>8 DEF EnterScope
<1>9. CASE Expire(d)
  BY <1>a, <1>9 DEF Expire
<1>10. CASE CheckWait(d)
  BY <1>a, <1>10 DEF CheckWait, ToEmit
<1>11. CASE Acquire(d)
  BY <1>a, <1>11 DEF Acquire
<1>12. CASE AcquireFails(d)
  BY <1>a, <1>12 DEF AcquireFails
<1>13. CASE RecordOwner(d)
  BY <1>a, <1>13 DEF RecordOwner
<1>14. CASE CheckOwned(d)
  BY <1>a, <1>14 DEF CheckOwned, ToEmit
<1>15. CASE LoadSnapshot(d)
  BY <1>a, <1>15 DEF LoadSnapshot
<1>16. CASE BuildAgent(d)
  <2>1. /\ UNCHANGED <<sent, queue, run, loop>> /\ pc[d] = "build"
        /\ pc'[d] \in {"exec", "release"}
        /\ \A e \in Dispatch \ {d} : pc'[e] = pc[e]
    BY <1>a, <1>16 DEF BuildAgent
  <2>2. \A e \in Dispatch : timer'[e].at = "put" <=> timer[e].at = "put"
    <3>1. timer[d].at = "off"
      BY <2>1 DEF ExecInv, EarlyPC
    <3>2. \/ timer' = timer
          \/ timer' = [timer EXCEPT ![d] = [at |-> "armed", kind |-> None]]
      BY <1>16 DEF BuildAgent
    <3> QED BY <3>2, <3>1, <1>a
  <2> QED BY <2>1, <2>2
<1>17. CASE AgentReturns(d)
  BY <1>a, <1>17 DEF AgentReturns
<1>18. CASE AgentRaises(d)
  BY <1>a, <1>18 DEF AgentRaises
<1>19. CASE ReleaseLock(d)
  BY <1>a, <1>19 DEF ReleaseLock
<1>20. CASE LeaveScope(d)
  BY <1>a, <1>20 DEF LeaveScope
<1>21. CASE SaveSnapshot(d)
  BY <1>a, <1>21 DEF SaveSnapshot
<1>22. CASE Finally(d)
  BY <1>a, <1>22 DEF Finally, ToEmit, TimerOff
<1>23. CASE RecordTerminal(d)
  BY <1>a, <1>23 DEF RecordTerminal
<1>24. CASE Quit(d)
  BY <1>a, <1>24 DEF Quit, Settle
<1>25. CASE TimerRecord(d)
  BY <1>a, <1>25 DEF TimerRecord
<1>26. CASE TimerRelease(d)
  BY <1>a, <1>26 DEF TimerRelease
<1>27. CASE TimerDone(d)
  BY <1>a, <1>27 DEF TimerDone, Settle, TimerOff
<1> QED
  BY <1>1, <1>2, <1>3, <1>4, <1>5, <1>6, <1>7, <1>8, <1>9, <1>10, <1>11,
     <1>12, <1>13, <1>14, <1>15, <1>16, <1>17, <1>18, <1>19, <1>20, <1>21,
     <1>22, <1>23, <1>24, <1>25, <1>26, <1>27

\* Every step keeps EventInv.
LEMMA EventStep ==
  ASSUME TypeOK, SettleInv, PInv, [Next]_vars
  PROVE  EventInv'
<1> USE DEF PInv
<1>1. ASSUME EventFrame PROVE EventInv'
  BY <1>1, EventFrameStep
<1>2. ASSUME NEW d \in Dispatch, CancelMark(d) \/ EmitMark(d) \/ TimerFire(d)
      PROVE  EventInv'
  BY <1>1, <1>2, MarkSteps, MarkFrameStep DEF SettleInv
<1>3. ASSUME NEW d \in Dispatch,
             CancelPut(d) \/ EmitPut(d) \/ TimerPut(d) \/ Forward(d)
      PROVE  EventInv'
  BY <1>1, <1>3, EventMoves DEF SettleInv
<1>4. ASSUME NEW d \in Dispatch,
             \/ SkipTerminal(d) \/ CancelBegin(d) \/ CancelRecord(d)
             \/ CancelRelease(d) \/ CancelDone(d) \/ ForwardEnd(d) \/ Setup(d)
             \/ EnterScope(d) \/ Expire(d) \/ CheckWait(d) \/ Acquire(d)
             \/ AcquireFails(d) \/ RecordOwner(d) \/ CheckOwned(d)
             \/ LoadSnapshot(d) \/ BuildAgent(d) \/ AgentReturns(d)
             \/ AgentRaises(d) \/ ReleaseLock(d) \/ LeaveScope(d)
             \/ SaveSnapshot(d) \/ Finally(d) \/ RecordTerminal(d) \/ Quit(d)
             \/ TimerRecord(d) \/ TimerRelease(d) \/ TimerDone(d)
      PROVE  EventInv'
  BY <1>1, <1>4, OtherSteps, UntouchedStep
<1>5. ASSUME NEW d \in Dispatch, Start(d) PROVE EventInv'
  <2>1. /\ UNCHANGED <<sent, timer, loop>> /\ queue'[d] = <<>> /\ sent[d] = <<>>
        /\ pc'[d] = "begin" /\ timer[d].at = "off" /\ loop.d # d
        /\ \A e \in Dispatch \ {d} : /\ queue'[e] = queue[e] /\ pc'[e] = pc[e]
                                     /\ run'[e] = run[e]
    BY <1>5 DEF Start, Goto, TypeOK, UnknownInv, SettleInv, FreshInv, auxVars
  <2>2. Putting(d)' = 0 /\ \A e \in Dispatch \ {d} : Putting(e)' = Putting(e)
    BY <2>1 DEF Putting
  <2>3. Events(d)' = 0
    BY <2>1, <2>2 DEF Events
  <2>4. \A e \in Dispatch \ {d} : Events(e)' = Events(e)
    BY <2>1, <2>2 DEF Events
  <2> QED BY <2>1, <2>3, <2>4 DEF EventInv
<1>6. ASSUME NEW s \in Session, ResetSession(s) PROVE EventInv'
  <2>1. Untouched
    BY <1>6 DEF ResetSession, Untouched, runVars, workVars, auxVars
  <2> QED BY <1>1, <2>1, UntouchedStep
<1>7. ASSUME Crash PROVE EventInv'
  <2>1. /\ sent' = sent /\ loop' = LoopIdle
        /\ \A e \in Dispatch : /\ queue'[e] = <<>> /\ pc'[e] = None
                               /\ timer'[e] = TimerOff
    BY <1>7 DEF Crash
  <2>2. \A e \in Dispatch : Putting(e)' = 0
    BY <2>1 DEF Putting, LoopIdle, TimerOff, None
  <2>3. ASSUME NEW e \in Dispatch PROVE Events(e)' <= 1
    <3>1. PICK m \in Nat, n \in Nat : m = Len(sent[e]) /\ n = Len(queue[e])
      BY DEF TypeOK
    <3>2. Events(e) = m + n + Putting(e) /\ Events(e)' = m + 0 + 0
      <4>1. Events(e) = m + n + Putting(e)
        BY <3>1 DEF Events
      <4>2. sent'[e] = sent[e] /\ Len(queue'[e]) = 0 /\ Putting(e)' = 0
        BY <2>1, <2>2
      <4>3. Events(e)' = Len(sent'[e]) + Len(queue'[e]) + Putting(e)'
        BY DEF Events
      <4> QED BY <4>1, <4>2, <4>3, <3>1
    <3>3. Putting(e) \in Nat
      BY PuttingType
    <3>4. Events(e) <= 1
      BY DEF EventInv
    <3> QED BY <3>2, <3>3, <3>4
  <2> QED BY <2>1, <2>3 DEF EventInv
<1>8. ASSUME UNCHANGED vars PROVE EventInv'
  <2>1. Untouched
    BY <1>8 DEF vars, Untouched, runVars, workVars, auxVars
  <2> QED BY <1>1, <2>1, UntouchedStep
<1> QED
  BY <1>2, <1>3, <1>4, <1>5, <1>6, <1>7, <1>8
  DEF Next, LoopStep, Cancel, WorkerStep, AgentStep, TimerStep

\* Initially nothing was recorded, marked or executed.
LEMMA PInit == Init => PInv
<1> SUFFICES ASSUME Init PROVE PInv
  OBVIOUS
<1>1. QuietInv /\ ExecInv /\ UnknownInv
  BY RunAssumption DEF Init, QuietInv, ExecInv, UnknownInv, TimerOff, LoopIdle,
     EarlyPC, None
<1>2. EventInv
  <2>1. \A d \in Dispatch : Putting(d) = 0
    BY DEF Init, Putting, TimerOff, LoopIdle, None
  <2>2. \A d \in Dispatch : Events(d) = 0
    BY <2>1 DEF Init, Events
  <2> QED BY <2>2 DEF EventInv
<1> QED BY <1>1, <1>2 DEF PInv

\* PInv holds in every reachable state.
THEOREM PromiseInvariance == Spec => []PInv
<1>1. IInv /\ PInv /\ [Next]_vars => PInv'
  BY TraceStep, EventStep DEF IInv, PInv
<1> QED BY <1>1, PInit, Invariance, PTL DEF Spec

--------------------------------------------------------------------------------
\* Relay is told at most one outcome of a dispatch: the event is in the queue or
\* was sent, never both and never twice, over redeliveries, cancels, timeouts
\* and crashes.
THEOREM OneOutcome == Spec => []OneTerminalEvent
<1>1. TypeOK /\ PInv => OneTerminalEvent
  <2> SUFFICES ASSUME TypeOK, PInv, NEW d \in Dispatch
               PROVE  Len(sent[d]) + Len(queue[d]) <= 1
    BY DEF OneTerminalEvent
  <2>1. PICK m \in Nat, n \in Nat : m = Len(sent[d]) /\ n = Len(queue[d])
    BY DEF TypeOK
  <2>2. Events(d) = m + n + Putting(d) /\ Events(d) <= 1
    BY <2>1 DEF PInv, EventInv, Events
  <2>3. m + n <= 1
    BY <2>2, PuttingType
  <2> QED BY <2>1, <2>3
<1> QED BY <1>1, TypeCorrect, PromiseInvariance, PTL

\* Whoever of worker, canceller and watchdog settles a dispatch, its outcome was
\* produced, and only one is.
THEOREM SettledOnce == Spec => []SettledHasOneOutcome
<1>1. SettledHasOutcome /\ OneTerminalEvent => SettledHasOneOutcome
  BY DEF SettledHasOneOutcome
<1> QED BY <1>1, SettledOutcome, OneOutcome, PTL

--------------------------------------------------------------------------------
\* The dispatches the ledger knows.
Known == {d \in Dispatch : ledger[d] # None}

\* A step that only records something about d is an Accept of RunPromise.
LEMMA RecordIsAccept ==
  ASSUME TypeOK, NEW d \in Dispatch, NEW state, state # None,
         ledger' = [ledger EXCEPT ![d] = state], UNCHANGED <<execs, sent>>
  PROVE  Promise!Accept(d)
<1>1. Known' = Known \cup {d}
  BY DEF TypeOK, Known
<1> QED BY <1>1 DEF Promise!Accept, Known

\* Every step of the run manager is a step of RunPromise or leaves it alone.
LEMMA PromiseStep ==
  ASSUME IInv, PInv, [Next]_vars
  PROVE  [Promise!Next]_<<Known, execs, sent>>
<1> USE DEF auxVars, diskVars
<1>a. TypeOK /\ SettleInv
  BY DEF IInv
<1>1. ASSUME NEW d \in Dispatch, Start(d) \/ SkipTerminal(d) PROVE Promise!Accept(d)
  <2>1. "running" # None /\ "skipped" # None
    BY DEF None
  <2> QED BY <1>1, <1>a, <2>1, RecordIsAccept DEF Start, SkipTerminal
<1>2. ASSUME NEW d \in Dispatch, CancelRecord(d) PROVE Promise!Accept(d)
  <2>1. "cancelled" # None
    BY DEF None
  <2> QED BY <1>2, <1>a, <2>1, RecordIsAccept DEF CancelRecord
<1>3. ASSUME NEW d \in Dispatch, RecordTerminal(d) PROVE Promise!Accept(d)
  <2>1. run[d].terminal # None
    BY <1>3, <1>a DEF RecordTerminal, SettleInv, OutcomeInv
  <2> QED BY <1>3, <1>a, <2>1, RecordIsAccept DEF RecordTerminal
<1>4. ASSUME NEW d \in Dispatch, TimerRecord(d) PROVE Promise!Accept(d)
  <2>1. timer[d].kind # None
    BY <1>4, <1>a DEF TimerRecord, SettleInv, OutcomeInv
  <2> QED BY <1>4, <1>a, <2>1, RecordIsAccept DEF TimerRecord
<1>5. ASSUME NEW d \in Dispatch, BuildAgent(d)
      PROVE  Promise!Execute(d) \/ UNCHANGED <<Known, execs, sent>>
  <2>1. UNCHANGED <<ledger, sent>> /\ pc[d] = "build"
    BY <1>5 DEF BuildAgent
  <2>2. execs[d] = 0 /\ d \in Known
    BY <2>1, <1>a DEF PInv, ExecInv, EarlyPC, SettleInv, FreshInv, Known, None
  <2>3. execs' = execs \/ execs' = [execs EXCEPT ![d] = 1]
    BY <1>5, <2>2 DEF BuildAgent
  <2> QED BY <2>1, <2>2, <2>3 DEF Promise!Execute, Known
<1>6. ASSUME NEW d \in Dispatch, Forward(d) PROVE Promise!Report(d)
  <2>1. /\ UNCHANGED <<ledger, execs>> /\ queue[d] # <<>>
        /\ sent' = [sent EXCEPT ![d] = Append(sent[d], Head(queue[d]))]
    BY <1>6 DEF Forward
  <2>2. queue[d] \in Seq(Terminal) /\ sent[d] \in Seq(Terminal)
    BY <1>a DEF TypeOK
  <2>3. sent[d] = <<>>
    <3>1. PICK m \in Nat, n \in Nat : m = Len(sent[d]) /\ n = Len(queue[d])
      BY <2>2
    <3>2. Events(d) = m + n + Putting(d) /\ Events(d) <= 1
      BY <3>1 DEF PInv, EventInv, Events
    <3>3. n # 0
      BY <3>1, <2>1, <2>2
    <3>4. m = 0
      BY <3>2, <3>3, PuttingType
    <3> QED BY <3>1, <3>4, <2>2, EmptySeq
  <2>4. Head(queue[d]) \in Terminal
    BY <2>1, <2>2
  <2>5. Append(sent[d], Head(queue[d])) = <<Head(queue[d])>>
    BY <2>3
  <2>6. d \in Known
    BY <2>1 DEF PInv, UnknownInv, Known
  <2> QED BY <2>1, <2>3, <2>4, <2>5, <2>6 DEF Promise!Report, Known
<1>7. ASSUME NEW d \in Dispatch,
             \/ CancelBegin(d) \/ CancelMark(d) \/ CancelPut(d)
             \/ CancelRelease(d) \/ CancelDone(d) \/ ForwardEnd(d)
             \/ EmitMark(d) \/ EmitPut(d) \/ Setup(d) \/ EnterScope(d)
             \/ Expire(d) \/ CheckWait(d) \/ Acquire(d) \/ AcquireFails(d)
             \/ RecordOwner(d) \/ CheckOwned(d) \/ LoadSnapshot(d)
             \/ AgentReturns(d) \/ AgentRaises(d) \/ ReleaseLock(d)
             \/ LeaveScope(d) \/ SaveSnapshot(d) \/ Finally(d) \/ Quit(d)
             \/ TimerFire(d) \/ TimerPut(d) \/ TimerRelease(d) \/ TimerDone(d)
      PROVE  UNCHANGED <<ledger, execs, sent>>
  BY <1>7 DEF CancelBegin, CancelMark, CancelPut, CancelRelease, CancelDone,
     ForwardEnd, EmitMark, EmitPut, Setup, EnterScope, Expire, CheckWait,
     Acquire, AcquireFails, RecordOwner, CheckOwned, LoadSnapshot,
     AgentReturns, AgentRaises, ReleaseLock, LeaveScope, SaveSnapshot,
     Finally, Quit, TimerFire, TimerPut, TimerRelease, TimerDone
<1>8. ASSUME NEW s \in Session, ResetSession(s) PROVE UNCHANGED <<ledger, execs, sent>>
  BY <1>8 DEF ResetSession
<1>9. ASSUME Crash PROVE UNCHANGED <<ledger, execs, sent>>
  BY <1>9 DEF Crash
<1>10. ASSUME UNCHANGED vars PROVE UNCHANGED <<ledger, execs, sent>>
  BY <1>10 DEF vars
<1>11. ASSUME UNCHANGED <<ledger, execs, sent>>
       PROVE  UNCHANGED <<Known, execs, sent>>
  BY <1>11 DEF Known
<1> QED
  BY <1>1, <1>2, <1>3, <1>4, <1>5, <1>6, <1>7, <1>8, <1>9, <1>10, <1>11
  DEF Next, LoopStep, Cancel, WorkerStep, AgentStep, TimerStep, Promise!Next

\* The run manager implements RunPromise: each dispatch is given to the agent at
\* most once and reported at most once, and only after the ledger has it.
THEOREM Implements == Spec => KeepsPromise
<1>1. Init => Promise!Init
  BY DEF Init, Promise!Init
<1>2. IInv /\ PInv /\ [Next]_vars
      => [Promise!Next]_<<{d \in Dispatch : ledger[d] # None}, execs, sent>>
  BY PromiseStep DEF Known
<1> QED
  BY <1>1, <1>2, Invariance, PromiseInvariance, PTL
  DEF Spec, KeepsPromise, Promise!Spec

================================================================================
