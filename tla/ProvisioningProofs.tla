--------------------------- MODULE ProvisioningProofs --------------------------
(***************************************************************************)
(* Proofs about provisioning, for every set of keys, names and documents   *)
(* and any number of deliveries and faults: what is called completed is    *)
(* written, and a request keeps off the profiles that were there before.   *)
(***************************************************************************)
EXTENDS Provisioning, TLAPS

(***************************************************************************)
(* The inductive invariant.  Completion travels from the files to Relay    *)
(* through the handler, the queue, its file and the flush: WriteInv is     *)
(* about its first leg and DoneInv about the others.  NameInv is behind    *)
(* TakesNoExistingProfile: the name of a marker was free when the marker   *)
(* was written, and the handler works on the name of its marker.           *)
(***************************************************************************)
Done(k) == marker[k].status = "completed"

WriteInv ==
    /\ h.at = "files" => wrote[h.key] \cup h.left = Doc
    /\ \A k \in Key : Done(k) => wrote[k] = Doc

DoneInv ==
    /\ h.at \in {"enqueue", "post", "pop"} /\ h.result = "complete" => Done(h.key)
    /\ \A c \in queue \cup saved \cup flush \cup popping : c[2] = "complete" => Done(c[1])
    /\ \A k \in Key : "complete" \in heard[k] => Done(k)

NameInv ==
    /\ \A k \in Key : marker[k].status # "none" => marker[k].name \notin existed[k]
    /\ h.at \in {"create", "files"} =>
          marker[h.key].status = "started" /\ marker[h.key].name = h.name

IInv == TypeOK /\ WriteInv /\ DoneInv /\ NameInv

--------------------------------------------------------------------------------
\* Initially nothing is delivered, queued or told.
LEMMA InitInv == Init => IInv
<1> SUFFICES ASSUME Init PROVE IInv
  OBVIOUS
<1>1. SomeName \in Name
  BY ProvisioningAssumption DEF SomeName
<1>2. TypeOK
  BY <1>1, ProvisioningAssumption DEF Init, TypeOK, Handler, Marker, Idle
<1> QED BY <1>2 DEF Init, IInv, WriteInv, DoneInv, NameInv, Idle, Done

\* The idle handler is well typed.
LEMMA IdleType == Idle \in Handler /\ Idle.at = "idle"
<1>1. SomeName \in Name
  BY ProvisioningAssumption DEF SomeName
<1> QED BY <1>1 DEF Idle, Handler

\* A fault is counted within its bound.
LEMMA FaultType == ASSUME TypeOK, Fault PROVE faults' \in 0..MaxFaults
BY ProvisioningAssumption DEF TypeOK, Fault

\* A delivery begins with the look at the marker.
LEMMA DeliverStep ==
    ASSUME IInv, NEW k \in Key, NEW n \in Name, Deliver(k, n)
    PROVE  IInv'
<1>1. h' \in Handler /\ h'.at = "check" /\ h'.key \in Key
  BY IdleType DEF Deliver, Handler
<1>2. TypeOK'
  BY <1>1, ProvisioningAssumption DEF IInv, TypeOK, Deliver, outbox
<1> QED
  BY <1>1, <1>2 DEF IInv, WriteInv, DoneInv, NameInv, Done, Deliver, outbox

\* The check completes no request; only a free name, or the marker's own, is taken.
LEMMA CheckStep == ASSUME IInv, Check PROVE IInv'
<1> DEFINE k == h.key
<1>1. k \in Key /\ h.at = "check" /\ h.name \in Name
  BY DEF IInv, TypeOK, Check, Handler
<1>2. CASE Verdict(k, h.name) = "start"
  <2>1. h' = [h EXCEPT !.at = "create", !.found = Exists(h.name)]
        /\ marker' = [marker EXCEPT ![k] = [status |-> "started", name |-> h.name]]
    BY <1>2 DEF Check
  <2>2. /\ marker[k].status # "completed"
        /\ marker[k].status = "none" => ~Exists(h.name)
        /\ marker[k].status # "none" => marker[k].name = h.name
    BY <1>2 DEF Verdict
  <2>3. TypeOK'
    <3>1. Exists(h.name) \in BOOLEAN
      BY DEF Exists
    <3>2. h' \in Handler
      BY <1>1, <2>1, <3>1 DEF IInv, TypeOK, Handler
    <3>3. h'.key = k /\ h'.at = "create"
      BY <1>1, <2>1 DEF IInv, TypeOK, Handler
    <3>4. marker' \in [Key -> Marker]
      BY <1>1, <2>1 DEF IInv, TypeOK, Marker
    <3> QED BY <1>1, <3>2, <3>3, <3>4 DEF IInv, TypeOK, Check, outbox
  <2>4. h.name \notin existed'[k]
    BY <1>1, <2>2 DEF IInv, TypeOK, NameInv, Check
  <2>5. \A j \in Key : Done(j)' <=> Done(j)
    BY <1>1, <2>1, <2>2 DEF IInv, TypeOK, Done
  <2>6. WriteInv'
    BY <1>1, <2>1, <2>5 DEF IInv, TypeOK, WriteInv, Check, outbox, Handler
  <2>7. DoneInv'
    BY <1>1, <2>1, <2>5 DEF IInv, TypeOK, DoneInv, Check, outbox, Handler, Callback
  <2>8. NameInv'
    BY <1>1, <2>1, <2>4 DEF IInv, TypeOK, NameInv, Check, Handler, Marker
  <2> QED BY <2>3, <2>6, <2>7, <2>8 DEF IInv
<1>3. CASE Verdict(k, h.name) # "start"
  <2>1. /\ h' = [h EXCEPT !.at = "enqueue",
                          !.result = IF Verdict(k, h.name) = "replay"
                                     THEN "complete" ELSE "fail"]
        /\ marker' = marker
    BY <1>3 DEF Check
  <2>2. Verdict(k, h.name) = "replay" => Done(k)
    BY DEF Verdict, Done
  <2>3. TypeOK'
    BY <1>1, <2>1 DEF IInv, TypeOK, Check, Handler, Marker, outbox
  <2>4. \A j \in Key : marker[j].status # "none" => marker[j].name \notin existed'[j]
    BY <1>1 DEF IInv, TypeOK, NameInv, Check
  <2> QED
    BY <1>1, <2>1, <2>2, <2>3, <2>4
    DEF IInv, TypeOK, WriteInv, DoneInv, NameInv, Done, Check, outbox, Handler
<1> QED BY <1>2, <1>3

\* A request whose marker cannot be written fails.
LEMMA CheckFailsStep == ASSUME IInv, CheckFails PROVE IInv'
<1>1. h.at = "check" /\ h' = [h EXCEPT !.at = "enqueue", !.result = "fail"] /\ h.key \in Key
  BY DEF CheckFails, IInv, TypeOK
<1>2. TypeOK'
  BY <1>1, FaultType DEF IInv, TypeOK, CheckFails, Handler, outbox
<1> QED
  BY <1>1, <1>2
  DEF IInv, TypeOK, WriteInv, DoneInv, NameInv, Done, CheckFails, outbox, Handler

\* A profile that is made leaves the profiles well typed.
LEMMA MadeType ==
    ASSUME TypeOK, NEW n \in Name
    PROVE  Made(n) \in [Name -> {"none", "relay", "user"}]
BY DEF TypeOK, Made

\* A profile is made, and all documents are still to be written, or it is in the way.
LEMMA CreateStep == ASSUME IInv, Create PROVE IInv'
<1>1. /\ h.at = "create" /\ h.name \in Name /\ h.key \in Key
      /\ \/ h' = [h EXCEPT !.at = "files", !.left = Doc]
         \/ h' = [h EXCEPT !.at = "enqueue", !.result = "fail"]
      /\ profile' \in {profile, Made(h.name)}
  BY DEF Create, IInv, TypeOK, Handler
<1>2. profile' \in [Name -> {"none", "relay", "user"}]
  BY <1>1, MadeType DEF IInv, TypeOK
<1>3. /\ h' \in Handler /\ h'.key = h.key /\ h'.name = h.name
      /\ \/ h'.at = "files" /\ h'.left = Doc
         \/ h'.at = "enqueue" /\ h'.result = "fail"
  BY <1>1 DEF IInv, TypeOK, Handler
<1>4. TypeOK'
  BY <1>1, <1>2, <1>3 DEF IInv, TypeOK, Create, outbox
<1> QED
  BY <1>1, <1>3, <1>4
  DEF IInv, TypeOK, WriteInv, DoneInv, NameInv, Done, Create, outbox

\* A document leaves the list and is written.
LEMMA WriteDocStep == ASSUME IInv, NEW d \in Doc, WriteDoc(d) PROVE IInv'
<1>1. /\ h.at = "files" /\ h.key \in Key /\ h.left \subseteq Doc /\ h.name \in Name
      /\ h' = [h EXCEPT !.left = @ \ {d}]
      /\ wrote' = [wrote EXCEPT ![h.key] = @ \cup {d}]
  BY DEF WriteDoc, IInv, TypeOK, Handler
<1>2. TypeOK'
  BY <1>1, MadeType DEF IInv, TypeOK, WriteDoc, Handler, outbox
<1>3. WriteInv'
  BY <1>1 DEF IInv, TypeOK, WriteInv, Done, WriteDoc, Handler, outbox
<1> QED
  BY <1>1, <1>2, <1>3 DEF IInv, TypeOK, DoneInv, NameInv, Done, WriteDoc, Handler, outbox

\* The marker is completed when nothing is left to be written.
LEMMA CompleteStep == ASSUME IInv, Complete PROVE IInv'
<1>1. /\ h.at = "files" /\ h.key \in Key /\ h.left = {}
      /\ h' = [h EXCEPT !.at = "enqueue", !.result = "complete"]
      /\ marker' = [marker EXCEPT ![h.key].status = "completed"]
  BY DEF Complete, IInv, TypeOK
<1>2. TypeOK'
  <2>1. h' \in Handler /\ h'.at = "enqueue" /\ h'.key = h.key
    BY <1>1 DEF IInv, TypeOK, Handler
  <2>2. marker' \in [Key -> Marker]
    BY <1>1 DEF IInv, TypeOK, Marker
  <2> QED BY <1>1, <2>1, <2>2 DEF IInv, TypeOK, Complete, outbox
<1>3. wrote[h.key] = Doc
  BY <1>1 DEF IInv, WriteInv
<1>4. /\ Done(h.key)'
      /\ \A j \in Key : Done(j) => Done(j)'
      /\ \A j \in Key \ {h.key} : Done(j)' => Done(j)
      /\ \A j \in Key : marker'[j].name = marker[j].name
      /\ \A j \in Key \ {h.key} : marker'[j] = marker[j]
  BY <1>1 DEF IInv, TypeOK, Done, Marker
<1>5. WriteInv'
  BY <1>1, <1>3, <1>4 DEF IInv, TypeOK, WriteInv, Complete, Handler, outbox
<1>6. DoneInv'
  BY <1>1, <1>4 DEF IInv, TypeOK, DoneInv, Complete, Handler, outbox, Callback
<1>7. NameInv'
  BY <1>1, <1>4 DEF IInv, TypeOK, NameInv, Complete, Handler, outbox
<1> QED BY <1>2, <1>5, <1>6, <1>7 DEF IInv

\* What raises ends in a report that the request failed.
LEMMA RaiseStep == ASSUME IInv, Raise PROVE IInv'
<1>1. /\ h.at # "idle"
      /\ h' = [h EXCEPT !.at = "enqueue", !.result = "fail", !.left = {}]
  BY DEF Raise
<1>2. TypeOK'
  BY <1>1, FaultType DEF IInv, TypeOK, Raise, Handler, outbox
<1> QED
  BY <1>1, <1>2 DEF IInv, TypeOK, WriteInv, DoneInv, NameInv, Done, Raise, Handler, outbox

--------------------------------------------------------------------------------
\* The queue and its file hold what is written or held before.
LEMMA PersistStep ==
    ASSUME TypeOK, NEW q, NEW ok \in BOOLEAN, Persist(q, ok)
    PROVE  queue' = q /\ saved' \in {q, saved} /\ faults' \in 0..MaxFaults
<1>1. CASE ok
  BY <1>1 DEF Persist, TypeOK
<1>2. CASE ~ok
  BY <1>2, FaultType DEF Persist
<1> QED BY <1>1, <1>2

\* What Relay hears was queued or is the handler's result.
LEMMA HearsType ==
    ASSUME TypeOK, NEW c \in Callback
    PROVE  /\ Hears(c) \in [Key -> SUBSET {"complete", "fail"}]
           /\ c[1] \in Key /\ c[2] \in Hears(c)[c[1]]
           /\ \A k \in Key : heard[k] \subseteq Hears(c)[k]
           /\ \A k \in Key : "complete" \in Hears(c)[k] =>
                 "complete" \in heard[k] \/ (k = c[1] /\ c[2] = "complete")
<1>1. c[1] \in Key /\ c[2] \in {"complete", "fail"}
  BY DEF Callback
<1>2. Hears(c) = [heard EXCEPT ![c[1]] = heard[c[1]] \cup {c[2]}]
  BY DEF Hears
<1>3. heard \in [Key -> SUBSET {"complete", "fail"}]
  BY DEF TypeOK
<1>4. \A k \in Key : Hears(c)[k] = IF k = c[1] THEN heard[k] \cup {c[2]} ELSE heard[k]
  BY <1>2, <1>3
<1>5. Hears(c) \in [Key -> SUBSET {"complete", "fail"}]
  BY <1>1, <1>2, <1>3
<1> QED BY <1>1, <1>4, <1>5

\* The handler queues its result.
LEMMA EnqueueStep == ASSUME IInv, NEW ok \in BOOLEAN, Enqueue(ok) PROVE IInv'
<1> DEFINE c == <<h.key, h.result>>
<1>1. /\ h.at = "enqueue" /\ h.key \in Key /\ c \in Callback
      /\ c[1] = h.key /\ c[2] = h.result
      /\ h' = [h EXCEPT !.at = "post"]
  BY DEF Enqueue, IInv, TypeOK, Handler, Callback
<1>2. queue' = queue \cup {c} /\ saved' \in {queue \cup {c}, saved}
      /\ faults' \in 0..MaxFaults
  BY PersistStep DEF Enqueue, IInv
<1>3. TypeOK'
  BY <1>1, <1>2 DEF IInv, TypeOK, Enqueue, Handler
<1>4. DoneInv'
  BY <1>1, <1>2 DEF IInv, TypeOK, DoneInv, Done, Enqueue, Handler
<1> QED
  BY <1>1, <1>3, <1>4 DEF IInv, TypeOK, WriteInv, NameInv, Done, Enqueue, Handler

\* The handler posts its result; the post may fail before or after Relay has it.
LEMMA HandlerPostsStep == ASSUME IInv, HandlerPosts PROVE IInv'
<1> DEFINE c == <<h.key, h.result>>
<1>1. /\ h.at = "post" /\ h.key \in Key /\ c \in Callback
      /\ c[1] = h.key /\ c[2] = h.result
      /\ c[2] = "complete" => Done(c[1])
  BY DEF HandlerPosts, IInv, TypeOK, DoneInv, Handler, Callback
<1>2. /\ heard' \in {heard, Hears(c)}
      /\ \/ heard' = Hears(c) /\ h' = [h EXCEPT !.at = "pop"]
         \/ h' = Idle
      /\ faults' \in 0..MaxFaults
  BY FaultType DEF HandlerPosts, PostFails, IInv, TypeOK
<1>3. /\ heard' \in [Key -> SUBSET {"complete", "fail"}]
      /\ \A k \in Key : heard[k] \subseteq heard'[k]
      /\ \A k \in Key : "complete" \in heard'[k] =>
            "complete" \in heard[k] \/ (k = c[1] /\ c[2] = "complete")
      /\ heard' = Hears(c) => c[2] \in heard'[c[1]]
  BY <1>1, <1>2, HearsType DEF IInv, TypeOK
<1>4. /\ h' \in Handler
      /\ h'.at # "idle" => h'.key \in Key
      /\ h'.at \in {"idle", "pop"}
      /\ h'.at = "pop" => h'.key = h.key /\ h'.result = h.result /\ heard' = Hears(c)
  BY <1>1, <1>2, IdleType DEF IInv, TypeOK, Handler
<1>5. TypeOK'
  <2>1. \A e \in popping : e \in Callback /\ e[1] \in Key /\ e[2] \in heard[e[1]]
    BY DEF IInv, TypeOK, Callback
  <2>2. \A e \in popping' : e \in Callback /\ e[2] \in heard'[e[1]]
    BY <2>1, <1>3 DEF HandlerPosts
  <2>3. h'.at = "pop" => h'.result \in heard'[h'.key]
    BY <1>1, <1>3, <1>4
  <2> QED BY <1>2, <1>3, <1>4, <2>2, <2>3 DEF IInv, TypeOK, HandlerPosts
<1>6. DoneInv'
  BY <1>1, <1>3, <1>4 DEF IInv, DoneInv, Done, HandlerPosts
<1> QED
  BY <1>4, <1>5, <1>6 DEF IInv, WriteInv, NameInv, Done, HandlerPosts

\* What was posted leaves the queue.
LEMMA HandlerPopsStep == ASSUME IInv, NEW ok \in BOOLEAN, HandlerPops(ok) PROVE IInv'
<1>1. h' = Idle /\ h' \in Handler /\ h'.at = "idle"
  BY IdleType DEF HandlerPops
<1>2. queue' \subseteq queue /\ saved' \subseteq queue \cup saved
      /\ faults' \in 0..MaxFaults
  BY PersistStep DEF HandlerPops, IInv
<1>3. TypeOK'
  BY <1>1, <1>2 DEF IInv, TypeOK, HandlerPops
<1> QED
  BY <1>1, <1>2, <1>3 DEF IInv, WriteInv, DoneInv, NameInv, Done, HandlerPops

\* The flush goes through a copy of the queue.
LEMMA BeginFlushStep == ASSUME IInv, BeginFlush PROVE IInv'
<1>1. TypeOK'
  BY DEF IInv, TypeOK, BeginFlush
<1> QED BY <1>1 DEF IInv, WriteInv, DoneInv, NameInv, Done, BeginFlush

\* The flush posts a callback.
LEMMA FlushPostsStep == ASSUME IInv, NEW c \in Callback, FlushPosts(c) PROVE IInv'
<1>1. /\ c \in flush /\ flush' \subseteq flush
      /\ heard' \in {heard, Hears(c)}
      /\ popping' = popping \/ (popping' = {c} /\ heard' = Hears(c))
      /\ faults' \in 0..MaxFaults
  <2>1. CASE heard' = Hears(c) /\ popping' = {c} /\ UNCHANGED faults
    BY <2>1 DEF FlushPosts, IInv, TypeOK
  <2>2. CASE PostFails(c) /\ UNCHANGED popping
    BY <2>2, FaultType DEF FlushPosts, PostFails, IInv
  <2> QED BY <2>1, <2>2 DEF FlushPosts
<1>2. /\ heard' \in [Key -> SUBSET {"complete", "fail"}]
      /\ \A k \in Key : heard[k] \subseteq heard'[k]
      /\ \A k \in Key : "complete" \in heard'[k] =>
            "complete" \in heard[k] \/ (k = c[1] /\ c[2] = "complete")
      /\ heard' = Hears(c) => c[2] \in heard'[c[1]]
  BY <1>1, HearsType DEF IInv, TypeOK
<1>3. \A e \in popping' : e \in Callback /\ e[2] \in heard'[e[1]]
  BY <1>1, <1>2 DEF IInv, TypeOK, Callback
<1>4. TypeOK'
  BY <1>1, <1>2, <1>3 DEF IInv, TypeOK, FlushPosts
<1>5. DoneInv'
  BY <1>1, <1>2 DEF IInv, DoneInv, Done, FlushPosts
<1> QED BY <1>4, <1>5 DEF IInv, WriteInv, NameInv, Done, FlushPosts

\* What the flush has posted leaves the queue.
LEMMA FlushPopsStep == ASSUME IInv, NEW ok \in BOOLEAN, FlushPops(ok) PROVE IInv'
<1>1. queue' \subseteq queue /\ saved' \subseteq queue \cup saved
      /\ faults' \in 0..MaxFaults
  BY PersistStep DEF FlushPops, IInv
<1>2. TypeOK'
  BY <1>1 DEF IInv, TypeOK, FlushPops
<1> QED BY <1>1, <1>2 DEF IInv, WriteInv, DoneInv, NameInv, Done, FlushPops

\* A restart reads the file of the queue.
LEMMA CrashStep == ASSUME IInv, Crash PROVE IInv'
<1>1. h' = Idle /\ h' \in Handler /\ h'.at = "idle"
  BY IdleType DEF Crash
<1>2. TypeOK'
  BY <1>1, FaultType DEF IInv, TypeOK, Crash
<1> QED BY <1>1, <1>2 DEF IInv, WriteInv, DoneInv, NameInv, Done, Crash

\* The user of the host changes profiles only.
LEMMA UserStep ==
    ASSUME IInv, NEW n \in Name, UserCreates(n) \/ UserRemoves(n)
    PROVE  IInv'
<1>1. TypeOK'
  BY ProvisioningAssumption DEF IInv, TypeOK, UserCreates, UserRemoves, outbox
<1> QED
  BY <1>1 DEF IInv, WriteInv, DoneInv, NameInv, Done, UserCreates, UserRemoves, outbox

\* Every step keeps the invariant.
LEMMA InductiveStep == IInv /\ [Next]_vars => IInv'
<1> SUFFICES ASSUME IInv, [Next]_vars PROVE IInv'
  OBVIOUS
<1>1. CASE UNCHANGED vars
  BY <1>1 DEF vars, IInv, TypeOK, WriteInv, DoneInv, NameInv, Done
<1>2. CASE Next
  BY <1>2, DeliverStep, CheckStep, CheckFailsStep, CreateStep, WriteDocStep, CompleteStep,
     RaiseStep, EnqueueStep, HandlerPostsStep, HandlerPopsStep, BeginFlushStep, FlushPostsStep,
     FlushPopsStep, CrashStep, UserStep DEF Next
<1> QED BY <1>1, <1>2

--------------------------------------------------------------------------------
\* The inductive invariant holds in every reachable state.
THEOREM Invariance == Spec => []IInv
BY InitInv, InductiveStep, PTL DEF Spec

\* A completed marker and a completed report stand for documents that were all
\* written, for any number of keys, redeliveries, failed calls and crashes.
THEOREM Consistency == Spec => []Consistent
<1>1. IInv => Consistent
  BY DEF IInv, WriteInv, DoneInv, Consistent, CompletedIsWritten, Done
<1> QED BY <1>1, Invariance, PTL

\* Only a document that is written to the handler's profile changes wrote.
LEMMA WritesOwnName ==
    ASSUME IInv, [Next]_vars, NEW k \in Key, wrote'[k] # wrote[k]
    PROVE  h.name \notin existed[k]
<1>1. PICK d \in Doc : WriteDoc(d)
  BY DEF Next, vars, Deliver, Check, CheckFails, Create, Complete, Raise, HandlerPosts,
         BeginFlush, Crash, FlushPosts, Enqueue, HandlerPops, FlushPops, UserCreates,
         UserRemoves
<1>2. k = h.key /\ h.at = "files"
  BY <1>1 DEF IInv, TypeOK, WriteDoc
<1> QED BY <1>2 DEF IInv, NameInv

\* No request ever writes to a profile that was there when it was first taken up.
THEOREM KeepsOff == Spec => TakesNoExistingProfile
<1>1. IInv /\ [Next]_vars
      => [\A k \in Key : wrote'[k] # wrote[k] => h.name \notin existed[k]]_vars
  BY WritesOwnName
<1> QED BY <1>1, Invariance, PTL DEF Spec, TakesNoExistingProfile
================================================================================
