------------------------ MODULE ProfileSupervisorProofs ------------------------
(***************************************************************************)
(* Proofs about the supervisor of the profile workers, for every set of    *)
(* dispatches, jobs, profiles and processes, every limit and every fault.  *)
(***************************************************************************)
EXTENDS ProfileSupervisor, SequenceTheorems, FiniteSetTheorems, TLAPS

\* The tasks that hand work over.
Hands == Job \cup {"loop"}

(***************************************************************************)
(* The inductive invariant.  TaskInv: the registry lock is held by exactly *)
(* the task that stops or starts a process with it, and what a task waits  *)
(* for or has yet to stop follows from where it is.                        *)
(***************************************************************************)
TaskOK(t) ==
    /\ task[t].at \in {"stop", "start", "reap"} <=> lock = t
    /\ task[t].at \in {"lock", "stop", "start"} /\ t # "reaper"
       => task[t].work \in Work
    /\ task[t].at \in {"stop", "start"} => t # "reaper"
    /\ task[t].at = "reap" => t = "reaper"
    /\ task[t].at \in {"closing", "drain"} => t = "loop"
    /\ task[t].process # NoProcess => task[t].at \in {"stop", "reap", "drain"}
    /\ task[t].todo # {} => task[t].at \in {"reap", "drain"}
    /\ t = "loop" => task[t].work \in Dispatch \cup {NoWork}
    /\ t \in Job => task[t].work \in Job \cup {NoWork}
TaskInv == \A t \in Task : TaskOK(t)

\* A process is registered for its own home, and a live one is registered unless
\* the end of a connection is stopping it.
HomeInv ==
    /\ \A p \in Profile : workers[p] # NoProcess => proc[workers[p]].home = p
    /\ \A q \in Process : Live(q) => workers[proc[q].home] = q \/ q \in Draining
    /\ \A q \in Process : q \in Draining => \A p \in Profile : workers[p] # q

\* What a task replaces is the registered process of the profile.
StopInv == \A t \in Task : task[t].at = "stop" =>
              /\ task[t].process # NoProcess
              /\ workers[ProfileOf[task[t].work]] = task[t].process
RegInv == HomeInv /\ StopInv

\* The registry is within its limit, and has room while a process is started.
BoundInv ==
    /\ Cardinality(RegisteredIn(workers)) <= MaxWorkers
    /\ \A t \in Task : task[t].at = "start" =>
          /\ Cardinality(RegisteredIn(workers)) < MaxWorkers
          /\ workers[ProfileOf[task[t].work]] = NoProcess

\* Nothing waits for a process that has ended, and work waits for the process of
\* its own profile.
Mail(q) ==
    /\ ~Live(q) => inbox[q] = <<>>
    /\ \A i \in DOMAIN inbox[q] :
         inbox[q][i].type = "work" =>
           inbox[q][i].work \in Work /\ ProfileOf[inbox[q][i].work] = proc[q].home
MailInv == \A q \in Process : Mail(q)

\* A process that was told to shut down is waited for by the task that told it.
\* Only the end of a connection cancels such a task, the reaper, and then nothing
\* is dispatched until it has taken that process too.
Told(q) == \E i \in DOMAIN inbox[q] : inbox[q][i].type = "shutdown"
ShutInv == \A q \in Process : Told(q) =>
              \/ task["loop"].at = "closing"
              \/ q \in Draining
              \/ \E t \in Task : task[t].process = q

\* NoDispatchBehindShutdown, of one process.
InOrder(q) ==
    \A i, j \in DOMAIN inbox[q] :
        i < j /\ inbox[q][i].type = "shutdown"
        => inbox[q][j].type # "work" \/ inbox[q][j].work \in Job
OrderInv == \A q \in Process : InOrder(q)

\* Two processes share a home only if overlap says so; without overlap a process
\* knows what the state file of its home says, once it was initialised; and a
\* dispatch that was executed is in the state file.
AwaitsInitialize(q) == inbox[q] # <<>> /\ Head(inbox[q]).type = "initialize"
ShareInv == \A q, r \in Process :
               Live(q) /\ Live(r) /\ proc[q].home = proc[r].home /\ q # r
               => proc[q].home \in overlap
KnownInv == \A q \in Process : Live(q) /\ proc[q].home \notin overlap =>
              AwaitsInitialize(q) \/ proc[q].known = ledger[proc[q].home]
ExecInv == \A d \in Dispatch : ProfileOf[d] \notin overlap =>
              execs[d] <= 1 /\ (execs[d] # 0 => d \in ledger[ProfileOf[d]])
OnceInv == ShareInv /\ KnownInv /\ ExecInv

IInv == /\ TypeOK /\ TaskInv /\ RegInv /\ BoundInv
        /\ MailInv /\ ShutInv /\ OrderInv /\ OnceInv

--------------------------------------------------------------------------------
(* Sequences of commands.                                                  *)

LEMMA Appended ==
    ASSUME NEW s \in Seq(Command), NEW c \in Command
    PROVE  /\ Append(s, c) \in Seq(Command) /\ Append(s, c) # <<>>
           /\ Len(s) \in Nat /\ DOMAIN s = 1 .. Len(s)
           /\ DOMAIN Append(s, c) = 1 .. (Len(s) + 1)
           /\ \A i \in DOMAIN s : Append(s, c)[i] = s[i]
           /\ Append(s, c)[Len(s) + 1] = c
           /\ s # <<>> => Head(Append(s, c)) = Head(s)
  BY AppendProperties, LenProperties, HeadTailAppend

LEMMA Dropped ==
    ASSUME NEW s \in Seq(Command), s # <<>>
    PROVE  /\ Tail(s) \in Seq(Command) /\ Head(s) \in Command
           /\ Len(s) \in Nat \ {0} /\ DOMAIN s = 1 .. Len(s)
           /\ DOMAIN Tail(s) = 1 .. (Len(s) - 1)
           /\ \A i \in DOMAIN Tail(s) : i + 1 \in DOMAIN s /\ Tail(s)[i] = s[i + 1]
           /\ 1 \in DOMAIN s /\ Head(s) = s[1]
  <1>1. /\ Tail(s) \in Seq(Command) /\ Head(s) \in Command
        /\ Len(Tail(s)) = Len(s) - 1
        /\ \A i \in 1 .. Len(Tail(s)) : Tail(s)[i] = s[i + 1]
    BY HeadTailProperties
  <1>2. Len(s) \in Nat \ {0} /\ DOMAIN s = 1 .. Len(s)
    BY EmptySeq, LenProperties
  <1>3. DOMAIN Tail(s) = 1 .. Len(Tail(s))
    BY <1>1, LenProperties
  <1>4. Head(s) = s[1]
    OBVIOUS
  <1> QED BY <1>1, <1>2, <1>3, <1>4

\* A write: it is the last command of a live process.
LEMMA Written ==
    ASSUME TypeOK, NEW q \in Process, NEW c \in Command, Write(q, c)
    PROVE  /\ inbox' \in [Process -> Seq(Command)]
           /\ \A r \in Process : r # q \/ ~Live(q) => inbox'[r] = inbox[r]
           /\ Live(q) => inbox'[q] = Append(inbox[q], c)
  <1>1. Append(inbox[q], c) \in Seq(Command)
    BY Appended DEF TypeOK
  <1> QED BY <1>1 DEF Write, TypeOK

LEMMA Popped ==
    ASSUME TypeOK, NEW q \in Process, inbox[q] # <<>>, Pop(q)
    PROVE  /\ inbox' \in [Process -> Seq(Command)]
           /\ \A r \in Process : r # q => inbox'[r] = inbox[r]
           /\ inbox'[q] = Tail(inbox[q])
  <1>1. Tail(inbox[q]) \in Seq(Command)
    BY Dropped DEF TypeOK
  <1> QED BY <1>1 DEF Pop, TypeOK

LEMMA EmptyInbox ==
    ASSUME TypeOK, NEW q \in Process, inbox' = [inbox EXCEPT ![q] = <<>>]
    PROVE  /\ inbox' \in [Process -> Seq(Command)]
           /\ \A r \in Process : r # q => inbox'[r] = inbox[r]
           /\ inbox'[q] = <<>>
  BY EmptySeq DEF TypeOK

--------------------------------------------------------------------------------
(* The records of tasks and processes.                                     *)

\* Constants: what the tasks and their parts are called apart from each other.
LEMMA Names ==
    /\ "loop" \in Task /\ "reaper" \in Task /\ Hands \subseteq Task
    /\ "reaper" \notin Hands /\ "none" \notin Task
    /\ "loop" \notin Job /\ "reaper" \notin Job /\ "loop" # "reaper"
    /\ NoProcess \notin Process /\ NoWork \notin Work
    /\ Dispatch \subseteq Work /\ Job \subseteq Work /\ Dispatch \cap Job = {}
    /\ ProfileOf \in [Work -> Profile]
  BY SupervisorAssumption DEF Task, Hands, Work

LEMMA RestingType ==
    ASSUME NEW a \in {"off", "offline", "idle", "lock", "closing"}
    PROVE  Resting(a) \in TaskState
  BY DEF TaskState, Resting

LEMMA HandingType ==
    ASSUME NEW a \in {"new", "lock", "stop", "start"}, NEW w \in Work,
           NEW q \in Process \cup {NoProcess}
    PROVE  Handing(a, w, q) \in TaskState
  BY DEF TaskState, Handing

LEMMA StoppingType ==
    ASSUME NEW a \in {"reap", "drain"}, NEW q \in Process \cup {NoProcess},
           NEW S \in SUBSET Process
    PROVE  Stopping(a, q, S) \in TaskState
  BY DEF TaskState, Stopping

LEMMA RestingFields ==
    ASSUME NEW a
    PROVE  /\ Resting(a).at = a /\ Resting(a).work = NoWork
           /\ Resting(a).process = NoProcess /\ Resting(a).todo = {}
  BY DEF Resting

LEMMA HandingFields ==
    ASSUME NEW a, NEW w, NEW q
    PROVE  /\ Handing(a, w, q).at = a /\ Handing(a, w, q).work = w
           /\ Handing(a, w, q).process = q /\ Handing(a, w, q).todo = {}
  BY DEF Handing

LEMMA StoppingFields ==
    ASSUME NEW a, NEW q, NEW S
    PROVE  /\ Stopping(a, q, S).at = a /\ Stopping(a, q, S).work = NoWork
           /\ Stopping(a, q, S).process = q /\ Stopping(a, q, S).todo = S
  BY DEF Stopping

LEMMA ProcTypes ==
    ASSUME NEW a \in {"gone", "live", "ended"}, NEW p \in Profile, NEW i \in BOOLEAN,
           NEW e \in {EpochOf[w] : w \in Work} \cup {NoEpoch}
    PROVE  Ended(a, e, p, i) \in ProcState
  BY DEF ProcState, Ended

LEMMA ProcFields ==
    ASSUME NEW a, NEW e, NEW p, NEW i
    PROVE  /\ Ended(a, e, p, i).at = a /\ Ended(a, e, p, i).epoch = e
           /\ Ended(a, e, p, i).home = p /\ Ended(a, e, p, i).known = {}
           /\ Ended(a, e, p, i).running = {} /\ Ended(a, e, p, i).job = NoWork
  BY DEF Ended

LEMMA GoneType == Gone \in ProcState /\ Gone.at = "gone"
  <1> DEFINE p == CHOOSE i \in Profile : TRUE
  <1>1. p \in Profile
    BY SupervisorAssumption
  <1>2. Gone = Ended("gone", NoEpoch, p, FALSE)
    BY DEF Gone
  <1> HIDE DEF p
  <1>3. Ended("gone", NoEpoch, p, FALSE) \in ProcState
    BY <1>1 DEF ProcState, Ended
  <1>4. Ended("gone", NoEpoch, p, FALSE).at = "gone"
    BY DEF Ended
  <1> QED BY <1>2, <1>3, <1>4

\* One field of a process changes.
LEMMA SetIdle ==
    ASSUME NEW P \in [Process -> ProcState], NEW q \in Process, NEW b \in BOOLEAN
    PROVE  /\ [P EXCEPT ![q].idle = b] \in [Process -> ProcState]
           /\ \A r \in Process :
                /\ [P EXCEPT ![q].idle = b][r].at = P[r].at
                /\ [P EXCEPT ![q].idle = b][r].home = P[r].home
                /\ [P EXCEPT ![q].idle = b][r].known = P[r].known
  <1>1. [P[q] EXCEPT !.idle = b] \in ProcState
    BY DEF ProcState
  <1>2. \A r \in Process :
           /\ [P EXCEPT ![q].idle = b][r].at = P[r].at
           /\ [P EXCEPT ![q].idle = b][r].home = P[r].home
           /\ [P EXCEPT ![q].idle = b][r].known = P[r].known
    BY DEF ProcState
  <1> QED BY <1>1, <1>2

LEMMA SetKnown ==
    ASSUME NEW P \in [Process -> ProcState], NEW q \in Process, NEW D \in SUBSET Dispatch
    PROVE  /\ [P EXCEPT ![q].known = D] \in [Process -> ProcState]
           /\ \A r \in Process :
                /\ [P EXCEPT ![q].known = D][r].at = P[r].at
                /\ [P EXCEPT ![q].known = D][r].home = P[r].home
                /\ [P EXCEPT ![q].known = D][r].known = IF r = q THEN D ELSE P[r].known
  <1>1. [P[q] EXCEPT !.known = D] \in ProcState
    BY DEF ProcState
  <1>2. \A r \in Process :
           /\ [P EXCEPT ![q].known = D][r].at = P[r].at
           /\ [P EXCEPT ![q].known = D][r].home = P[r].home
           /\ [P EXCEPT ![q].known = D][r].known = IF r = q THEN D ELSE P[r].known
    BY DEF ProcState
  <1> QED BY <1>1, <1>2

LEMMA SetRunning ==
    ASSUME NEW P \in [Process -> ProcState], NEW q \in Process, NEW D \in SUBSET Dispatch
    PROVE  /\ [P EXCEPT ![q].running = D] \in [Process -> ProcState]
           /\ \A r \in Process :
                /\ [P EXCEPT ![q].running = D][r].at = P[r].at
                /\ [P EXCEPT ![q].running = D][r].home = P[r].home
                /\ [P EXCEPT ![q].running = D][r].known = P[r].known
  <1>1. [P[q] EXCEPT !.running = D] \in ProcState
    BY DEF ProcState
  <1>2. \A r \in Process :
           /\ [P EXCEPT ![q].running = D][r].at = P[r].at
           /\ [P EXCEPT ![q].running = D][r].home = P[r].home
           /\ [P EXCEPT ![q].running = D][r].known = P[r].known
    BY DEF ProcState
  <1> QED BY <1>1, <1>2

LEMMA SetJob ==
    ASSUME NEW P \in [Process -> ProcState], NEW q \in Process, NEW j \in Job \cup {NoWork}
    PROVE  /\ [P EXCEPT ![q].job = j] \in [Process -> ProcState]
           /\ \A r \in Process :
                /\ [P EXCEPT ![q].job = j][r].at = P[r].at
                /\ [P EXCEPT ![q].job = j][r].home = P[r].home
                /\ [P EXCEPT ![q].job = j][r].known = P[r].known
  <1>1. [P[q] EXCEPT !.job = j] \in ProcState
    BY DEF ProcState
  <1>2. \A r \in Process :
           /\ [P EXCEPT ![q].job = j][r].at = P[r].at
           /\ [P EXCEPT ![q].job = j][r].home = P[r].home
           /\ [P EXCEPT ![q].job = j][r].known = P[r].known
    BY DEF ProcState
  <1> QED BY <1>1, <1>2

--------------------------------------------------------------------------------
(* What keeps each part of the invariant.                                  *)

LEMMA RegKeep ==
    ASSUME TypeOK, RegInv, BoundInv, UNCHANGED workers,
           \A q \in Process : /\ proc'[q].home = proc[q].home
                              /\ proc'[q].at = "live" => proc[q].at = "live",
           \A q \in Process : q \in Draining' <=> q \in Draining,
           \A t \in Task : task'[t].at = "start" => task'[t] = task[t],
           \A t \in Task : task'[t].at = "stop" =>
              \/ task'[t] = task[t]
              \/ /\ task'[t].process # NoProcess
                 /\ workers[ProfileOf[task'[t].work]] = task'[t].process
    PROVE  RegInv' /\ BoundInv'
  <1>1. \A p \in Profile : workers[p] # NoProcess => workers[p] \in Process
    BY DEF TypeOK
  <1>2. RegInv'
    BY <1>1 DEF RegInv, HomeInv, StopInv, Live
  <1>3. BoundInv'
    BY DEF BoundInv, RegisteredIn
  <1> QED BY <1>2, <1>3

LEMMA MailKeep ==
    ASSUME NEW q \in Process, Mail(q), InOrder(q),
           inbox'[q] = inbox[q], proc'[q].home = proc[q].home,
           proc'[q].at = "live" <=> proc[q].at = "live"
    PROVE  Mail(q)' /\ InOrder(q)' /\ (Told(q)' <=> Told(q))
           /\ (AwaitsInitialize(q)' <=> AwaitsInitialize(q))
  BY DEF Mail, InOrder, Told, AwaitsInitialize, Live

LEMMA MailEmpty ==
    ASSUME NEW q \in Process, inbox'[q] = <<>>
    PROVE  Mail(q)' /\ InOrder(q)' /\ ~Told(q)'
  <1>1. DOMAIN inbox'[q] = {}
    OBVIOUS
  <1> QED BY <1>1 DEF Mail, InOrder, Told

LEMMA MailPop ==
    ASSUME NEW q \in Process, inbox[q] \in Seq(Command), inbox[q] # <<>>,
           Mail(q), InOrder(q), inbox'[q] = Tail(inbox[q]),
           proc'[q].home = proc[q].home, proc'[q].at = proc[q].at
    PROVE  Mail(q)' /\ InOrder(q)' /\ (Told(q)' => Told(q))
  <1> DEFINE s == inbox[q]
  <1>1. /\ Len(s) \in Nat \ {0} /\ DOMAIN s = 1 .. Len(s)
        /\ DOMAIN inbox'[q] = 1 .. (Len(s) - 1)
        /\ \A i \in DOMAIN inbox'[q] : i + 1 \in DOMAIN s /\ inbox'[q][i] = s[i + 1]
    BY Dropped
  <1>2. Live(q)
    BY DEF Mail
  <1>3. Mail(q)'
    BY <1>1, <1>2 DEF Mail, Live
  <1>4. InOrder(q)'
    <2> SUFFICES ASSUME NEW i \in DOMAIN inbox'[q], NEW j \in DOMAIN inbox'[q],
                        i < j, inbox'[q][i].type = "shutdown"
                 PROVE  inbox'[q][j].type # "work" \/ inbox'[q][j].work \in Job
      BY DEF InOrder
    <2>1. i \in Int /\ j \in Int /\ i + 1 < j + 1
      BY <1>1
    <2>2. s[i + 1].type = "shutdown" /\ i + 1 \in DOMAIN s /\ j + 1 \in DOMAIN s
      BY <1>1
    <2> QED BY <1>1, <2>1, <2>2 DEF InOrder
  <1>5. Told(q)' => Told(q)
    BY <1>1 DEF Told
  <1> QED BY <1>3, <1>4, <1>5

LEMMA MailAppend ==
    ASSUME NEW q \in Process, inbox[q] \in Seq(Command), NEW c \in Command,
           Mail(q), InOrder(q), Live(q), inbox'[q] = Append(inbox[q], c),
           proc'[q].home = proc[q].home, proc'[q].at = proc[q].at,
           c.type = "work" => c.work \in Work /\ ProfileOf[c.work] = proc[q].home,
           c.type = "work" /\ c.work \notin Job => ~Told(q)
    PROVE  /\ Mail(q)' /\ InOrder(q)'
           /\ Told(q)' => Told(q) \/ c.type = "shutdown"
           /\ AwaitsInitialize(q) => AwaitsInitialize(q)'
  <1> DEFINE s == inbox[q]
             n == Len(s)
  <1>1. /\ n \in Nat /\ DOMAIN s = 1 .. n /\ DOMAIN inbox'[q] = 1 .. (n + 1)
        /\ \A i \in DOMAIN s : inbox'[q][i] = s[i]
        /\ inbox'[q][n + 1] = c
        /\ inbox'[q] # <<>>
        /\ s # <<>> => Head(inbox'[q]) = Head(s)
    BY Appended
  <1>2. \A i \in DOMAIN inbox'[q] : \/ i \in DOMAIN s /\ inbox'[q][i] = s[i]
                                    \/ i = n + 1 /\ inbox'[q][i] = c
    BY <1>1
  <1>3. Mail(q)'
    BY <1>2 DEF Mail, Live
  <1>4. InOrder(q)'
    <2> SUFFICES ASSUME NEW i \in DOMAIN inbox'[q], NEW j \in DOMAIN inbox'[q],
                        i < j, inbox'[q][i].type = "shutdown"
                 PROVE  inbox'[q][j].type # "work" \/ inbox'[q][j].work \in Job
      BY DEF InOrder
    <2>1. i \in DOMAIN s /\ s[i].type = "shutdown"
      BY <1>1
    <2>2. CASE j \in DOMAIN s
      BY <1>1, <2>1, <2>2 DEF InOrder
    <2>3. CASE j = n + 1
      BY <1>1, <2>1, <2>3 DEF Told
    <2> QED BY <1>2, <2>2, <2>3
  <1>5. Told(q)' => Told(q) \/ c.type = "shutdown"
    BY <1>2 DEF Told
  <1>6. AwaitsInitialize(q) => AwaitsInitialize(q)'
    BY <1>1 DEF AwaitsInitialize
  <1> QED BY <1>3, <1>4, <1>5, <1>6

LEMMA ShutKeep ==
    ASSUME ShutInv,
           task["loop"].at = "closing" => task'["loop"].at = "closing",
           \A q \in Process : q \in Draining => q \in Draining',
           \A q \in Process : Told(q)' =>
              Told(q) \/ \E t \in Task : task'[t].process = q,
           \A q \in Process : Told(q)' => \A t \in Task :
              task[t].process = q
              => task'[t].process = q \/ task'["loop"].at = "closing"
    PROVE  ShutInv'
  <1> SUFFICES ASSUME NEW q \in Process, Told(q)'
               PROVE  \/ task'["loop"].at = "closing"
                      \/ q \in Draining'
                      \/ \E t \in Task : task'[t].process = q
    BY DEF ShutInv
  <1>1. CASE Told(q)
    <2>1. CASE task["loop"].at = "closing"
      BY <2>1
    <2>2. CASE q \in Draining
      BY <2>2
    <2>3. ASSUME NEW t \in Task, task[t].process = q
          PROVE  task'[t].process = q \/ task'["loop"].at = "closing"
      BY <2>3
    <2> QED BY <1>1, <2>1, <2>2, <2>3 DEF ShutInv
  <1>2. CASE \E t \in Task : task'[t].process = q
    BY <1>2
  <1> QED BY <1>1, <1>2

LEMMA OnceKeep ==
    ASSUME OnceInv, UNCHANGED <<ledger, execs, overlap>>,
           \A q \in Process :
              /\ proc'[q].at = "live" => proc[q].at = "live" /\ proc'[q].home = proc[q].home
              /\ proc'[q].at = "live" /\ AwaitsInitialize(q) => AwaitsInitialize(q)'
              /\ proc'[q].at = "live" => proc'[q].known = proc[q].known
    PROVE  OnceInv'
  <1>1. ShareInv'
    BY DEF OnceInv, ShareInv, Live
  <1>2. KnownInv'
    BY DEF OnceInv, KnownInv, Live
  <1>3. ExecInv'
    BY DEF OnceInv, ExecInv
  <1> QED BY <1>1, <1>2, <1>3 DEF OnceInv

\* The task of the message loop decides what is draining.
LEMMA DrainKeep ==
    ASSUME TypeOK,
           \/ task'["loop"] = task["loop"]
           \/ task["loop"].at # "drain" /\ task'["loop"].at # "drain"
    PROVE  \A q \in Process : q \in Draining' <=> q \in Draining
  BY DEF Draining

LEMMA QuietStep ==
    ASSUME IInv, TypeOK', TaskInv',
           UNCHANGED <<workers, inbox, ledger, execs, overlap>>,
           \A q \in Process : /\ proc'[q].home = proc[q].home
                              /\ proc'[q].known = proc[q].known
                              /\ proc'[q].at = "live" <=> proc[q].at = "live",
           \A q \in Process : q \in Draining' <=> q \in Draining,
           task["loop"].at = "closing" => task'["loop"].at = "closing",
           \A t \in Task : /\ task'[t].at \in {"start", "stop"} => task'[t] = task[t]
                           /\ \/ task'[t].process = task[t].process
                              \/ task[t].process \notin Process
                              \/ task'["loop"].at = "closing"
    PROVE  IInv'
  <1>2. RegInv' /\ BoundInv'
    BY RegKeep DEF IInv
  <1>3. \A q \in Process : /\ Mail(q)' /\ InOrder(q)' /\ (Told(q)' <=> Told(q))
                           /\ (AwaitsInitialize(q)' <=> AwaitsInitialize(q))
    BY MailKeep DEF IInv, MailInv, OrderInv
  <1>4. ShutInv'
    BY <1>3, ShutKeep DEF IInv
  <1>5. OnceInv'
    BY <1>3, OnceKeep DEF IInv
  <1> QED BY <1>2, <1>3, <1>4, <1>5 DEF IInv, MailInv, OrderInv

\* A process reads its next command.
LEMMA PopStep ==
    ASSUME IInv, TypeOK', UNCHANGED <<workers, lock, task, overlap>>,
           NEW q \in Process, inbox[q] # <<>>, Pop(q), Live(q),
           \A r \in Process : proc'[r].home = proc[r].home /\ proc'[r].at = proc[r].at,
           KnownInv', ExecInv'
    PROVE  IInv'
  <1>1. TaskInv'
    BY DEF IInv, TaskInv, TaskOK
  <1>2. RegInv' /\ BoundInv'
    <2>1. \A i \in Process : i \in Draining' <=> i \in Draining
      BY DEF Draining
    <2> QED BY <2>1, RegKeep DEF IInv
  <1>3. \A r \in Process : r # q => inbox'[r] = inbox[r]
    BY Popped DEF IInv
  <1>4. inbox'[q] = Tail(inbox[q]) /\ inbox[q] \in Seq(Command)
    BY Popped DEF IInv, TypeOK
  <1>5. \A r \in Process : Mail(r)' /\ InOrder(r)' /\ (Told(r)' => Told(r))
    <2> TAKE r \in Process
    <2>1. CASE r = q
      BY <1>4, <2>1, MailPop DEF IInv, MailInv, OrderInv
    <2>2. CASE r # q
      BY <1>3, <2>2, MailKeep DEF IInv, MailInv, OrderInv
    <2> QED BY <2>1, <2>2
  <1>6. ShutInv'
    BY <1>5, ShutKeep DEF IInv, Draining
  <1>7. ShareInv'
    BY DEF IInv, OnceInv, ShareInv, Live
  <1> QED BY <1>1, <1>2, <1>5, <1>6, <1>7 DEF IInv, MailInv, OrderInv, OnceInv

\* A process ends.
LEMMA EndStep ==
    ASSUME IInv, UNCHANGED <<workers, lock, task, overlap, ledger, execs>>, TypeOK',
           NEW q \in Process, inbox' = [inbox EXCEPT ![q] = <<>>],
           \A r \in Process :
              /\ proc'[r].home = proc[r].home
              /\ r # q => proc'[r] = proc[r],
           proc'[q].at # "live"
    PROVE  IInv'
  <1>1. TaskInv'
    BY DEF IInv, TaskInv, TaskOK
  <1>2. RegInv' /\ BoundInv'
    <2>1. \A i \in Process : i \in Draining' <=> i \in Draining
      BY DEF Draining
    <2>2. \A r \in Process : proc'[r].at = "live" => proc[r].at = "live"
      OBVIOUS
    <2> QED BY <2>1, <2>2, RegKeep DEF IInv
  <1>3. (\A r \in Process : r # q => inbox'[r] = inbox[r]) /\ inbox'[q] = <<>>
    BY EmptyInbox DEF IInv
  <1>4. \A r \in Process : Mail(r)' /\ InOrder(r)' /\ (Told(r)' => Told(r))
                           /\ (r # q => (AwaitsInitialize(r)' <=> AwaitsInitialize(r)))
    <2> TAKE r \in Process
    <2>1. CASE r = q
      BY <1>3, <2>1, MailEmpty
    <2>2. CASE r # q
      BY <1>3, <2>2, MailKeep DEF IInv, MailInv, OrderInv
    <2> QED BY <2>1, <2>2
  <1>5. ShutInv'
    BY <1>4, ShutKeep DEF IInv, Draining
  <1>6. OnceInv'
    BY <1>4, OnceKeep DEF IInv
  <1> QED BY <1>1, <1>2, <1>4, <1>5, <1>6 DEF IInv, MailInv, OrderInv

--------------------------------------------------------------------------------
(* The steps that only move tasks.                                         *)

\* What EnsureReaper makes of the tasks.
LEMMA Ensured ==
    ASSUME NEW T \in [Task -> TaskState]
    PROVE  /\ EnsureReaper(T) \in [Task -> TaskState]
           /\ \A t \in Task : \/ EnsureReaper(T)[t] = T[t]
                              \/ /\ t = "reaper" /\ T[t].at = "off"
                                 /\ EnsureReaper(T)[t] = Resting("idle")
  <1>1. Resting("idle") \in TaskState
    BY DEF TaskState, Resting
  <1> QED BY <1>1, Names DEF EnsureReaper

\* One task changes, and perhaps the reaper with it.
LEMMA TaskKeep ==
    ASSUME TypeOK, TaskInv, UNCHANGED lock, NEW t \in Task, NEW u \in TaskState,
           task'[t] = u,
           \A s \in Task \ {t} : \/ task'[s] = task[s]
                                 \/ /\ s = "reaper" /\ task[s].at = "off"
                                    /\ task'[s] = Resting("idle"),
           u.at \in {"off", "offline", "idle", "new", "lock", "closing"},
           lock # t, u.process = NoProcess, u.todo = {},
           u.at = "lock" /\ t # "reaper" => u.work \in Work,
           u.at = "closing" => t = "loop",
           t = "loop" => u.work \in Dispatch \cup {NoWork},
           t \in Job => u.work \in Job \cup {NoWork}
    PROVE  TaskInv'
  <1> SUFFICES ASSUME NEW s \in Task PROVE TaskOK(s)'
    BY DEF TaskInv
  <1>1. CASE s = t
    BY <1>1 DEF TaskOK
  <1>2. CASE s # t /\ task'[s] = task[s]
    BY <1>2 DEF TaskInv, TaskOK
  <1>3. CASE s = "reaper" /\ task[s].at = "off" /\ task'[s] = Resting("idle")
    BY <1>3, Names DEF TaskInv, TaskOK, Resting
  <1> QED BY <1>1, <1>2, <1>3

\* Nothing but the place of a task changes that neither stops nor starts a
\* process, before or after.
LEMMA QuietMove ==
    ASSUME IInv, TypeOK', NEW t \in Task,
           UNCHANGED <<lock, workers, inbox, ledger, execs, overlap>>,
           \A q \in Process : /\ proc'[q].home = proc[q].home
                              /\ proc'[q].known = proc[q].known
                              /\ proc'[q].at = "live" <=> proc[q].at = "live",
           task[t].at \in {"off", "offline", "idle", "new", "lock"},
           task'[t].at \in {"off", "offline", "idle", "new", "lock"},
           task'[t].process = NoProcess, task'[t].todo = {},
           task'[t].at = "lock" /\ t # "reaper" => task'[t].work \in Work,
           t = "loop" => task'[t].work \in Dispatch \cup {NoWork},
           t \in Job => task'[t].work \in Job \cup {NoWork},
           \A s \in Task \ {t} : \/ task'[s] = task[s]
                                 \/ /\ s = "reaper" /\ task[s].at = "off"
                                    /\ task'[s] = Resting("idle")
    PROVE  IInv'
  <1>1. lock # t /\ task[t].process = NoProcess /\ "loop" \in Task /\ "reaper" # "loop"
    BY Names DEF IInv, TaskInv, TaskOK
  <1>2. task'[t] \in TaskState
    BY DEF TypeOK
  <1>3. TaskInv'
    BY <1>1, <1>2, TaskKeep DEF IInv
  <1>4. \A s \in Task : task'[s].process = task[s].process
    <2> TAKE s \in Task
    <2>1. CASE s = "reaper" /\ task[s].at = "off" /\ task'[s] = Resting("idle")
      BY <2>1, RestingFields DEF IInv, TaskInv, TaskOK
    <2> QED BY <1>1, <2>1
  <1>5. \A s \in Task : task'[s].at \in {"start", "stop"} => task'[s] = task[s]
    BY RestingFields
  <1>6. /\ \/ task'["loop"] = task["loop"]
           \/ task["loop"].at # "drain" /\ task'["loop"].at # "drain"
        /\ task["loop"].at = "closing" => task'["loop"].at = "closing"
    BY <1>1
  <1>7. \A q \in Process : q \in Draining' <=> q \in Draining
    BY <1>6, DrainKeep DEF IInv
  <1> QED BY <1>3, <1>4, <1>5, <1>6, <1>7, QuietStep

LEMMA DeliveredType ==
    ASSUME TypeOK, NEW w \in Work, MayReceive(w),
           delivered' = [delivered EXCEPT ![w] = @ + 1]
    PROVE  delivered' \in [Work -> 0 .. 2]
  <1>1. delivered[w] \in 0 .. 2 /\ delivered[w] < 2
    BY DEF MayReceive, TypeOK
  <1> QED BY <1>1 DEF TypeOK

LEMMA SetTask ==
    ASSUME TypeOK, NEW t \in Task, NEW u \in TaskState
    PROVE  /\ [task EXCEPT ![t] = u] \in [Task -> TaskState]
           /\ [task EXCEPT ![t] = u][t] = u
           /\ \A s \in Task \ {t} : [task EXCEPT ![t] = u][s] = task[s]
  BY DEF TypeOK

LEMMA ReceiveDispatchStep ==
    ASSUME IInv, NEW d \in Dispatch, ReceiveDispatch(d)
    PROVE  IInv'
  <1> DEFINE u == Handing("lock", d, NoProcess)
             T == [task EXCEPT !["loop"] = u]
  <1>1. u \in TaskState
    BY HandingType, Names
  <1>2. /\ T \in [Task -> TaskState] /\ T["loop"] = u
        /\ \A s \in Task \ {"loop"} : T[s] = task[s]
    BY <1>1, SetTask, Names DEF IInv
  <1>3. task' = EnsureReaper(T)
    BY DEF ReceiveDispatch
  <1>4. /\ u.at = "lock" /\ u.work = d /\ u.process = NoProcess /\ u.todo = {}
    BY HandingFields
  <1> HIDE DEF u, T
  <1>5. /\ task' \in [Task -> TaskState] /\ task'["loop"] = u
        /\ \A s \in Task \ {"loop"} : \/ task'[s] = task[s]
                                      \/ /\ s = "reaper" /\ task[s].at = "off"
                                         /\ task'[s] = Resting("idle")
    BY <1>2, <1>3, Ensured, Names
  <1>6. task["loop"].at = "idle"
    BY DEF ReceiveDispatch
  <1>7. UNCHANGED <<workers, lock, restarts, conn, mapped, proc, inbox, pipe, reader,
                    ledger, execs, answered, overlap>>
    BY DEF ReceiveDispatch, procVars
  <1>8. delivered' \in [Work -> 0 .. 2]
    BY DeliveredType, Names DEF ReceiveDispatch, IInv
  <1>9. TypeOK'
    BY <1>5, <1>7, <1>8 DEF IInv, TypeOK
  <1> QED BY <1>4, <1>5, <1>6, <1>7, <1>9, QuietMove, Names

LEMMA ReceiveJobStep ==
    ASSUME IInv, NEW j \in Job, ReceiveJob(j)
    PROVE  IInv'
  <1> DEFINE u == Handing("new", j, NoProcess)
  <1>1. u \in TaskState
    BY HandingType, Names
  <1>2. /\ u.at = "new" /\ u.work = j /\ u.process = NoProcess /\ u.todo = {}
    BY HandingFields
  <1>3. j \in Task /\ j # "loop" /\ j \in Work
    BY Names, SupervisorAssumption DEF Task, Work
  <1>4. task' = [task EXCEPT ![j] = u] /\ task[j].at = "idle"
    BY DEF ReceiveJob
  <1> HIDE DEF u
  <1>5. /\ task' \in [Task -> TaskState] /\ task'[j] = u
        /\ \A s \in Task \ {j} : task'[s] = task[s]
    BY <1>1, <1>3, <1>4, SetTask DEF IInv
  <1>6. UNCHANGED <<workers, lock, restarts, conn, mapped, proc, inbox, pipe, reader,
                    ledger, execs, answered, overlap>>
    BY DEF ReceiveJob, procVars
  <1>7. delivered' \in [Work -> 0 .. 2]
    BY <1>3, DeliveredType DEF ReceiveJob, IInv
  <1>8. TypeOK'
    BY <1>5, <1>6, <1>7 DEF IInv, TypeOK
  <1> QED BY <1>2, <1>3, <1>4, <1>5, <1>6, <1>8, QuietMove

LEMMA JobBeginsStep ==
    ASSUME IInv, NEW j \in Job, JobBegins(j)
    PROVE  IInv'
  <1> DEFINE u == Handing("lock", j, NoProcess)
             T == [task EXCEPT ![j] = u]
  <1>1. u \in TaskState
    BY HandingType, Names
  <1>2. j \in Task /\ j # "loop" /\ j # "reaper" /\ j \in Work
    BY Names, SupervisorAssumption DEF Task, Work
  <1>3. /\ T \in [Task -> TaskState] /\ T[j] = u
        /\ \A s \in Task \ {j} : T[s] = task[s]
    BY <1>1, <1>2, SetTask DEF IInv
  <1>4. task' = EnsureReaper(T) /\ task[j].at = "new"
    BY DEF JobBegins
  <1>5. /\ u.at = "lock" /\ u.work = j /\ u.process = NoProcess /\ u.todo = {}
    BY HandingFields
  <1> HIDE DEF u, T
  <1>6. /\ task' \in [Task -> TaskState] /\ task'[j] = u
        /\ \A s \in Task \ {j} : \/ task'[s] = task[s]
                                 \/ /\ s = "reaper" /\ task[s].at = "off"
                                    /\ task'[s] = Resting("idle")
    BY <1>2, <1>3, <1>4, Ensured
  <1>7. UNCHANGED <<workers, lock, restarts, conn, mapped, proc, inbox, pipe, reader,
                    ledger, delivered, execs, answered, overlap>>
    BY DEF JobBegins, procVars, ghostVars
  <1>8. TypeOK'
    BY <1>6, <1>7 DEF IInv, TypeOK
  <1> QED BY <1>2, <1>4, <1>5, <1>6, <1>7, <1>8, QuietMove

\* A task comes to rest again.
LEMMA RestStep ==
    ASSUME IInv, NEW t \in Task, NEW a \in {"off", "offline", "idle", "lock"},
           task' = [task EXCEPT ![t] = Resting(a)],
           a = "lock" => t = "reaper",
           task[t].at \in {"off", "offline", "idle", "new", "lock"},
           UNCHANGED <<lock, workers, restarts, inbox, pipe, reader, ledger,
                       delivered, execs, overlap>>,
           conn' \in BOOLEAN, mapped' \subseteq mapped, answered' \subseteq Work,
           proc' \in [Process -> ProcState],
           \A q \in Process : /\ proc'[q].home = proc[q].home
                              /\ proc'[q].known = proc[q].known
                              /\ proc'[q].at = "live" <=> proc[q].at = "live"
    PROVE  IInv'
  <1> DEFINE u == Resting(a)
  <1>1. /\ u \in TaskState /\ u.at = a /\ u.work = NoWork
        /\ u.process = NoProcess /\ u.todo = {}
    BY RestingType, RestingFields
  <1> HIDE DEF u
  <1>2. task' = [task EXCEPT ![t] = u]
    BY DEF u
  <1>3. /\ task' \in [Task -> TaskState] /\ task'[t] = u
        /\ \A s \in Task \ {t} : task'[s] = task[s]
    BY <1>1, <1>2, SetTask DEF IInv
  <1>4. TypeOK'
    BY <1>3 DEF IInv, TypeOK
  <1> QED BY <1>1, <1>3, <1>4, QuietMove

LEMMA CancelFailsStep ==
    ASSUME IInv, NEW d \in Dispatch, CancelFails(d)
    PROVE  IInv'
  <1>1. UNCHANGED <<workers, lock, restarts, mapped, proc, inbox, pipe, reader, ledger,
                    delivered, execs, answered, overlap>>
    BY DEF CancelFails, procVars, ghostVars
  <1> QED BY <1>1, RestStep, Names DEF CancelFails, IInv, TypeOK

LEMMA ConnectStep == IInv /\ Connect => IInv'
  <1> SUFFICES ASSUME IInv, Connect PROVE IInv'
    OBVIOUS
  <1>1. UNCHANGED <<workers, lock, restarts, mapped, proc, inbox, pipe, reader, ledger,
                    delivered, execs, answered, overlap>>
    BY DEF Connect, procVars, ghostVars
  <1> QED BY <1>1, RestStep, Names DEF Connect, IInv, TypeOK

LEMMA LeaveByExceptionStep == IInv /\ LeaveByException => IInv'
  <1> SUFFICES ASSUME IInv, LeaveByException PROVE IInv'
    OBVIOUS
  <1>1. UNCHANGED <<workers, lock, restarts, conn, mapped, proc, inbox, pipe, reader,
                    ledger, delivered, execs, answered, overlap>>
    BY DEF LeaveByException, procVars, ghostVars
  <1> QED BY <1>1, RestStep, Names DEF LeaveByException, IInv, TypeOK

LEMMA ReaperWakesStep == IInv /\ ReaperWakes => IInv'
  <1> SUFFICES ASSUME IInv, ReaperWakes PROVE IInv'
    OBVIOUS
  <1>1. UNCHANGED <<workers, lock, restarts, conn, mapped, proc, inbox, pipe, reader,
                    ledger, delivered, execs, answered, overlap>>
    BY DEF ReaperWakes, procVars, ghostVars
  <1> QED BY <1>1, RestStep, Names DEF ReaperWakes, IInv, TypeOK

\* No task moves.
LEMMA StillStep ==
    ASSUME IInv, TypeOK', UNCHANGED <<task, lock, workers, inbox, ledger, execs, overlap>>,
           \A q \in Process : /\ proc'[q].home = proc[q].home
                              /\ proc'[q].known = proc[q].known
                              /\ proc'[q].at = "live" <=> proc[q].at = "live"
    PROVE  IInv'
  <1>1. TaskInv'
    BY DEF IInv, TaskInv, TaskOK
  <1>2. \A q \in Process : q \in Draining' <=> q \in Draining
    BY DEF Draining
  <1> QED BY <1>1, <1>2, QuietStep

LEMMA SocketDropsStep == IInv /\ SocketDrops => IInv'
  <1> SUFFICES ASSUME IInv, SocketDrops PROVE IInv'
    OBVIOUS
  <1>1. UNCHANGED <<workers, lock, restarts, task, mapped, proc, inbox, pipe, reader,
                    ledger, delivered, execs, answered, overlap>>
    BY DEF SocketDrops, procVars, ghostVars
  <1>2. TypeOK'
    BY <1>1 DEF SocketDrops, IInv, TypeOK
  <1> QED BY <1>1, <1>2, StillStep

LEMMA StartAgesStep ==
    ASSUME IInv, NEW p \in Profile, StartAges(p)
    PROVE  IInv'
  <1>1. UNCHANGED <<workers, lock, task, conn, mapped, proc, inbox, pipe, reader,
                    ledger, delivered, execs, answered, overlap>>
    BY DEF StartAges, procVars, ghostVars
  <1>2. restarts' \in [Profile -> 0 .. MaxRestarts]
    BY SupervisorAssumption DEF StartAges, IInv, TypeOK
  <1>3. TypeOK'
    BY <1>1, <1>2 DEF IInv, TypeOK
  <1> QED BY <1>1, <1>3, StillStep

LEMMA IdleTimeoutStep ==
    ASSUME IInv, NEW q \in Process, IdleTimeout(q)
    PROVE  IInv'
  <1>1. UNCHANGED <<workers, lock, restarts, task, conn, mapped, inbox, pipe, reader,
                    ledger, delivered, execs, answered, overlap>>
    BY DEF IdleTimeout, bridgeVars, ghostVars
  <1>2. proc' = [proc EXCEPT ![q].idle = TRUE] /\ proc \in [Process -> ProcState]
    BY DEF IdleTimeout, IInv, TypeOK
  <1>3. proc' \in [Process -> ProcState]
    BY <1>2, SetIdle
  <1>4. TypeOK'
    BY <1>1, <1>3 DEF IInv, TypeOK
  <1>5. \A r \in Process : /\ proc'[r].home = proc[r].home
                           /\ proc'[r].known = proc[r].known
                           /\ proc'[r].at = proc[r].at
    BY <1>2, SetIdle
  <1> QED BY <1>1, <1>4, <1>5, StillStep

LEMMA DeliverStep ==
    ASSUME IInv, NEW q \in Process, Deliver(q)
    PROVE  IInv'
  <1>1. UNCHANGED <<workers, lock, task, restarts, conn, proc, inbox, reader,
                    ledger, delivered, execs, overlap>>
    BY DEF Deliver
  <1>2. pipe[q] \in Seq(Work) /\ pipe[q] # <<>>
    BY DEF Deliver, IInv, TypeOK
  <1>3. Head(pipe[q]) \in Work /\ Tail(pipe[q]) \in Seq(Work)
    BY <1>2, HeadTailProperties
  <1>4. TypeOK'
    BY <1>1, <1>3 DEF Deliver, IInv, TypeOK
  <1> QED BY <1>1, <1>4, StillStep

LEMMA ReaderFailsStep ==
    ASSUME IInv, NEW q \in Process, ReaderFails(q)
    PROVE  IInv'
  <1>1. UNCHANGED <<workers, lock, task, restarts, conn, mapped, proc, inbox,
                    ledger, delivered, execs, answered, overlap>>
    BY DEF ReaderFails, bridgeVars, ghostVars
  <1>2. pipe' \in [Process -> Seq(Work)]
    <2>1. CASE pipe[q] # <<>> /\ pipe' = [pipe EXCEPT ![q] = Tail(@)]
      <3>1. Tail(pipe[q]) \in Seq(Work)
        BY <2>1, HeadTailProperties DEF IInv, TypeOK
      <3> QED BY <2>1, <3>1 DEF IInv, TypeOK
    <2>2. CASE pipe' = pipe
      BY <2>2 DEF IInv, TypeOK
    <2> QED BY <2>1, <2>2 DEF ReaderFails
  <1>3. TypeOK'
    BY <1>1, <1>2 DEF ReaderFails, IInv, TypeOK
  <1> QED BY <1>1, <1>3, StillStep

--------------------------------------------------------------------------------
(* The steps of a process.                                                 *)

LEMMA PipeType ==
    ASSUME TypeOK, NEW q \in Process, NEW w \in Work,
           pipe' = [pipe EXCEPT ![q] = Append(@, w)]
    PROVE  pipe' \in [Process -> Seq(Work)]
  <1>1. Append(pipe[q], w) \in Seq(Work)
    BY AppendProperties DEF TypeOK
  <1> QED BY <1>1 DEF TypeOK

LEMMA RunEndsStep ==
    ASSUME IInv, NEW q \in Process, RunEnds(q)
    PROVE  IInv'
  <1>1. PICK d \in proc[q].running :
               /\ proc' = [proc EXCEPT ![q].running = @ \ {d}]
               /\ pipe' = [pipe EXCEPT ![q] = Append(@, d)]
    BY DEF RunEnds
  <1> DEFINE D == proc[q].running \ {d}
  <1>2. proc[q].running \subseteq Dispatch /\ proc \in [Process -> ProcState]
    BY DEF IInv, TypeOK, ProcState
  <1>3. proc' = [proc EXCEPT ![q].running = D] /\ D \in SUBSET Dispatch
    BY <1>1, <1>2
  <1> HIDE DEF D
  <1>4. UNCHANGED <<workers, lock, task, restarts, conn, mapped, inbox, reader,
                    ledger, delivered, execs, answered, overlap>>
    BY DEF RunEnds, bridgeVars, ghostVars
  <1>5. pipe' \in [Process -> Seq(Work)]
    <2>1. d \in Work
      BY <1>2, Names
    <2> QED BY <1>1, <2>1, PipeType DEF IInv
  <1>6. /\ proc' \in [Process -> ProcState]
        /\ \A r \in Process : /\ proc'[r].home = proc[r].home
                              /\ proc'[r].known = proc[r].known
                              /\ proc'[r].at = proc[r].at
    BY <1>2, <1>3, SetRunning
  <1>7. TypeOK'
    BY <1>4, <1>5, <1>6 DEF IInv, TypeOK
  <1> QED BY <1>4, <1>6, <1>7, StillStep

LEMMA JobEndsStep ==
    ASSUME IInv, NEW q \in Process, JobEnds(q)
    PROVE  IInv'
  <1>1. proc[q].job \in Job /\ proc \in [Process -> ProcState]
    BY DEF JobEnds, IInv, TypeOK, ProcState
  <1>2. UNCHANGED <<workers, lock, task, restarts, conn, mapped, inbox, reader,
                    ledger, delivered, execs, answered, overlap>>
    BY DEF JobEnds, bridgeVars, ghostVars
  <1>3. proc' = [proc EXCEPT ![q].job = NoWork]
    BY DEF JobEnds
  <1>4. pipe' \in [Process -> Seq(Work)]
    <2>1. proc[q].job \in Work /\ pipe' = [pipe EXCEPT ![q] = Append(@, proc[q].job)]
      BY <1>1, Names DEF JobEnds
    <2> QED BY <2>1, PipeType DEF IInv
  <1>5. /\ proc' \in [Process -> ProcState]
        /\ \A r \in Process : /\ proc'[r].home = proc[r].home
                              /\ proc'[r].known = proc[r].known
                              /\ proc'[r].at = proc[r].at
    <2> DEFINE j == NoWork
    <2>1. proc' = [proc EXCEPT ![q].job = j] /\ j \in Job \cup {NoWork}
      BY <1>3
    <2> HIDE DEF j
    <2> QED BY <1>1, <2>1, SetJob
  <1>6. TypeOK'
    BY <1>2, <1>4, <1>5 DEF IInv, TypeOK
  <1> QED BY <1>2, <1>5, <1>6, StillStep

\* The command a process reads.
LEMMA HeadMail ==
    ASSUME IInv, NEW q \in Process, NEW k, Reads(q, k)
    PROVE  /\ inbox[q] # <<>> /\ Live(q) /\ Head(inbox[q]) \in Command
           /\ Head(inbox[q]).type = k
           /\ k = "work" => /\ Head(inbox[q]).work \in Work
                            /\ ProfileOf[Head(inbox[q]).work] = proc[q].home
           /\ k # "initialize" => ~AwaitsInitialize(q)
  <1>1. inbox[q] # <<>> /\ Live(q) /\ inbox[q] \in Seq(Command) /\ Head(inbox[q]).type = k
    BY DEF Reads, IInv, TypeOK
  <1>2. Head(inbox[q]) \in Command /\ 1 \in DOMAIN inbox[q] /\ Head(inbox[q]) = inbox[q][1]
    BY <1>1, Dropped
  <1> QED BY <1>1, <1>2 DEF IInv, MailInv, Mail, AwaitsInitialize

\* What other processes know stays as it is.
LEMMA KnownPop ==
    ASSUME IInv, NEW q \in Process, inbox[q] # <<>>, Pop(q),
           UNCHANGED <<ledger, overlap>>,
           \A r \in Process : /\ proc'[r].home = proc[r].home /\ proc'[r].at = proc[r].at
                              /\ r # q => proc'[r].known = proc[r].known,
           proc'[q].known = proc[q].known \/ proc'[q].known = ledger[proc[q].home],
           ~AwaitsInitialize(q) \/ proc'[q].known = ledger[proc[q].home]
    PROVE  KnownInv'
  <1> SUFFICES ASSUME NEW r \in Process, Live(r)', proc'[r].home \notin overlap'
               PROVE  AwaitsInitialize(r)' \/ proc'[r].known = ledger'[proc'[r].home]
    BY DEF KnownInv
  <1>1. Live(r) /\ proc[r].home \notin overlap
    BY DEF Live
  <1>2. AwaitsInitialize(r) \/ proc[r].known = ledger[proc[r].home]
    BY <1>1 DEF IInv, OnceInv, KnownInv
  <1>3. CASE r = q
    BY <1>2, <1>3
  <1>4. CASE r # q
    <2>1. inbox'[r] = inbox[r]
      BY <1>4, Popped DEF IInv
    <2> QED BY <1>2, <1>4, <2>1 DEF AwaitsInitialize
  <1> QED BY <1>3, <1>4

LEMMA ReadInitializeStep ==
    ASSUME IInv, NEW q \in Process, ReadInitialize(q)
    PROVE  IInv'
  <1> DEFINE D == ledger[proc[q].home]
  <1>1. /\ Reads(q, "initialize") /\ Pop(q) /\ proc' = [proc EXCEPT ![q].known = D]
        /\ UNCHANGED <<workers, lock, task, restarts, conn, mapped, pipe, reader,
                       ledger, delivered, execs, answered, overlap>>
    BY DEF ReadInitialize, bridgeVars, ghostVars
  <1>2. proc[q].home \in Profile /\ D \in SUBSET Dispatch /\ proc \in [Process -> ProcState]
    BY DEF IInv, TypeOK, ProcState
  <1>3. inbox[q] # <<>> /\ Live(q)
    BY <1>1, HeadMail
  <1> HIDE DEF D
  <1>4. proc' \in [Process -> ProcState] /\ inbox' \in [Process -> Seq(Command)]
    BY <1>1, <1>2, <1>3, SetKnown, Popped DEF IInv
  <1>5. TypeOK'
    BY <1>1, <1>4 DEF IInv, TypeOK
  <1>6. \A r \in Process : /\ proc'[r].home = proc[r].home /\ proc'[r].at = proc[r].at
                           /\ proc'[r].known = IF r = q THEN D ELSE proc[r].known
    BY <1>1, <1>2, SetKnown
  <1>7. KnownInv'
    BY <1>1, <1>3, <1>6, KnownPop DEF D
  <1>8. ExecInv'
    BY <1>1 DEF IInv, OnceInv, ExecInv
  <1> QED BY <1>1, <1>3, <1>5, <1>6, <1>7, <1>8, PopStep

LEMMA ReadJobStep ==
    ASSUME IInv, NEW q \in Process, ReadJob(q)
    PROVE  IInv'
  <1> DEFINE j == Head(inbox[q]).work
  <1>1. /\ Reads(q, "work") /\ Pop(q) /\ proc' = [proc EXCEPT ![q].job = j] /\ j \in Job
        /\ UNCHANGED <<workers, lock, task, restarts, conn, mapped, pipe, reader,
                       ledger, delivered, execs, answered, overlap>>
    BY DEF ReadJob, bridgeVars, ghostVars
  <1>2. inbox[q] # <<>> /\ Live(q) /\ ~AwaitsInitialize(q)
    BY <1>1, HeadMail
  <1> HIDE DEF j
  <1>3. proc' \in [Process -> ProcState] /\ inbox' \in [Process -> Seq(Command)]
    BY <1>1, <1>2, SetJob, Popped DEF IInv, TypeOK
  <1>4. TypeOK'
    BY <1>1, <1>3 DEF IInv, TypeOK
  <1>5. \A r \in Process : /\ proc'[r].home = proc[r].home /\ proc'[r].at = proc[r].at
                           /\ proc'[r].known = proc[r].known
    BY <1>1, SetJob DEF IInv, TypeOK
  <1>6. KnownInv'
    BY <1>1, <1>2, <1>5, KnownPop
  <1>7. ExecInv'
    BY <1>1 DEF IInv, OnceInv, ExecInv
  <1> QED BY <1>1, <1>2, <1>4, <1>5, <1>6, <1>7, PopStep

LEMMA ReadCancelStep ==
    ASSUME IInv, NEW q \in Process, ReadCancel(q)
    PROVE  IInv'
  <1> DEFINE d == Head(inbox[q]).work
             D == proc[q].running \ {d}
  <1>1. /\ Reads(q, "cancel") /\ Pop(q)
        /\ UNCHANGED <<workers, lock, task, restarts, conn, mapped, reader,
                       ledger, delivered, execs, answered, overlap>>
    BY DEF ReadCancel, bridgeVars, ghostVars
  <1>2. inbox[q] # <<>> /\ Live(q) /\ ~AwaitsInitialize(q)
    BY <1>1, HeadMail
  <1>3. \/ UNCHANGED <<proc, pipe>>
        \/ /\ d \in proc[q].running
           /\ proc' = [proc EXCEPT ![q].running = D]
           /\ pipe' = [pipe EXCEPT ![q] = Append(@, d)]
    BY DEF ReadCancel
  <1>4. proc \in [Process -> ProcState] /\ D \in SUBSET Dispatch
        /\ (d \in proc[q].running => d \in Work)
    BY Names DEF IInv, TypeOK, ProcState
  <1> HIDE DEF d, D
  <1>5. proc' \in [Process -> ProcState] /\ pipe' \in [Process -> Seq(Work)]
    <2>1. CASE UNCHANGED <<proc, pipe>>
      BY <2>1 DEF IInv, TypeOK
    <2>2. CASE d \in proc[q].running /\ proc' = [proc EXCEPT ![q].running = D]
               /\ pipe' = [pipe EXCEPT ![q] = Append(@, d)]
      BY <1>4, <2>2, SetRunning, PipeType DEF IInv
    <2> QED BY <1>3, <2>1, <2>2
  <1>6. inbox' \in [Process -> Seq(Command)]
    BY <1>1, <1>2, Popped DEF IInv
  <1>7. TypeOK'
    BY <1>1, <1>5, <1>6 DEF IInv, TypeOK
  <1>8. \A r \in Process : /\ proc'[r].home = proc[r].home /\ proc'[r].at = proc[r].at
                           /\ proc'[r].known = proc[r].known
    <2>1. CASE UNCHANGED <<proc, pipe>>
      BY <2>1
    <2>2. CASE proc' = [proc EXCEPT ![q].running = D]
      BY <1>4, <2>2, SetRunning
    <2> QED BY <1>3, <2>1, <2>2
  <1>9. KnownInv'
    BY <1>1, <1>2, <1>8, KnownPop
  <1>10. ExecInv'
    BY <1>1 DEF IInv, OnceInv, ExecInv
  <1> QED BY <1>1, <1>2, <1>7, <1>8, <1>9, <1>10, PopStep

\* A dispatch that this process knows is not executed again.  If it does not know
\* it, and is alone in its home, nobody has executed it.
LEMMA ReadDispatchStep ==
    ASSUME IInv, NEW q \in Process, ReadDispatch(q)
    PROVE  IInv'
  <1> DEFINE d == Head(inbox[q]).work
             h == proc[q].home
             D == proc[q].known \cup {d}
  <1>1. /\ Reads(q, "work") /\ Pop(q) /\ d \in Dispatch
        /\ UNCHANGED <<workers, lock, task, restarts, conn, mapped, pipe, reader,
                       delivered, answered, overlap>>
        /\ \/ UNCHANGED <<proc, ledger, execs>>
           \/ /\ d \notin proc[q].known
              /\ proc' = [proc EXCEPT ![q].known = D,
                                      ![q].running = proc[q].running \cup {d}]
              /\ ledger' = [ledger EXCEPT ![h] = D]
              /\ execs' = [execs EXCEPT ![d] = @ + 1]
    BY DEF ReadDispatch, bridgeVars
  <1>2. inbox[q] # <<>> /\ Live(q) /\ ~AwaitsInitialize(q) /\ ProfileOf[d] = h
    BY <1>1, HeadMail
  <1>3. /\ proc \in [Process -> ProcState] /\ h \in Profile
        /\ proc[q].known \in SUBSET Dispatch /\ proc[q].running \in SUBSET Dispatch
    BY DEF IInv, TypeOK, ProcState
  <1>4. inbox' \in [Process -> Seq(Command)]
    BY <1>1, <1>2, Popped DEF IInv
  <1>5. CASE UNCHANGED <<proc, ledger, execs>>
    <2>1. TypeOK'
      BY <1>1, <1>4, <1>5 DEF IInv, TypeOK
    <2>2. KnownInv'
      BY <1>1, <1>2, <1>5, KnownPop
    <2>3. ExecInv'
      BY <1>1, <1>5 DEF IInv, OnceInv, ExecInv
    <2> QED BY <1>1, <1>2, <1>5, <2>1, <2>2, <2>3, PopStep
  <1>6. CASE /\ d \notin proc[q].known
             /\ proc' = [proc EXCEPT ![q].known = D,
                                     ![q].running = proc[q].running \cup {d}]
             /\ ledger' = [ledger EXCEPT ![h] = D]
             /\ execs' = [execs EXCEPT ![d] = @ + 1]
    <2> DEFINE P == [proc EXCEPT ![q].known = D]
               R == proc[q].running \cup {d}
    <2>1. D \in SUBSET Dispatch /\ R \in SUBSET Dispatch
      BY <1>1, <1>3
    <2>2. proc' = [P EXCEPT ![q].running = R]
      BY <1>6
    <2> HIDE DEF D, R
    <2>3. P \in [Process -> ProcState]
      BY <1>3, <2>1, SetKnown
    <2>4. \A r \in Process : /\ P[r].home = proc[r].home /\ P[r].at = proc[r].at
                             /\ P[r].known = IF r = q THEN D ELSE proc[r].known
      BY <1>3, <2>1, SetKnown
    <2> HIDE DEF P
    <2>5. /\ proc' \in [Process -> ProcState]
          /\ \A r \in Process : /\ proc'[r].home = P[r].home /\ proc'[r].at = P[r].at
                                /\ proc'[r].known = P[r].known
      BY <2>1, <2>2, <2>3, SetRunning
    <2>6. \A r \in Process : /\ proc'[r].home = proc[r].home /\ proc'[r].at = proc[r].at
                             /\ proc'[r].known = IF r = q THEN D ELSE proc[r].known
      BY <2>4, <2>5
    <2>7. ledger' \in [Profile -> SUBSET Dispatch] /\ execs' \in [Dispatch -> Nat]
      BY <1>1, <1>3, <1>6, <2>1 DEF IInv, TypeOK
    <2>8. TypeOK'
      BY <1>1, <1>4, <2>5, <2>7 DEF IInv, TypeOK
    <2>9. KnownInv'
      <3> SUFFICES ASSUME NEW r \in Process, Live(r)', proc'[r].home \notin overlap'
                   PROVE  AwaitsInitialize(r)' \/ proc'[r].known = ledger'[proc'[r].home]
        BY DEF KnownInv
      <3>1. Live(r) /\ proc[r].home \notin overlap /\ proc'[r].home = proc[r].home
            /\ proc[r].home \in Profile
        BY <1>1, <2>6 DEF Live, IInv, TypeOK, ProcState
      <3>2. CASE r = q
        BY <1>3, <1>6, <2>6, <3>1, <3>2 DEF IInv, TypeOK
      <3>3. CASE r # q
        <4>1. proc[r].home # h
          BY <1>2, <3>1, <3>3 DEF IInv, OnceInv, ShareInv
        <4>2. inbox'[r] = inbox[r] /\ proc'[r].known = proc[r].known
              /\ ledger'[proc[r].home] = ledger[proc[r].home]
          BY <1>1, <1>2, <1>6, <2>6, <3>1, <3>3, <4>1, Popped DEF IInv, TypeOK
        <4>3. AwaitsInitialize(r) \/ proc[r].known = ledger[proc[r].home]
          BY <3>1 DEF IInv, OnceInv, KnownInv
        <4> QED BY <3>1, <4>2, <4>3 DEF AwaitsInitialize
      <3> QED BY <3>2, <3>3
    <2>10. ExecInv'
      <3> SUFFICES ASSUME NEW e \in Dispatch, ProfileOf[e] \notin overlap'
                   PROVE  execs'[e] <= 1 /\ (execs'[e] # 0 => e \in ledger'[ProfileOf[e]])
        BY DEF ExecInv
      <3>1. /\ ProfileOf[e] \notin overlap /\ ProfileOf[e] \in Profile
            /\ execs[e] <= 1 /\ (execs[e] # 0 => e \in ledger[ProfileOf[e]])
        BY <1>1, Names DEF IInv, OnceInv, ExecInv
      <3>2. CASE ProfileOf[e] = h
        <4>1. proc[q].known = ledger[h]
          BY <1>2, <3>1, <3>2 DEF IInv, OnceInv, KnownInv
        <4>2. ledger'[h] = ledger[h] \cup {d}
          BY <1>3, <1>6, <4>1 DEF IInv, TypeOK, D
        <4>3. CASE e = d
          <5>1. execs[e] = 0
            BY <1>6, <3>1, <3>2, <4>1, <4>3
          <5>2. execs'[e] = 1
            BY <1>1, <1>6, <4>3, <5>1 DEF IInv, TypeOK
          <5> QED BY <3>2, <4>2, <4>3, <5>2
        <4>4. CASE e # d
          BY <1>6, <3>1, <3>2, <4>2, <4>4 DEF IInv, TypeOK
        <4> QED BY <4>3, <4>4
      <3>3. CASE ProfileOf[e] # h
        <4>1. e # d
          BY <1>2, <3>3
        <4>2. execs'[e] = execs[e] /\ ledger'[ProfileOf[e]] = ledger[ProfileOf[e]]
          BY <1>6, <3>1, <3>3, <4>1 DEF IInv, TypeOK
        <4> QED BY <3>1, <4>2
      <3> QED BY <3>2, <3>3
    <2> HIDE DEF d, h
    <2> QED BY <1>1, <1>2, <2>6, <2>8, <2>9, <2>10, PopStep
  <1> QED BY <1>1, <1>5, <1>6

\* A process is given up, or ends.
LEMMA EndsStep ==
    ASSUME IInv, NEW q \in Process, Ends(q),
           UNCHANGED <<bridgeVars, pipe, reader, ledger, ghostVars>>
    PROVE  IInv'
  <1> DEFINE v == Ended("ended", proc[q].epoch, proc[q].home, proc[q].idle)
  <1>1. proc' = [proc EXCEPT ![q] = v] /\ inbox' = [inbox EXCEPT ![q] = <<>>]
    BY DEF Ends
  <1>2. UNCHANGED <<workers, lock, task, restarts, conn, mapped, pipe, reader, ledger,
                    delivered, execs, answered, overlap>>
    BY DEF bridgeVars, ghostVars
  <1>3. v \in ProcState /\ v.at = "ended" /\ v.home = proc[q].home
    <2>1. /\ proc[q].epoch \in {EpochOf[w] : w \in Work} \cup {NoEpoch}
          /\ proc[q].home \in Profile /\ proc[q].idle \in BOOLEAN
      BY DEF IInv, TypeOK, ProcState
    <2> QED BY <2>1, ProcTypes, ProcFields
  <1> HIDE DEF v
  <1>4. proc' \in [Process -> ProcState] /\ inbox' \in [Process -> Seq(Command)]
    BY <1>1, <1>3, EmptyInbox DEF IInv, TypeOK
  <1>5. TypeOK'
    BY <1>2, <1>4 DEF IInv, TypeOK
  <1>6. /\ \A r \in Process : /\ proc'[r].home = proc[r].home
                              /\ r # q => proc'[r] = proc[r]
        /\ proc'[q].at # "live"
    BY <1>1, <1>3 DEF IInv, TypeOK
  <1> QED BY <1>1, <1>2, <1>5, <1>6, EndStep

LEMMA NoticeStep ==
    ASSUME IInv, NEW q \in Process, Notice(q)
    PROVE  IInv'
  <1> DEFINE v == Ended("gone", proc[q].epoch, proc[q].home, proc[q].idle)
  <1>1. proc' = [proc EXCEPT ![q] = v] /\ proc[q].at = "ended"
    BY DEF Notice
  <1>2. UNCHANGED <<workers, lock, task, restarts, conn, mapped, inbox, pipe, reader,
                    ledger, delivered, execs, answered, overlap>>
    BY DEF Notice, bridgeVars, ghostVars
  <1>3. v \in ProcState /\ v.at = "gone" /\ v.home = proc[q].home
    <2>1. /\ proc[q].epoch \in {EpochOf[w] : w \in Work} \cup {NoEpoch}
          /\ proc[q].home \in Profile /\ proc[q].idle \in BOOLEAN
      BY DEF IInv, TypeOK, ProcState
    <2> QED BY <2>1, ProcTypes, ProcFields
  <1> HIDE DEF v
  <1>4. proc' \in [Process -> ProcState]
    BY <1>1, <1>3 DEF IInv, TypeOK
  <1>5. TypeOK'
    BY <1>2, <1>4 DEF IInv, TypeOK
  <1>6. /\ \A r \in Process : /\ proc'[r].home = proc[r].home
                              /\ r # q => proc'[r] = proc[r]
        /\ proc'[q].at # "live"
    BY <1>1, <1>3 DEF IInv, TypeOK
  <1>7. inbox' = [inbox EXCEPT ![q] = <<>>]
    <2>1. inbox[q] = <<>>
      BY <1>1 DEF IInv, MailInv, Mail, Live
    <2> QED BY <1>2, <2>1 DEF IInv, TypeOK
  <1> QED BY <1>2, <1>5, <1>6, <1>7, EndStep

--------------------------------------------------------------------------------
(* The steps that write a command.                                         *)

\* A command is written to q while tasks move.
LEMMA WriteStep ==
    ASSUME IInv, TypeOK', TaskInv', UNCHANGED <<workers, ledger, execs, overlap>>,
           NEW q \in Process, NEW c \in Command, Write(q, c),
           \A r \in Process : /\ proc'[r].home = proc[r].home
                              /\ proc'[r].known = proc[r].known
                              /\ proc'[r].at = proc[r].at,
           \A r \in Process : r \in Draining' <=> r \in Draining,
           task["loop"].at = "closing" => task'["loop"].at = "closing",
           c.type = "work" => c.work \in Work /\ ProfileOf[c.work] = proc[q].home,
           c.type = "work" /\ c.work \notin Job => ~Told(q),
           c.type = "shutdown" => \E t \in Task : task'[t].process = q,
           \A t \in Task :
              /\ task'[t].at = "start" => task'[t] = task[t]
              /\ task'[t].at = "stop" =>
                   \/ task'[t] = task[t]
                   \/ /\ task'[t].process # NoProcess
                      /\ workers[ProfileOf[task'[t].work]] = task'[t].process
              /\ task'[t].process = task[t].process \/ task[t].process \notin Process
    PROVE  IInv'
  <1>1. RegInv' /\ BoundInv'
    BY RegKeep DEF IInv
  <1>2. /\ \A r \in Process : r # q \/ ~Live(q) => inbox'[r] = inbox[r]
        /\ Live(q) => inbox'[q] = Append(inbox[q], c)
        /\ inbox[q] \in Seq(Command)
    BY Written DEF IInv, TypeOK
  <1>3. \A r \in Process : /\ Mail(r)' /\ InOrder(r)'
                           /\ Told(r)' => Told(r) \/ (r = q /\ c.type = "shutdown")
                           /\ AwaitsInitialize(r) => AwaitsInitialize(r)'
    <2> TAKE r \in Process
    <2>1. CASE r = q /\ Live(q)
      BY <1>2, <2>1, MailAppend DEF IInv, MailInv, OrderInv
    <2>2. CASE r # q \/ ~Live(q)
      BY <1>2, <2>2, MailKeep DEF IInv, MailInv, OrderInv
    <2> QED BY <2>1, <2>2
  <1>4. ShutInv'
    BY <1>3, ShutKeep DEF IInv
  <1>5. OnceInv'
    BY <1>3, OnceKeep DEF IInv
  <1> QED BY <1>1, <1>3, <1>4, <1>5 DEF IInv, MailInv, OrderInv

LEMMA CancelStep ==
    ASSUME IInv, NEW d \in Dispatch, Cancel(d)
    PROVE  IInv'
  <1> DEFINE q == workers[ProfileOf[d]]
             c == Cmd("cancel", d)
  <1>1. /\ task["loop"].at = "idle" /\ q # NoProcess /\ Write(q, c)
        /\ proc' = [proc EXCEPT ![q].idle = FALSE]
        /\ UNCHANGED <<workers, lock, task, restarts, conn, mapped, pipe, reader, ledger,
                       delivered, execs, answered, overlap>>
    BY DEF Cancel, bridgeVars, ghostVars
  <1>2. q \in Process /\ c \in Command /\ c.type = "cancel"
        /\ proc \in [Process -> ProcState]
    BY <1>1, Names DEF IInv, TypeOK, Command, Cmd
  <1> HIDE DEF q, c
  <1>3. /\ proc' \in [Process -> ProcState]
        /\ \A r \in Process : /\ proc'[r].home = proc[r].home
                              /\ proc'[r].known = proc[r].known
                              /\ proc'[r].at = proc[r].at
    BY <1>1, <1>2, SetIdle
  <1>4. inbox' \in [Process -> Seq(Command)]
    BY <1>1, <1>2, Written DEF IInv
  <1>5. TypeOK'
    BY <1>1, <1>3, <1>4 DEF IInv, TypeOK
  <1>6. TaskInv' /\ \A r \in Process : r \in Draining' <=> r \in Draining
    BY <1>1 DEF IInv, TaskInv, TaskOK, Draining
  <1> QED BY <1>1, <1>2, <1>3, <1>5, <1>6, WriteStep

\* Work is handed over.
LEMMA HandedTask ==
    ASSUME TypeOK, TaskInv, NEW t \in Hands, Handed(t),
           task[t].at \in {"lock", "start"}
    PROVE  /\ task' \in [Task -> TaskState] /\ mapped' \subseteq Dispatch
           /\ task'[t].at = "idle" /\ task'[t].process = NoProcess
           /\ task'[t].work = NoWork /\ task'[t].todo = {}
           /\ \A s \in Task \ {t} : task'[s] = task[s]
           /\ \A q \in Process : q \in Draining' <=> q \in Draining
  <1> DEFINE u == Resting("idle")
  <1>1. u \in TaskState /\ u.at = "idle" /\ u.process = NoProcess /\ u.work = NoWork
        /\ u.todo = {}
    BY RestingType, RestingFields
  <1>2. task' = [task EXCEPT ![t] = u] /\ mapped' = mapped \cup ({task[t].work} \cap Dispatch)
    BY DEF Handed
  <1> HIDE DEF u
  <1>3. /\ task' \in [Task -> TaskState] /\ task'[t] = u
        /\ \A s \in Task \ {t} : task'[s] = task[s]
    BY <1>1, <1>2, SetTask, Names
  <1>4. mapped' \subseteq Dispatch
    BY <1>2 DEF TypeOK
  <1>5. \A q \in Process : q \in Draining' <=> q \in Draining
    BY <1>1, <1>3, DrainKeep, Names
  <1> QED BY <1>1, <1>3, <1>4, <1>5

\* A task refuses its work.
LEMMA RefusedTask ==
    ASSUME TypeOK, TaskInv, NEW t \in Hands, Refuse(t),
           task[t].at \in {"lock", "stop", "start"}
    PROVE  /\ task' \in [Task -> TaskState]
           /\ mapped' \subseteq Dispatch /\ answered' \subseteq Work
           /\ task'[t].at = "idle" /\ task'[t].process = NoProcess
           /\ task'[t].work = NoWork /\ task'[t].todo = {}
           /\ \A s \in Task \ {t} : task'[s] = task[s]
           /\ \A q \in Process : q \in Draining' <=> q \in Draining
  <1> DEFINE u == Resting("idle")
  <1>1. u \in TaskState /\ u.at = "idle" /\ u.process = NoProcess /\ u.work = NoWork
        /\ u.todo = {}
    BY RestingType, RestingFields
  <1>2. /\ task' = [task EXCEPT ![t] = u]
        /\ mapped' = mapped \ {task[t].work} /\ answered' = answered \cup {task[t].work}
    BY DEF Refuse
  <1> HIDE DEF u
  <1>3. /\ task' \in [Task -> TaskState] /\ task'[t] = u
        /\ \A s \in Task \ {t} : task'[s] = task[s]
    BY <1>1, <1>2, SetTask, Names
  <1>4. mapped' \subseteq Dispatch /\ answered' \subseteq Work
    BY <1>2, Names DEF TypeOK, TaskInv, TaskOK
  <1>5. \A q \in Process : q \in Draining' <=> q \in Draining
    BY <1>1, <1>3, DrainKeep, Names
  <1> QED BY <1>1, <1>3, <1>4, <1>5

\* A task has come to rest, and has given the lock back if it held it.
LEMMA RestedTasks ==
    ASSUME TypeOK, TaskInv, NEW t \in Hands,
           task'[t].at = "idle", task'[t].process = NoProcess,
           task'[t].work = NoWork, task'[t].todo = {},
           \A s \in Task \ {t} : task'[s] = task[s],
           \/ task[t].at = "lock" /\ lock' = lock
           \/ task[t].at \in {"stop", "start"} /\ lock' = "none"
    PROVE  TaskInv'
  <1> SUFFICES ASSUME NEW s \in Task PROVE TaskOK(s)'
    BY DEF TaskInv
  <1>1. CASE s = t
    BY <1>1, Names DEF TaskInv, TaskOK
  <1>2. CASE s # t
    BY <1>2, Names DEF TaskInv, TaskOK
  <1> QED BY <1>1, <1>2

\* With the registry lock free nobody replaces or reaps a process.
LEMMA LockFree ==
    ASSUME IInv, lock = "none"
    PROVE  /\ \A t \in Task : task[t].at \notin {"stop", "start", "reap"}
           /\ \A t \in Task : task[t].process \in Process => t = "loop" /\ task[t].at = "drain"
  BY Names DEF IInv, TaskInv, TaskOK

LEMMA UseWorkerStep ==
    ASSUME IInv, NEW t \in Hands, UseWorker(t)
    PROVE  IInv'
  <1> DEFINE w == task[t].work
             q == workers[ProfileOf[w]]
             c == Cmd("work", w)
  <1>1. /\ task[t].at = "lock" /\ lock = "none" /\ w # NoWork /\ q # NoProcess
        /\ proc' = [proc EXCEPT ![q].idle = FALSE]
        /\ UNCHANGED <<workers, lock, restarts, conn, pipe, reader, ledger,
                       delivered, execs, overlap>>
        /\ \/ Handed(t) /\ Write(q, c) /\ answered' = answered
           \/ Refuse(t) /\ inbox' = inbox
    BY DEF UseWorker, Usable
  <1>2. /\ t \in Task /\ t # "reaper" /\ w \in Work 
        /\ w \notin Job => t = "loop"
    BY <1>1, Names DEF IInv, TaskInv, TaskOK, Hands
  <1>3. q \in Process /\ proc[q].home = ProfileOf[w] /\ proc \in [Process -> ProcState]
    BY <1>1, <1>2, Names DEF IInv, TypeOK, RegInv, HomeInv, StopInv
  <1>4. c \in Command /\ c.type = "work" /\ c.work = w
    BY <1>2 DEF Command, Cmd
  <1> HIDE DEF w, q, c
  <1>5. /\ proc' \in [Process -> ProcState]
        /\ \A r \in Process : /\ proc'[r].home = proc[r].home
                              /\ proc'[r].known = proc[r].known
                              /\ proc'[r].at = proc[r].at
    BY <1>1, <1>3, SetIdle
  <1>6. CASE Handed(t) /\ Write(q, c) /\ answered' = answered
    <2>1. /\ task' \in [Task -> TaskState] /\ mapped' \subseteq Dispatch
          /\ task'[t].at = "idle" /\ task'[t].process = NoProcess
          /\ task'[t].work = NoWork /\ task'[t].todo = {}
          /\ \A s \in Task \ {t} : task'[s] = task[s]
          /\ \A r \in Process : r \in Draining' <=> r \in Draining
      BY <1>1, <1>6, HandedTask DEF IInv
    <2>2. inbox' \in [Process -> Seq(Command)]
      BY <1>3, <1>4, <1>6, Written DEF IInv
    <2>3. TypeOK'
      BY <1>1, <1>5, <1>6, <2>1, <2>2 DEF IInv, TypeOK
    <2>4. TaskInv'
      BY <1>1, <2>1, RestedTasks DEF IInv
    <2>5. task["loop"].at = "closing" => task'["loop"].at = "closing"
      BY <1>1, <2>1, Names
    <2>6. w \notin Job => ~Told(q)
      <3> SUFFICES ASSUME w \notin Job PROVE ~Told(q)
        OBVIOUS
      <3>1. task["loop"].at = "lock" /\ Draining = {}
        BY <1>1, <1>2 DEF Draining
      <3>2. \A s \in Task : task[s].process # q
        BY <1>1, <1>3, <3>1, LockFree
      <3> QED BY <1>3, <3>1, <3>2 DEF IInv, ShutInv
    <2>7. \A s \in Task : task'[s].process = task[s].process \/ task[s].process \notin Process
      BY <1>1, <1>2, <2>1, LockFree, Names
    <2> QED
      BY <1>1, <1>2, <1>3, <1>4, <1>5, <1>6, <2>1, <2>3, <2>4, <2>5, <2>6, <2>7, WriteStep
  <1>7. CASE Refuse(t) /\ inbox' = inbox
    <2>1. /\ task' \in [Task -> TaskState]
          /\ mapped' \subseteq Dispatch /\ answered' \subseteq Work
          /\ task'[t].at = "idle" /\ task'[t].process = NoProcess
          /\ task'[t].work = NoWork /\ task'[t].todo = {}
          /\ \A s \in Task \ {t} : task'[s] = task[s]
      BY <1>1, <1>7, RefusedTask DEF IInv
    <2>2. TypeOK'
      BY <1>1, <1>5, <1>7, <2>1 DEF IInv, TypeOK
    <2> QED BY <1>1, <1>2, <1>5, <1>7, <2>1, <2>2, QuietMove
  <1> QED BY <1>1, <1>6, <1>7

\* One task moves; it may take the registry lock or give it back.
LEMMA OneTask ==
    ASSUME TypeOK, TaskInv, NEW t \in Task, TaskOK(t)',
           \A s \in Task \ {t} : task'[s] = task[s],
           \/ lock' = lock
           \/ lock = "none" /\ lock' = t
           \/ lock = t /\ lock' = "none"
    PROVE  TaskInv'
  <1> SUFFICES ASSUME NEW s \in Task PROVE TaskOK(s)'
    BY DEF TaskInv
  <1>1. CASE s = t
    BY <1>1
  <1>2. CASE s # t
    BY <1>2, Names DEF TaskInv, TaskOK
  <1> QED BY <1>1, <1>2

LEMMA ReplaceWorkerStep ==
    ASSUME IInv, NEW t \in Hands, ReplaceWorker(t)
    PROVE  IInv'
  <1> DEFINE w == task[t].work
             q == workers[ProfileOf[w]]
             c == Cmd("shutdown", NoWork)
             u == Handing("stop", w, q)
  <1>1. /\ task[t].at = "lock" /\ lock = "none" /\ q # NoProcess
        /\ lock' = t /\ task' = [task EXCEPT ![t] = u] /\ Write(q, c)
        /\ UNCHANGED <<workers, restarts, conn, mapped, proc, pipe, reader, ledger,
                       delivered, execs, answered, overlap>>
    BY DEF ReplaceWorker, ghostVars
  <1>2. /\ t \in Task /\ t # "reaper" /\ w \in Work
        /\ t = "loop" => w \in Dispatch \cup {NoWork}
        /\ t \in Job => w \in Job \cup {NoWork}
    BY <1>1, Names DEF IInv, TaskInv, TaskOK
  <1>3. q \in Process
    BY <1>1, <1>2, Names DEF IInv, TypeOK
  <1>4. c \in Command /\ c.type = "shutdown"
    BY DEF Command, Cmd
  <1>5. /\ u \in TaskState /\ u.at = "stop" /\ u.work = w /\ u.process = q /\ u.todo = {}
        /\ workers[ProfileOf[u.work]] = u.process
    BY <1>2, <1>3, HandingType, HandingFields
  <1> HIDE DEF w, q, c, u
  <1>6. /\ task' \in [Task -> TaskState] /\ task'[t] = u
        /\ \A s \in Task \ {t} : task'[s] = task[s]
    BY <1>1, <1>2, <1>5, SetTask DEF IInv
  <1>7. inbox' \in [Process -> Seq(Command)]
    BY <1>1, <1>3, <1>4, Written DEF IInv
  <1>8. TypeOK'
    BY <1>1, <1>2, <1>6, <1>7 DEF IInv, TypeOK
  <1>9. TaskInv'
    <2>1. TaskOK(t)'
      BY <1>1, <1>2, <1>5, <1>6 DEF TaskOK
    <2> QED BY <1>1, <1>2, <1>6, <2>1, OneTask DEF IInv
  <1>10. \A r \in Process : r \in Draining' <=> r \in Draining
    BY <1>1, <1>2, <1>5, <1>6, DrainKeep DEF IInv
  <1>11. task["loop"].at = "closing" => task'["loop"].at = "closing"
    BY <1>1, <1>6, Names
  <1>12. task[t].process = NoProcess
    BY <1>1, <1>2 DEF IInv, TaskInv, TaskOK
  <1>13. \A s \in Task :
           /\ task'[s].at = "start" => task'[s] = task[s]
           /\ task'[s].at = "stop" =>
                \/ task'[s] = task[s]
                \/ /\ task'[s].process # NoProcess
                   /\ workers[ProfileOf[task'[s].work]] = task'[s].process
           /\ task'[s].process = task[s].process \/ task[s].process \notin Process
    BY <1>3, <1>5, <1>6, <1>12, Names
  <1> QED BY <1>1, <1>2, <1>3, <1>4, <1>5, <1>6, <1>8, <1>9, <1>10, <1>11, <1>13, WriteStep

LEMMA StopNextStep ==
    ASSUME IInv, NEW t \in {"loop", "reaper"}, StopNext(t)
    PROVE  IInv'
  <1>1. PICK q \in task[t].todo :
               /\ task' = [task EXCEPT ![t] = Stopping(task[t].at, q, task[t].todo \ {q})]
               /\ Write(q, Cmd("shutdown", NoWork))
    BY DEF StopNext
  <1> DEFINE a == task[t].at
             S == task[t].todo
             u == Stopping(a, q, S \ {q})
             c == Cmd("shutdown", NoWork)
  <1>2. /\ a \in {"reap", "drain"} /\ task[t].process = NoProcess /\ t \in Task
        /\ UNCHANGED <<workers, lock, restarts, conn, mapped, proc, pipe, reader, ledger,
                       delivered, execs, answered, overlap>>
    BY Names DEF StopNext, StopsSeveral, ghostVars
  <1>3. q \in Process /\ S \in SUBSET Process /\ q \in S
    BY <1>2 DEF IInv, TypeOK, TaskState
  <1>4. c \in Command /\ c.type = "shutdown"
    BY DEF Command, Cmd
  <1>5. /\ u \in TaskState /\ u.at = a /\ u.work = NoWork /\ u.process = q
        /\ u.todo = S \ {q}
    BY <1>2, <1>3, StoppingType, StoppingFields
  <1>6. task' = [task EXCEPT ![t] = u] /\ Write(q, c)
    BY <1>1
  <1> HIDE DEF c, u
  <1>7. /\ task' \in [Task -> TaskState] /\ task'[t] = u
        /\ \A s \in Task \ {t} : task'[s] = task[s]
    BY <1>2, <1>5, <1>6, SetTask DEF IInv
  <1>8. inbox' \in [Process -> Seq(Command)]
    BY <1>3, <1>4, <1>6, Written DEF IInv
  <1>9. TypeOK'
    BY <1>2, <1>7, <1>8 DEF IInv, TypeOK
  <1>10. TaskInv'
    <2>1. TaskOK(t)'
      BY <1>2, <1>3, <1>5, <1>7, Names DEF TaskOK, IInv, TaskInv
    <2> QED BY <1>2, <1>7, <2>1, OneTask DEF IInv
  <1>11. \A r \in Process : r \in Draining' <=> r \in Draining
    <2>1. CASE t = "loop"
      BY <1>2, <1>3, <1>5, <1>7, <2>1, Names DEF Draining
    <2>2. CASE t = "reaper"
      BY <1>2, <1>7, <2>2, Names DEF Draining
    <2> QED BY <2>1, <2>2
  <1>12. /\ task["loop"].at = "closing" => task'["loop"].at = "closing"
         /\ task'[t].at \notin {"start", "stop"}
    BY <1>2, <1>5, <1>7, Names
  <1> HIDE DEF a, S
  <1> QED BY <1>2, <1>3, <1>4, <1>5, <1>6, <1>7, <1>9, <1>10, <1>11, <1>12, Names, WriteStep

--------------------------------------------------------------------------------
(* The steps that give the registry lock back, take it, or end a connection. *)

LEMMA ReaperTakesStep == IInv /\ ReaperTakes => IInv'
  <1> SUFFICES ASSUME IInv, ReaperTakes PROVE IInv'
    OBVIOUS
  <1> DEFINE t == "reaper"
             S == {q \in Registered : proc[q].idle}
             u == Stopping("reap", NoProcess, S)
  <1>1. /\ task[t].at = "lock" /\ lock = "none" /\ lock' = t
        /\ task' = [task EXCEPT ![t] = u]
        /\ UNCHANGED <<workers, restarts, conn, mapped, proc, inbox, pipe, reader, ledger,
                       delivered, execs, answered, overlap>>
    BY DEF ReaperTakes, procVars, ghostVars
  <1>2. S \in SUBSET Process
    BY DEF IInv, TypeOK, Registered, RegisteredIn
  <1>3. /\ u \in TaskState /\ u.at = "reap" /\ u.work = NoWork /\ u.process = NoProcess
        /\ u.todo = S
    BY <1>2, StoppingType, StoppingFields
  <1> HIDE DEF S, u
  <1>4. /\ task' \in [Task -> TaskState] /\ task'[t] = u
        /\ \A s \in Task \ {t} : task'[s] = task[s]
    BY <1>1, <1>3, SetTask, Names DEF IInv
  <1>5. TypeOK'
    BY <1>1, <1>4, Names DEF IInv, TypeOK
  <1>6. TaskInv'
    <2>1. TaskOK(t)'
      BY <1>1, <1>3, <1>4, Names DEF TaskOK
    <2> QED BY <1>1, <1>4, <2>1, OneTask, Names DEF IInv
  <1>7. \A r \in Process : r \in Draining' <=> r \in Draining
    BY <1>4, DrainKeep, Names DEF IInv
  <1>8. task[t].process = NoProcess
    BY <1>1, Names DEF IInv, TaskInv, TaskOK
  <1>9. \A s \in Task : /\ task'[s].at \in {"start", "stop"} => task'[s] = task[s]
                        /\ task'[s].process = task[s].process
    BY <1>3, <1>4, <1>8
  <1>10. task'["loop"] = task["loop"]
    BY <1>4, Names
  <1> HIDE DEF t
  <1> QED BY <1>1, <1>5, <1>6, <1>7, <1>9, <1>10, QuietStep

LEMMA StartFailsStep ==
    ASSUME IInv, NEW t \in Hands, StartFails(t)
    PROVE  IInv'
  <1>1. /\ task[t].at = "start" /\ Refuse(t) /\ lock' = "none"
        /\ UNCHANGED <<workers, restarts, conn, inbox, pipe, ledger,
                       delivered, execs, overlap>>
    BY DEF StartFails
  <1>2. /\ task' \in [Task -> TaskState]
        /\ mapped' \subseteq Dispatch /\ answered' \subseteq Work
        /\ task'[t].at = "idle" /\ task'[t].process = NoProcess
        /\ task'[t].work = NoWork /\ task'[t].todo = {}
        /\ \A s \in Task \ {t} : task'[s] = task[s]
        /\ \A q \in Process : q \in Draining' <=> q \in Draining
    BY <1>1, RefusedTask DEF IInv
  <1>3. TaskInv'
    BY <1>1, <1>2, RestedTasks DEF IInv
  <1>4. task[t].process = NoProcess /\ t \in Task
    BY <1>1, Names DEF IInv, TaskInv, TaskOK
  <1>5. \A s \in Task : /\ task'[s].at \in {"start", "stop"} => task'[s] = task[s]
                        /\ task'[s].process = task[s].process
    BY <1>2, <1>4
  <1>6. task["loop"].at = "closing" => task'["loop"].at = "closing"
    BY <1>1, <1>2, Names
  <1>7. CASE UNCHANGED <<proc, reader>>
    <2>1. TypeOK'
      BY <1>1, <1>2, <1>7 DEF IInv, TypeOK
    <2> QED BY <1>1, <1>2, <1>3, <1>5, <1>6, <1>7, <2>1, QuietStep
  <1>8. ASSUME NEW q \in Process, Free(q), NEW p \in Profile,
               NEW e \in {EpochOf[w] : w \in Work} \cup {NoEpoch},
               proc' = [proc EXCEPT ![q] = Ended("ended", e, p, FALSE)],
               reader' = [reader EXCEPT ![q] = TRUE]
        PROVE  IInv'
    <2> DEFINE v == Ended("ended", e, p, FALSE)
    <2>1. v \in ProcState /\ v.at = "ended"
      BY DEF ProcState, Ended
    <2>2. proc' = [proc EXCEPT ![q] = v]
      BY <1>8
    <2> HIDE DEF v
    <2>3. /\ proc' \in [Process -> ProcState] /\ proc'[q].at = "ended"
          /\ \A r \in Process : r # q => proc'[r] = proc[r]
      BY <2>1, <2>2 DEF IInv, TypeOK
    <2>4. /\ ~Live(q) /\ q \notin Draining /\ \A x \in Profile : workers[x] # q
      BY <1>8, Names DEF Free, Live, Draining
    <2>5. TypeOK'
      BY <1>1, <1>2, <1>8, <2>3 DEF IInv, TypeOK
    <2>6. RegInv'
      <3>1. /\ \A x \in Profile : workers[x] # NoProcess =>
                 workers[x] \in Process /\ workers[x] # q
            /\ \A r \in Process : Live(r)' => r # q /\ Live(r) /\ proc'[r] = proc[r]
        BY <2>3, <2>4 DEF IInv, TypeOK, Live
      <3>2. HomeInv'
        BY <1>1, <1>2, <2>3, <3>1 DEF IInv, RegInv, HomeInv
      <3>3. StopInv'
        BY <1>1, <1>5 DEF IInv, RegInv, StopInv
      <3> QED BY <3>2, <3>3 DEF RegInv
    <2>7. BoundInv'
      BY <1>1, <1>5 DEF IInv, BoundInv, RegisteredIn
    <2>8. \A r \in Process : /\ Mail(r)' /\ InOrder(r)' /\ (Told(r)' => Told(r))
                             /\ (AwaitsInitialize(r) => AwaitsInitialize(r)')
      <3> TAKE r \in Process
      <3>1. CASE r = q
        <4>1. inbox'[r] = <<>> /\ inbox[r] = <<>>
          BY <1>1, <2>4, <3>1 DEF IInv, MailInv, Mail
        <4> QED BY <4>1, MailEmpty DEF AwaitsInitialize
      <3>2. CASE r # q
        BY <1>1, <2>3, <3>2, MailKeep DEF IInv, MailInv, OrderInv
      <3> QED BY <3>1, <3>2
    <2>9. ShutInv'
      BY <1>2, <1>5, <1>6, <2>8, ShutKeep DEF IInv
    <2>10. OnceInv'
      BY <1>1, <2>3, <2>8, OnceKeep DEF IInv
    <2> QED BY <1>3, <2>5, <2>6, <2>7, <2>8, <2>9, <2>10 DEF IInv, MailInv, OrderInv
  <1>9. /\ ProfileOf[task[t].work] \in Profile
        /\ EpochOf[task[t].work] \in {EpochOf[w] : w \in Work} \cup {NoEpoch}
    <2>1. task[t].work \in Work
      BY <1>1, <1>4, Names DEF IInv, TaskInv, TaskOK
    <2> QED BY <2>1, Names, SupervisorAssumption
  <1>10. \/ UNCHANGED <<proc, reader>>
         \/ \E q \in Process :
              /\ Free(q)
              /\ proc' = [proc EXCEPT ![q] = Ended("ended", EpochOf[task[t].work],
                                                   ProfileOf[task[t].work], FALSE)]
              /\ reader' = [reader EXCEPT ![q] = TRUE]
    BY DEF StartFails
  <1> QED BY <1>7, <1>8, <1>9, <1>10

LEMMA StopsDoneStep ==
    ASSUME IInv, NEW t \in {"loop", "reaper"}, StopsDone(t)
    PROVE  IInv'
  <1> DEFINE a == IF t = "loop" THEN "offline" ELSE "idle"
             u == Resting(a)
  <1>1. /\ task[t].at \in {"reap", "drain"} /\ task[t].process = NoProcess
        /\ task[t].todo = {} /\ task' = [task EXCEPT ![t] = u]
        /\ lock' = IF lock = t THEN "none" ELSE lock
        /\ UNCHANGED <<workers, restarts, conn, mapped, proc, inbox, pipe, reader, ledger,
                       delivered, execs, answered, overlap>>
        /\ t \in Task
    BY Names DEF StopsDone, StopsSeveral, procVars, ghostVars
  <1>2. a \in {"offline", "idle"}
    OBVIOUS
  <1> HIDE DEF a
  <1>3. /\ u \in TaskState /\ u.at = a /\ u.work = NoWork /\ u.process = NoProcess
        /\ u.todo = {}
    BY <1>2, RestingType, RestingFields
  <1> HIDE DEF u
  <1>4. /\ task' \in [Task -> TaskState] /\ task'[t] = u
        /\ \A s \in Task \ {t} : task'[s] = task[s]
    BY <1>1, <1>3, SetTask DEF IInv
  <1>5. TypeOK'
    BY <1>1, <1>4 DEF IInv, TypeOK
  <1>6. TaskInv'
    <2>1. TaskOK(t)'
      BY <1>1, <1>2, <1>3, <1>4, Names DEF TaskOK
    <2> QED BY <1>1, <1>4, <2>1, OneTask DEF IInv
  <1>7. \A r \in Process : r \in Draining' <=> r \in Draining
    <2>1. CASE t = "loop"
      BY <1>1, <1>2, <1>3, <1>4, <2>1, Names DEF Draining
    <2>2. CASE t = "reaper"
      BY <1>4, <2>2, Names DEF Draining
    <2> QED BY <2>1, <2>2
  <1>8. /\ \A s \in Task : /\ task'[s].at \in {"start", "stop"} => task'[s] = task[s]
                           /\ task'[s].process = task[s].process
        /\ task["loop"].at = "closing" => task'["loop"].at = "closing"
    BY <1>1, <1>2, <1>3, <1>4, Names
  <1> QED BY <1>1, <1>5, <1>6, <1>7, <1>8, QuietStep

\* The reaper is cancelled: a process it was stopping stays registered, told to
\* shut down and waited for by nobody.
LEMMA ShutdownBeginsStep == IInv /\ ShutdownBegins => IInv'
  <1> SUFFICES ASSUME IInv, ShutdownBegins PROVE IInv'
    OBVIOUS
  <1> DEFINE u == Resting("closing")
             v == Resting("off")
             T == [task EXCEPT !["loop"] = u]
  <1>1. /\ task["loop"].at = "idle" /\ task' = [T EXCEPT !["reaper"] = v]
        /\ lock' = IF lock = "reaper" THEN "none" ELSE lock
        /\ UNCHANGED <<workers, restarts, conn, mapped, proc, inbox, pipe, reader, ledger,
                       delivered, execs, answered, overlap>>
    BY DEF ShutdownBegins, procVars, ghostVars
  <1>2. /\ u \in TaskState /\ u.at = "closing" /\ u.work = NoWork /\ u.process = NoProcess
        /\ u.todo = {}
        /\ v \in TaskState /\ v.at = "off" /\ v.work = NoWork /\ v.process = NoProcess
        /\ v.todo = {}
    BY RestingType, RestingFields
  <1> HIDE DEF u, v
  <1>3. /\ T \in [Task -> TaskState] /\ T["loop"] = u
        /\ \A s \in Task \ {"loop"} : T[s] = task[s]
    BY <1>2, SetTask, Names DEF IInv
  <1> HIDE DEF T
  <1>4. /\ task' \in [Task -> TaskState] /\ task'["loop"] = u /\ task'["reaper"] = v
        /\ \A s \in Task \ {"loop", "reaper"} : task'[s] = task[s]
    BY <1>1, <1>2, <1>3, Names
  <1>5. TypeOK'
    BY <1>1, <1>4 DEF IInv, TypeOK
  <1>6. TaskInv'
    <2> SUFFICES ASSUME NEW s \in Task PROVE TaskOK(s)'
      BY DEF TaskInv
    <2>1. CASE s = "loop"
      BY <1>1, <1>2, <1>4, <2>1, Names DEF IInv, TaskInv, TaskOK
    <2>2. CASE s = "reaper"
      BY <1>1, <1>2, <1>4, <2>2, Names DEF IInv, TaskInv, TaskOK
    <2>3. CASE s \notin {"loop", "reaper"}
      BY <1>1, <1>4, <2>3, Names DEF IInv, TaskInv, TaskOK
    <2> QED BY <2>1, <2>2, <2>3
  <1>7. \A r \in Process : r \in Draining' <=> r \in Draining
    BY <1>1, <1>2, <1>4, DrainKeep DEF IInv
  <1>8. \A s \in Task : task'[s].at \in {"start", "stop"} => task'[s] = task[s]
    BY <1>2, <1>4
  <1> QED BY <1>1, <1>2, <1>4, <1>5, <1>6, <1>7, <1>8, QuietStep

\* The workers leave the registry and are drained.
LEMMA ShutdownTakesStep == IInv /\ ShutdownTakes => IInv'
  <1> SUFFICES ASSUME IInv, ShutdownTakes PROVE IInv'
    OBVIOUS
  <1> DEFINE u == Stopping("drain", NoProcess, Registered)
  <1>1. /\ task["loop"].at = "closing" /\ lock = "none"
        /\ task' = [task EXCEPT !["loop"] = u]
        /\ workers' = [p \in Profile |-> NoProcess]
        /\ UNCHANGED <<lock, restarts, conn, mapped, proc, inbox, pipe, reader, ledger,
                       delivered, execs, answered, overlap>>
    BY DEF ShutdownTakes, procVars, ghostVars
  <1>2. Registered \in SUBSET Process
    BY DEF IInv, TypeOK, Registered, RegisteredIn
  <1>3. /\ u \in TaskState /\ u.at = "drain" /\ u.work = NoWork /\ u.process = NoProcess
        /\ u.todo = Registered
    BY <1>2, StoppingType, StoppingFields
  <1> HIDE DEF u
  <1>4. /\ task' \in [Task -> TaskState] /\ task'["loop"] = u
        /\ \A s \in Task \ {"loop"} : task'[s] = task[s]
    BY <1>1, <1>3, SetTask, Names DEF IInv
  <1>5. TypeOK'
    BY <1>1, <1>4 DEF IInv, TypeOK
  <1>6. TaskInv'
    <2>1. "loop" \in Task
      BY Names
    <2>2. TaskOK("loop")'
      BY <1>1, <1>3, <1>4, Names DEF TaskOK
    <2> QED BY <1>1, <1>4, <2>1, <2>2, OneTask DEF IInv
  <1>7. \A q \in Process : q \in Draining' <=> q \in Registered
    BY <1>3, <1>4, Names DEF Draining
  <1>8. \A q \in Process : Live(q) => q \in Registered
    <2> SUFFICES ASSUME NEW q \in Process, Live(q) PROVE q \in Registered
      OBVIOUS
    <2>1. proc[q].home \in Profile /\ workers[proc[q].home] = q /\ q # NoProcess
      BY <1>1, Names DEF IInv, RegInv, HomeInv, Draining, TypeOK, ProcState
    <2> QED BY <2>1 DEF Registered, RegisteredIn
  <1>9. \A s \in Task : task'[s].at \notin {"stop", "start"}
    BY <1>1, <1>3, <1>4, LockFree
  <1>10. RegInv'
    <2>1. HomeInv'
      BY <1>1, <1>7, <1>8, Names DEF HomeInv, Live
    <2>2. StopInv'
      BY <1>9 DEF StopInv
    <2> QED BY <2>1, <2>2 DEF RegInv
  <1>11. BoundInv'
    <2>1. RegisteredIn(workers') = {}
      BY <1>1 DEF RegisteredIn
    <2>2. Cardinality(RegisteredIn(workers')) = 0
      BY <2>1, FS_EmptySet
    <2> QED BY <1>9, <2>2, SupervisorAssumption DEF BoundInv
  <1>12. \A q \in Process : /\ Mail(q)' /\ InOrder(q)' /\ (Told(q)' <=> Told(q))
                            /\ (AwaitsInitialize(q)' <=> AwaitsInitialize(q))
    BY <1>1, MailKeep DEF IInv, MailInv, OrderInv
  <1>13. ShutInv'
    <2> SUFFICES ASSUME NEW q \in Process, Told(q)' PROVE q \in Draining'
      BY DEF ShutInv
    <2>1. Told(q)
      BY <1>12
    <2>2. Live(q)
      BY <2>1 DEF IInv, MailInv, Mail, Told
    <2> QED BY <1>7, <1>8, <2>2
  <1>14. OnceInv'
    BY <1>1, <1>12, OnceKeep DEF IInv
  <1> QED BY <1>5, <1>6, <1>10, <1>11, <1>12, <1>13, <1>14 DEF IInv, MailInv, OrderInv

--------------------------------------------------------------------------------
(* The steps that dispose of a process.                                    *)

\* The registry is finite.
LEMMA RegisteredSize ==
    ASSUME NEW W
    PROVE  IsFiniteSet(RegisteredIn(W)) /\ Cardinality(RegisteredIn(W)) \in Nat
  <1>1. RegisteredIn(W) \subseteq Profile
    BY DEF RegisteredIn
  <1> QED BY <1>1, FS_Subset, FS_CardinalityType, SupervisorAssumption

\* A process that has ended is disposed of and leaves the registry.
LEMMA Disposed ==
    ASSUME IInv, NEW q \in Process, ~Live(q), Dispose(q),
           \A p \in Profile : workers'[p] = IF workers[p] = q THEN NoProcess
                                            ELSE workers[p],
           \A r \in Process : r \in Draining' => r \in Draining,
           \A r \in Process : r # q /\ r \in Draining => r \in Draining',
           UNCHANGED <<ledger, execs, overlap>>
    PROVE  /\ proc' \in [Process -> ProcState] /\ inbox' \in [Process -> Seq(Command)]
           /\ pipe' \in [Process -> Seq(Work)] /\ reader' \in [Process -> BOOLEAN]
           /\ HomeInv' /\ MailInv' /\ OrderInv' /\ OnceInv'
           /\ \A r \in Process : Told(r)' => Told(r) /\ r # q
           /\ Cardinality(RegisteredIn(workers')) <= Cardinality(RegisteredIn(workers))
  <1>1. Gone \in ProcState /\ Gone.at = "gone"
    BY GoneType
  <1>2. /\ proc' = [proc EXCEPT ![q] = Gone] /\ inbox' = [inbox EXCEPT ![q] = <<>>]
        /\ pipe' = [pipe EXCEPT ![q] = <<>>] /\ reader' = [reader EXCEPT ![q] = FALSE]
    BY DEF Dispose
  <1>3. /\ proc' \in [Process -> ProcState] /\ proc'[q].at = "gone"
        /\ \A r \in Process : r # q => proc'[r] = proc[r]
    BY <1>1, <1>2 DEF IInv, TypeOK
  <1>4. /\ inbox' \in [Process -> Seq(Command)] /\ inbox'[q] = <<>>
        /\ \A r \in Process : r # q => inbox'[r] = inbox[r]
    BY <1>2, EmptyInbox DEF IInv
  <1>5. pipe' \in [Process -> Seq(Work)] /\ reader' \in [Process -> BOOLEAN]
    BY <1>2, EmptySeq DEF IInv, TypeOK
  <1>6. HomeInv'
    <2>1. /\ \A p \in Profile : workers[p] # NoProcess => workers[p] \in Process
          /\ \A r \in Process : proc[r].home \in Profile
      BY DEF IInv, TypeOK, ProcState
    <2>2. \A p \in Profile : workers'[p] # NoProcess => proc'[workers'[p]].home = p
      BY <1>3, <2>1 DEF IInv, RegInv, HomeInv
    <2>3. \A r \in Process : Live(r)' => workers'[proc'[r].home] = r \/ r \in Draining'
      BY <1>3, <2>1 DEF IInv, RegInv, HomeInv, Live
    <2>4. \A r \in Process : r \in Draining' => \A p \in Profile : workers'[p] # r
      BY Names DEF IInv, RegInv, HomeInv
    <2> QED BY <2>2, <2>3, <2>4 DEF HomeInv
  <1>7. \A r \in Process : /\ Mail(r)' /\ InOrder(r)' /\ (Told(r)' => Told(r) /\ r # q)
                           /\ (r # q => (AwaitsInitialize(r)' <=> AwaitsInitialize(r)))
    <2> TAKE r \in Process
    <2>1. CASE r = q
      BY <1>4, <2>1, MailEmpty
    <2>2. CASE r # q
      BY <1>3, <1>4, <2>2, MailKeep DEF IInv, MailInv, OrderInv
    <2> QED BY <2>1, <2>2
  <1>8. OnceInv'
    BY <1>3, <1>7, OnceKeep DEF IInv
  <1>9. Cardinality(RegisteredIn(workers')) <= Cardinality(RegisteredIn(workers))
    <2>1. RegisteredIn(workers') \subseteq RegisteredIn(workers)
      BY DEF RegisteredIn
    <2> QED BY <2>1, RegisteredSize, FS_Subset
  <1> QED BY <1>3, <1>4, <1>5, <1>6, <1>7, <1>8, <1>9 DEF MailInv, OrderInv

\* What Admit makes of the tasks: the one that asks starts a process with the
\* lock, and then there is room for it, or gives up without the lock.
LEMMA AdmitTasks ==
    ASSUME TypeOK, TaskInv, NEW t \in Hands, NEW W, Admit(t, W),
           \/ task[t].at = "lock" /\ lock = "none"
           \/ task[t].at = "stop" /\ lock = t
    PROVE  /\ workers' = W /\ lock' \in Task \cup {"none"}
           /\ task' \in [Task -> TaskState] /\ TaskInv'
           /\ restarts' \in [Profile -> 0 .. MaxRestarts]
           /\ mapped' \subseteq Dispatch /\ answered' \subseteq Work
           /\ \A s \in Task \ {t} : task'[s] = task[s]
           /\ task'[t].process = NoProcess
           /\ \A r \in Process : r \in Draining' <=> r \in Draining
           /\ task["loop"].at = "closing" => task'["loop"].at = "closing"
           /\ \A s \in Task : task'[s].at # "stop"
           /\ \A s \in Task : task'[s].at = "start" =>
                /\ s = t /\ task'[s].work = task[t].work
                /\ Cardinality(RegisteredIn(W)) < MaxWorkers
  <1> DEFINE w == task[t].work
             p == ProfileOf[w]
             u == Handing("start", w, NoProcess)
  <1>1. /\ t \in Task /\ t # "reaper" /\ w \in Work /\ p \in Profile
        /\ t = "loop" => w \in Dispatch \cup {NoWork}
        /\ t \in Job => w \in Job \cup {NoWork}
    BY Names DEF TaskInv, TaskOK
  <1>2. \A s \in Task \ {t} : task[s].at \notin {"stop", "start", "reap"}
    BY Names DEF TaskInv, TaskOK
  <1>3. CASE /\ Cardinality(RegisteredIn(W)) < MaxWorkers
             /\ restarts[p] < MaxRestarts
             /\ restarts' = [restarts EXCEPT ![p] = @ + 1]
             /\ lock' = t /\ task' = [task EXCEPT ![t] = u]
             /\ UNCHANGED <<mapped, answered>>
    <2>1. /\ u \in TaskState /\ u.at = "start" /\ u.work = w /\ u.process = NoProcess
          /\ u.todo = {}
      BY <1>1, HandingType, HandingFields
    <2> HIDE DEF w, u
    <2>2. /\ task' \in [Task -> TaskState] /\ task'[t] = u
          /\ \A s \in Task \ {t} : task'[s] = task[s]
      BY <1>1, <1>3, <2>1, SetTask
    <2>3. TaskInv'
      <3>1. TaskOK(t)'
        BY <1>1, <1>3, <2>1, <2>2 DEF TaskOK
      <3> QED BY <1>1, <1>3, <2>2, <3>1, OneTask
    <2>4. restarts' \in [Profile -> 0 .. MaxRestarts]
      <3>1. restarts[p] \in 0 .. MaxRestarts
        BY <1>1 DEF TypeOK
      <3>2. restarts[p] + 1 \in 0 .. MaxRestarts
        BY <1>3, <3>1, SupervisorAssumption
      <3> QED BY <1>3, <3>2 DEF TypeOK
    <2>5. \A r \in Process : r \in Draining' <=> r \in Draining
      BY <2>1, <2>2, DrainKeep, Names
    <2>6. /\ task["loop"].at = "closing" => task'["loop"].at = "closing"
          /\ \A s \in Task : task'[s].at # "stop"
          /\ \A s \in Task : task'[s].at = "start" => s = t /\ task'[s].work = w
      BY <1>2, <2>1, <2>2, Names
    <2>7. workers' = W /\ lock' \in Task \cup {"none"}
      BY <1>1, <1>3 DEF Admit
    <2> QED
      BY <1>3, <2>1, <2>2, <2>3, <2>4, <2>5, <2>6, <2>7 DEF TypeOK, w
  <1>4. CASE lock' = "none" /\ Refuse(t) /\ UNCHANGED restarts
    <2>1. /\ task' \in [Task -> TaskState]
          /\ mapped' \subseteq Dispatch /\ answered' \subseteq Work
          /\ task'[t].at = "idle" /\ task'[t].process = NoProcess
          /\ task'[t].work = NoWork /\ task'[t].todo = {}
          /\ \A s \in Task \ {t} : task'[s] = task[s]
          /\ \A q \in Process : q \in Draining' <=> q \in Draining
      BY <1>4, RefusedTask
    <2>2. TaskInv'
      BY <1>4, <2>1, RestedTasks
    <2>3. /\ task["loop"].at = "closing" => task'["loop"].at = "closing"
          /\ \A s \in Task : task'[s].at \notin {"stop", "start"}
      BY <1>2, <2>1, Names
    <2>4. workers' = W
      BY DEF Admit
    <2> HIDE DEF w, p, u
    <2> QED BY <1>4, <2>1, <2>2, <2>3, <2>4 DEF TypeOK
  <1> QED BY <1>3, <1>4 DEF Admit

\* A process may be started in place of one that has ended.
LEMMA AdmitDisposed ==
    ASSUME IInv, NEW t \in Hands, NEW q \in Process,
           \/ task[t].at = "lock" /\ lock = "none"
           \/ task[t].at = "stop" /\ lock = t,
           task[t].process \in {q, NoProcess},
           workers[ProfileOf[task[t].work]] = q, ~Live(q), Dispose(q),
           Admit(t, [workers EXCEPT ![ProfileOf[task[t].work]] = NoProcess]),
           UNCHANGED <<conn, ledger, delivered, execs, overlap>>
    PROVE  IInv'
  <1> DEFINE p == ProfileOf[task[t].work]
             W == [workers EXCEPT ![p] = NoProcess]
  <1>1. task[t].work \in Work /\ p \in Profile /\ t \in Task
    BY Names DEF IInv, TaskInv, TaskOK
  <1>2. W \in [Profile -> Process \cup {NoProcess}] /\ W[p] = NoProcess
    BY <1>1 DEF IInv, TypeOK
  <1>3. \A x \in Profile : W[x] = IF workers[x] = q THEN NoProcess ELSE workers[x]
    BY <1>1, Names DEF IInv, TypeOK, RegInv, HomeInv
  <1>4. Admit(t, W)
    OBVIOUS
  <1> HIDE DEF W
  <1>5. /\ workers' = W /\ lock' \in Task \cup {"none"}
        /\ task' \in [Task -> TaskState] /\ TaskInv'
        /\ restarts' \in [Profile -> 0 .. MaxRestarts]
        /\ mapped' \subseteq Dispatch /\ answered' \subseteq Work
        /\ \A s \in Task \ {t} : task'[s] = task[s]
        /\ \A r \in Process : r \in Draining' <=> r \in Draining
        /\ task["loop"].at = "closing" => task'["loop"].at = "closing"
        /\ \A s \in Task : task'[s].at # "stop"
        /\ \A s \in Task : task'[s].at = "start" =>
             /\ task'[s].work = task[t].work
             /\ Cardinality(RegisteredIn(W)) < MaxWorkers
    BY <1>4, AdmitTasks DEF IInv
  <1>6. /\ proc' \in [Process -> ProcState] /\ inbox' \in [Process -> Seq(Command)]
        /\ pipe' \in [Process -> Seq(Work)] /\ reader' \in [Process -> BOOLEAN]
        /\ HomeInv' /\ MailInv' /\ OrderInv' /\ OnceInv'
        /\ \A r \in Process : Told(r)' => Told(r) /\ r # q
        /\ Cardinality(RegisteredIn(workers')) <= Cardinality(RegisteredIn(workers))
    BY <1>3, <1>5, Disposed
  <1>7. TypeOK'
    BY <1>2, <1>5, <1>6 DEF IInv, TypeOK
  <1>8. RegInv'
    BY <1>5, <1>6 DEF RegInv, StopInv
  <1>9. BoundInv'
    <2>1. Cardinality(RegisteredIn(workers')) <= MaxWorkers
      <3>1. Cardinality(RegisteredIn(workers)) <= MaxWorkers
        BY DEF IInv, BoundInv
      <3>2. /\ Cardinality(RegisteredIn(workers)) \in Nat
            /\ Cardinality(RegisteredIn(workers')) \in Nat
        BY RegisteredSize
      <3> QED BY <1>6, <3>1, <3>2, SupervisorAssumption
    <2> QED BY <1>2, <1>5, <2>1 DEF BoundInv
  <1>10. ShutInv'
    <2>1. \A r \in Process : Told(r)' => \A s \in Task :
             task[s].process = r => task'[s].process = r
      BY <1>5, <1>6, Names
    <2> QED BY <1>5, <1>6, <2>1, ShutKeep DEF IInv
  <1> QED BY <1>5, <1>6, <1>7, <1>8, <1>9, <1>10 DEF IInv

\* A process may be started where none is registered.
LEMMA AdmitNew ==
    ASSUME IInv, NEW t \in Hands, task[t].at = "lock", lock = "none",
           workers[ProfileOf[task[t].work]] = NoProcess, Admit(t, workers),
           UNCHANGED <<proc, inbox, pipe, reader, conn, ledger, delivered, execs, overlap>>
    PROVE  IInv'
  <1>1. t \in Task /\ task[t].process = NoProcess
    BY Names DEF IInv, TaskInv, TaskOK
  <1>2. /\ workers' = workers /\ lock' \in Task \cup {"none"}
        /\ task' \in [Task -> TaskState] /\ TaskInv'
        /\ restarts' \in [Profile -> 0 .. MaxRestarts]
        /\ mapped' \subseteq Dispatch /\ answered' \subseteq Work
        /\ \A s \in Task \ {t} : task'[s] = task[s]
        /\ task'[t].process = NoProcess
        /\ \A r \in Process : r \in Draining' <=> r \in Draining
        /\ task["loop"].at = "closing" => task'["loop"].at = "closing"
        /\ \A s \in Task : task'[s].at # "stop"
        /\ \A s \in Task : task'[s].at = "start" =>
             /\ task'[s].work = task[t].work
             /\ Cardinality(RegisteredIn(workers)) < MaxWorkers
    BY AdmitTasks DEF IInv
  <1>3. TypeOK'
    BY <1>2 DEF IInv, TypeOK
  <1>4. RegInv'
    <2>1. HomeInv'
      BY <1>2 DEF IInv, RegInv, HomeInv, Live
    <2> QED BY <1>2, <2>1 DEF RegInv, StopInv
  <1>5. BoundInv'
    BY <1>2 DEF IInv, BoundInv
  <1>6. \A q \in Process : /\ Mail(q)' /\ InOrder(q)' /\ (Told(q)' <=> Told(q))
                           /\ (AwaitsInitialize(q)' <=> AwaitsInitialize(q))
    BY MailKeep DEF IInv, MailInv, OrderInv
  <1>7. ShutInv'
    <2>1. \A s \in Task : task'[s].process = task[s].process
      BY <1>1, <1>2
    <2> QED BY <1>2, <1>6, <2>1, ShutKeep DEF IInv
  <1>8. OnceInv'
    BY <1>6, OnceKeep DEF IInv
  <1> QED BY <1>2, <1>3, <1>4, <1>5, <1>6, <1>7, <1>8 DEF IInv, MailInv, OrderInv

LEMMA NewWorkerStep ==
    ASSUME IInv, NEW t \in Hands, NewWorker(t)
    PROVE  IInv'
  <1> DEFINE p == ProfileOf[task[t].work]
             q == workers[p]
  <1>1. /\ task[t].at = "lock" /\ lock = "none"
        /\ UNCHANGED <<conn, ledger, delivered, execs, overlap>>
        /\ \/ q = NoProcess /\ Admit(t, workers) /\ UNCHANGED <<proc, inbox, pipe, reader>>
           \/ /\ q # NoProcess /\ proc[q].at = "gone"
              /\ Admit(t, [workers EXCEPT ![p] = NoProcess])
              /\ Dispose(q)
    BY DEF NewWorker, procVars
  <1>2. p \in Profile /\ task[t].process = NoProcess
    BY <1>1, Names DEF IInv, TaskInv, TaskOK
  <1>3. CASE q = NoProcess /\ Admit(t, workers) /\ UNCHANGED <<proc, inbox, pipe, reader>>
    BY <1>1, <1>3, AdmitNew
  <1>4. CASE /\ q # NoProcess /\ proc[q].at = "gone"
             /\ Admit(t, [workers EXCEPT ![p] = NoProcess])
             /\ Dispose(q)
    <2>1. q \in Process /\ ~Live(q)
      BY <1>2, <1>4 DEF IInv, TypeOK, Live
    <2> QED BY <1>1, <1>2, <1>4, <2>1, AdmitDisposed
  <1> QED BY <1>1, <1>3, <1>4

LEMMA ReplaceEndsStep ==
    ASSUME IInv, NEW t \in Hands, ReplaceEnds(t)
    PROVE  IInv'
  <1> DEFINE q == task[t].process
  <1>1. /\ task[t].at = "stop" /\ ~Live(q) /\ Dispose(q)
        /\ Admit(t, [workers EXCEPT ![ProfileOf[task[t].work]] = NoProcess])
        /\ UNCHANGED <<conn, ledger, delivered, execs, overlap>>
    BY DEF ReplaceEnds
  <1>2. t \in Task /\ lock = t
    BY <1>1, Names DEF IInv, TaskInv, TaskOK
  <1>3. q \in Process /\ workers[ProfileOf[task[t].work]] = q
    BY <1>1, <1>2 DEF IInv, RegInv, StopInv, TypeOK, TaskState
  <1> QED BY <1>1, <1>2, <1>3, AdmitDisposed

\* The reaper, or the end of a connection, disposes of a process it takes.
LEMMA StopDisposes ==
    ASSUME IInv, NEW t \in {"loop", "reaper"}, NEW q \in Process, NEW S \in SUBSET Process,
           task[t].at \in {"reap", "drain"}, ~Live(q), Dispose(q),
           workers' = Unregister(q),
           task' = [task EXCEPT ![t] = Stopping(task[t].at, NoProcess, S)],
           S = task[t].todo \/ S = task[t].todo \ {q},
           q \in task[t].todo \/ q = task[t].process,
           task[t].process \in {q, NoProcess},
           UNCHANGED <<lock, restarts, conn, mapped, ledger, delivered, execs, answered,
                       overlap>>
    PROVE  IInv'
  <1> DEFINE a == task[t].at
             u == Stopping(a, NoProcess, S)
  <1>1. t \in Task /\ (t = "loop" <=> a = "drain")
    BY Names DEF IInv, TaskInv, TaskOK
  <1>2. /\ u \in TaskState /\ u.at = a /\ u.work = NoWork /\ u.process = NoProcess
        /\ u.todo = S
    BY StoppingType, StoppingFields
  <1> HIDE DEF u
  <1>3. /\ task' \in [Task -> TaskState] /\ task'[t] = u
        /\ \A s \in Task \ {t} : task'[s] = task[s]
    <2>1. task' = [task EXCEPT ![t] = u]
      BY DEF u
    <2> QED BY <1>1, <1>2, <2>1, SetTask DEF IInv
  <1>4. TaskInv'
    <2>1. TaskOK(t)'
      BY <1>1, <1>2, <1>3, Names DEF TaskOK, IInv, TaskInv
    <2> QED BY <1>1, <1>3, <2>1, OneTask DEF IInv
  <1>5. \A p \in Profile : workers'[p] = IF workers[p] = q THEN NoProcess ELSE workers[p]
    BY DEF Unregister
  <1>6. /\ \A r \in Process : r \in Draining' => r \in Draining
        /\ \A r \in Process : r # q /\ r \in Draining => r \in Draining'
    <2>1. CASE t = "loop"
      BY <1>1, <1>2, <1>3, <2>1, Names DEF Draining
    <2>2. CASE t = "reaper"
      BY <1>3, <2>2, Names DEF Draining
    <2> QED BY <2>1, <2>2
  <1>7. /\ proc' \in [Process -> ProcState] /\ inbox' \in [Process -> Seq(Command)]
        /\ pipe' \in [Process -> Seq(Work)] /\ reader' \in [Process -> BOOLEAN]
        /\ HomeInv' /\ MailInv' /\ OrderInv' /\ OnceInv'
        /\ \A r \in Process : Told(r)' => Told(r) /\ r # q
        /\ Cardinality(RegisteredIn(workers')) <= Cardinality(RegisteredIn(workers))
    BY <1>5, <1>6, Disposed
  <1>8. TypeOK'
    <2>1. workers' \in [Profile -> Process \cup {NoProcess}]
      BY DEF IInv, TypeOK, Unregister
    <2> QED BY <1>3, <1>7, <2>1 DEF IInv, TypeOK
  <1>9. \A s \in Task : /\ task'[s].at \in {"stop", "start"} => task'[s] = task[s]
                        /\ task'[s].at = "stop" => task'[s].process # q
    <2> SUFFICES ASSUME NEW s \in Task, task'[s].at \in {"stop", "start"}
                 PROVE  task'[s] = task[s] /\ (task'[s].at = "stop" => task'[s].process # q)
      OBVIOUS
    <2>1. s # t /\ task'[s] = task[s]
      BY <1>2, <1>3
    <2>2. lock = s
      BY <2>1 DEF IInv, TaskInv, TaskOK
    <2>3. t = "loop" /\ a = "drain"
      BY <1>1, <2>1, <2>2 DEF IInv, TaskInv, TaskOK
    <2>4. q \in Draining
      BY <2>3 DEF Draining
    <2>5. CASE task[s].at = "stop"
      <3>1. workers[ProfileOf[task[s].work]] = task[s].process
        BY <2>5 DEF IInv, RegInv, StopInv
      <3>2. ProfileOf[task[s].work] \in Profile
        BY <2>5, Names DEF IInv, TaskInv, TaskOK
      <3> QED BY <2>1, <2>4, <3>1, <3>2 DEF IInv, RegInv, HomeInv
    <2> QED BY <2>1, <2>5
  <1>10. \A s \in Task : task'[s].at \in {"stop", "start"}
                         => ProfileOf[task'[s].work] \in Profile
    BY <1>4, Names DEF TaskInv, TaskOK
  <1>11. RegInv'
    <2>1. StopInv'
      BY <1>5, <1>9, <1>10 DEF IInv, RegInv, StopInv
    <2> QED BY <1>7, <2>1 DEF RegInv
  <1>12. BoundInv'
    <2>1. /\ Cardinality(RegisteredIn(workers)) \in Nat
          /\ Cardinality(RegisteredIn(workers')) \in Nat
      BY RegisteredSize
    <2>2. Cardinality(RegisteredIn(workers')) <= MaxWorkers
      BY <1>7, <2>1, SupervisorAssumption DEF IInv, BoundInv
    <2>3. ASSUME NEW s \in Task, task'[s].at = "start"
          PROVE  /\ Cardinality(RegisteredIn(workers')) < MaxWorkers
                 /\ workers'[ProfileOf[task'[s].work]] = NoProcess
      <3>1. /\ Cardinality(RegisteredIn(workers)) < MaxWorkers
            /\ workers[ProfileOf[task[s].work]] = NoProcess
            /\ task'[s] = task[s]
        BY <1>9, <2>3 DEF IInv, BoundInv
      <3> QED BY <1>5, <1>7, <1>10, <2>1, <2>3, <3>1, SupervisorAssumption
    <2> QED BY <2>2, <2>3 DEF BoundInv
  <1>13. ShutInv'
    <2>1. \A r \in Process : Told(r)' => \A s \in Task :
             task[s].process = r => task'[s].process = r
      BY <1>3, <1>7, Names
    <2>2. task["loop"].at = "closing" => task'["loop"].at = "closing"
      BY <1>1, <1>3, Names
    <2> SUFFICES ASSUME NEW r \in Process, Told(r)'
                 PROVE  \/ task'["loop"].at = "closing"
                        \/ r \in Draining'
                        \/ \E s \in Task : task'[s].process = r
      BY DEF ShutInv
    <2> QED BY <1>6, <1>7, <2>1, <2>2 DEF IInv, ShutInv
  <1> QED BY <1>4, <1>7, <1>8, <1>11, <1>12, <1>13 DEF IInv

LEMMA StopEndsStep ==
    ASSUME IInv, NEW t \in {"loop", "reaper"}, StopEnds(t)
    PROVE  IInv'
  <1> DEFINE q == task[t].process
             S == task[t].todo
  <1>1. /\ task[t].at \in {"reap", "drain"} /\ q # NoProcess /\ ~Live(q)
        /\ workers' = Unregister(q) /\ Dispose(q)
        /\ task' = [task EXCEPT ![t] = Stopping(task[t].at, NoProcess, S)]
        /\ UNCHANGED <<lock, restarts, conn, mapped, ledger, delivered, execs, answered,
                       overlap>>
    BY DEF StopEnds, StopsSeveral, ghostVars
  <1>2. q \in Process /\ S \in SUBSET Process
    BY <1>1, Names DEF IInv, TypeOK, TaskState
  <1> QED BY <1>1, <1>2, StopDisposes

LEMMA StopGoneStep ==
    ASSUME IInv, NEW t \in {"loop", "reaper"}, StopGone(t)
    PROVE  IInv'
  <1>1. PICK q \in task[t].todo :
          /\ proc[q].at = "gone"
          /\ task' = [task EXCEPT ![t] = Stopping(task[t].at, NoProcess,
                                                  task[t].todo \ {q})]
          /\ workers' = Unregister(q)
          /\ Dispose(q)
    BY DEF StopGone
  <1>2. /\ task[t].at \in {"reap", "drain"} /\ task[t].process = NoProcess
        /\ UNCHANGED <<lock, restarts, conn, mapped, ledger, delivered, execs, answered,
                       overlap>>
    BY DEF StopGone, StopsSeveral, ghostVars
  <1> DEFINE S == task[t].todo \ {q}
  <1>3. q \in Process /\ S \in SUBSET Process
    BY <1>1, Names DEF IInv, TypeOK, TaskState
  <1>4. ~Live(q)
    BY <1>1 DEF Live
  <1>5. task' = [task EXCEPT ![t] = Stopping(task[t].at, NoProcess, S)]
    BY <1>1
  <1> QED BY <1>1, <1>2, <1>3, <1>4, <1>5, StopDisposes

--------------------------------------------------------------------------------
(* A process is started.                                                   *)

\* What a new process has to read.
LEMMA FirstMail ==
    ASSUME NEW w \in Work, NEW q \in Process,
           inbox'[q] = <<Cmd("initialize", NoWork), Cmd("work", w)>>,
           proc'[q].at = "live", proc'[q].home = ProfileOf[w]
    PROVE  /\ inbox'[q] \in Seq(Command)
           /\ Mail(q)' /\ InOrder(q)' /\ ~Told(q)' /\ AwaitsInitialize(q)'
  <1> DEFINE a == Cmd("initialize", NoWork)
             b == Cmd("work", w)
             s == <<a, b>>
  <1>1. /\ a \in Command /\ a.type = "initialize"
        /\ b \in Command /\ b.type = "work" /\ b.work = w
    BY DEF Cmd, Command
  <1> HIDE DEF a, b
  <1>2. s \in Seq(Command) /\ s # <<>> /\ DOMAIN s = {1, 2} /\ s[1] = a /\ s[2] = b
        /\ Head(s) = a
    BY <1>1
  <1>3. inbox'[q] = s
    BY DEF a, b
  <1> HIDE DEF s
  <1> QED BY <1>1, <1>2, <1>3 DEF Mail, InOrder, Told, AwaitsInitialize, Live

LEMMA StartedStep ==
    ASSUME IInv, NEW t \in Hands, Started(t)
    PROVE  IInv'
  <1> DEFINE w == task[t].work
             p == ProfileOf[w]
             q == CHOOSE x \in Process : Free(x)
             v == Ended("live", EpochOf[w], p, FALSE)
  <1>1. /\ task[t].at = "start" /\ Handed(t) /\ lock' = "none"
        /\ (\E x \in Process : Free(x))
        /\ proc' = [proc EXCEPT ![q] = v] /\ reader' = [reader EXCEPT ![q] = TRUE]
        /\ inbox' = [inbox EXCEPT ![q] = <<Cmd("initialize", NoWork), Cmd("work", w)>>]
        /\ workers' = [workers EXCEPT ![p] = q]
        /\ overlap' = IF \E r \in Process : Live(r) /\ proc[r].home = p
                      THEN overlap \cup {p} ELSE overlap
        /\ UNCHANGED <<restarts, conn, pipe, ledger, delivered, execs, answered>>
    BY DEF Started
  <1>2. q \in Process /\ Free(q)
    BY <1>1
  <1>3. /\ t \in Task /\ w \in Work /\ p \in Profile /\ task[t].process = NoProcess
        /\ workers[p] = NoProcess /\ lock = t
        /\ Cardinality(RegisteredIn(workers)) < MaxWorkers
    BY <1>1, Names DEF IInv, TaskInv, TaskOK, BoundInv
  <1> HIDE DEF q
  <1>4. /\ v \in ProcState /\ v.at = "live" /\ v.home = p
    <2> DEFINE e == EpochOf[w]
    <2>1. e \in {EpochOf[x] : x \in Work} \cup {NoEpoch}
      BY <1>3
    <2>2. v = Ended("live", e, p, FALSE)
      OBVIOUS
    <2> HIDE DEF e, v, p, w
    <2> QED BY <1>3, <2>1, <2>2 DEF ProcState, Ended
  <1> HIDE DEF v
  <1>5. /\ ~Live(q) /\ q \notin Draining /\ \A x \in Profile : workers[x] # q
    BY <1>2, Names DEF Free, Live, Draining
  <1>6. /\ task' \in [Task -> TaskState] /\ mapped' \subseteq Dispatch
        /\ task'[t].at = "idle" /\ task'[t].process = NoProcess
        /\ task'[t].work = NoWork /\ task'[t].todo = {}
        /\ \A s \in Task \ {t} : task'[s] = task[s]
        /\ \A r \in Process : r \in Draining' <=> r \in Draining
    BY <1>1, HandedTask DEF IInv
  <1>7. TaskInv'
    BY <1>1, <1>6, RestedTasks DEF IInv
  <1>8. /\ proc' \in [Process -> ProcState] /\ proc'[q].at = "live" /\ proc'[q].home = p
        /\ \A r \in Process : r # q => proc'[r] = proc[r] /\ inbox'[r] = inbox[r]
        /\ inbox'[q] = <<Cmd("initialize", NoWork), Cmd("work", w)>>
    BY <1>1, <1>2, <1>4 DEF IInv, TypeOK
  <1>9. \A r \in Process : r = q =>
          /\ inbox'[r] \in Seq(Command)
          /\ Mail(r)' /\ InOrder(r)' /\ ~Told(r)' /\ AwaitsInitialize(r)'
    <2> SUFFICES ASSUME NEW r \in Process, r = q
                 PROVE  /\ inbox'[r] \in Seq(Command)
                        /\ Mail(r)' /\ InOrder(r)' /\ ~Told(r)' /\ AwaitsInitialize(r)'
      OBVIOUS
    <2>1. /\ inbox'[r] = <<Cmd("initialize", NoWork), Cmd("work", w)>>
          /\ proc'[r].at = "live" /\ proc'[r].home = ProfileOf[w] /\ w \in Work
      BY <1>3, <1>8
    <2> HIDE DEF w
    <2> QED BY <2>1, FirstMail
  <1>10. inbox' \in [Process -> Seq(Command)]
    <2>1. inbox'[q] \in Seq(Command)
      BY <1>2, <1>9
    <2> QED BY <1>1, <1>2, <1>8, <2>1 DEF IInv, TypeOK
  <1>11. TypeOK'
    <2>1. /\ workers' \in [Profile -> Process \cup {NoProcess}]
          /\ reader' \in [Process -> BOOLEAN] /\ overlap' \subseteq Profile
      BY <1>1, <1>2, <1>3 DEF IInv, TypeOK
    <2> QED BY <1>1, <1>6, <1>8, <1>10, <2>1 DEF IInv, TypeOK
  <1>12. \A s \in Task : task'[s].at \notin {"stop", "start"}
    BY <1>3, <1>6, <1>7, <1>1, Names DEF TaskInv, TaskOK
  <1>13. /\ workers'[p] = q
         /\ \A x \in Profile : x # p => workers'[x] = workers[x]
    BY <1>1, <1>3 DEF IInv, TypeOK
  <1>14. RegInv'
    <2>1. /\ \A x \in Profile : workers[x] # NoProcess => workers[x] \in Process
          /\ \A r \in Process : proc[r].home \in Profile
      BY DEF IInv, TypeOK, ProcState
    <2>2. \A x \in Profile : workers'[x] # NoProcess => proc'[workers'[x]].home = x
      BY <1>5, <1>8, <1>13, <2>1 DEF IInv, RegInv, HomeInv
    <2>3. \A r \in Process : Live(r)' => workers'[proc'[r].home] = r \/ r \in Draining'
      <3> SUFFICES ASSUME NEW r \in Process, proc'[r].at = "live"
                   PROVE  workers'[proc'[r].home] = r \/ r \in Draining'
        BY DEF Live
      <3>1. CASE r = q
        BY <1>8, <1>13, <3>1
      <3>2. CASE r # q
        BY <1>3, <1>6, <1>8, <1>13, <2>1, <3>2, Names DEF IInv, RegInv, HomeInv, Live
      <3> QED BY <3>1, <3>2
    <2>4. \A r \in Process : r \in Draining' => \A x \in Profile : workers'[x] # r
      BY <1>5, <1>6, <1>13 DEF IInv, RegInv, HomeInv
    <2> QED BY <1>12, <2>2, <2>3, <2>4 DEF RegInv, HomeInv, StopInv
  <1>15. BoundInv'
    <2>1. RegisteredIn(workers') = RegisteredIn(workers) \cup {p}
      BY <1>2, <1>3, <1>13, Names DEF RegisteredIn
    <2>2. p \notin RegisteredIn(workers)
      BY <1>3 DEF RegisteredIn
    <2>3. IsFiniteSet(RegisteredIn(workers)) /\ Cardinality(RegisteredIn(workers)) \in Nat
      BY RegisteredSize
    <2>4. Cardinality(RegisteredIn(workers')) = Cardinality(RegisteredIn(workers)) + 1
      BY <2>1, <2>2, <2>3, FS_AddElement
    <2>5. Cardinality(RegisteredIn(workers')) <= MaxWorkers
      BY <1>3, <2>3, <2>4, SupervisorAssumption
    <2> QED BY <1>12, <2>5 DEF BoundInv
  <1>16. \A r \in Process : /\ Mail(r)' /\ InOrder(r)' /\ (Told(r)' => Told(r))
                            /\ (r # q => (AwaitsInitialize(r)' <=> AwaitsInitialize(r)))
                            /\ (r = q => AwaitsInitialize(r)')
    <2> TAKE r \in Process
    <2>1. CASE r = q
      BY <1>9, <2>1
    <2>2. CASE r # q
      BY <1>8, <2>2, MailKeep DEF IInv, MailInv, OrderInv
    <2> QED BY <2>1, <2>2
  <1>17. ShutInv'
    <2>1. task["loop"].at = "closing" => task'["loop"].at = "closing"
      BY <1>1, <1>6, Names
    <2>2. \A s \in Task : task'[s].process = task[s].process
      BY <1>3, <1>6
    <2> QED BY <1>6, <1>16, <2>1, <2>2, ShutKeep DEF IInv
  <1>18. OnceInv'
    <2>1. ShareInv'
      <3> SUFFICES ASSUME NEW a \in Process, NEW b \in Process, proc'[a].at = "live",
                          proc'[b].at = "live", proc'[a].home = proc'[b].home, a # b
                   PROVE  proc'[a].home \in overlap'
        BY DEF ShareInv, Live
      <3>1. CASE a # q /\ b # q
        BY <1>1, <1>8, <3>1 DEF IInv, OnceInv, ShareInv, Live
      <3>2. CASE a = q \/ b = q
        BY <1>1, <1>8, <3>2 DEF Live
      <3> QED BY <3>1, <3>2
    <2>2. KnownInv'
      BY <1>1, <1>8, <1>16 DEF IInv, OnceInv, KnownInv, Live
    <2>3. ExecInv'
      BY <1>1 DEF IInv, OnceInv, ExecInv
    <2> QED BY <2>1, <2>2, <2>3 DEF OnceInv
  <1> QED BY <1>7, <1>11, <1>14, <1>15, <1>16, <1>17, <1>18 DEF IInv, MailInv, OrderInv

--------------------------------------------------------------------------------
(* The invariant holds.                                                    *)

LEMMA InitInv == Init => IInv
  <1> SUFFICES ASSUME Init PROVE IInv
    OBVIOUS
  <1>1. \A t \in Task : \E a \in {"off", "offline", "idle"} :
           task[t] = Resting(a) /\ task[t] \in TaskState
    BY RestingType DEF Init
  <1>2. \A t \in Task : /\ task[t].at \in {"off", "offline", "idle"}
                        /\ task[t].work = NoWork /\ task[t].process = NoProcess
                        /\ task[t].todo = {}
    BY <1>1, RestingFields
  <1>3. \A q \in Process : proc[q] = Gone /\ inbox[q] = <<>> /\ Live(q) = FALSE
    BY GoneType DEF Init, Live
  <1>4. TypeOK
    <2>1. task \in [Task -> TaskState]
      BY <1>1 DEF Init
    <2>2. proc \in [Process -> ProcState]
      BY GoneType DEF Init
    <2>3. inbox \in [Process -> Seq(Command)] /\ pipe \in [Process -> Seq(Work)]
      BY EmptySeq DEF Init
    <2>4. restarts \in [Profile -> 0 .. MaxRestarts]
      BY SupervisorAssumption DEF Init
    <2>5. /\ workers \in [Profile -> Process \cup {NoProcess}]
          /\ reader \in [Process -> BOOLEAN] /\ ledger \in [Profile -> SUBSET Dispatch]
          /\ delivered \in [Work -> 0 .. 2] /\ execs \in [Dispatch -> Nat]
      BY DEF Init
    <2>6. lock = "none" /\ conn = FALSE /\ mapped = {} /\ answered = {} /\ overlap = {}
      BY DEF Init
    <2> QED BY <2>1, <2>2, <2>3, <2>4, <2>5, <2>6 DEF TypeOK
  <1>5. TaskInv
    BY <1>2, Names DEF Init, TaskInv, TaskOK
  <1>6. RegInv
    BY <1>2, <1>3, Names DEF Init, RegInv, HomeInv, StopInv, Draining
  <1>7. BoundInv
    <2>1. RegisteredIn(workers) = {}
      BY DEF Init, RegisteredIn
    <2> QED BY <1>2, <2>1, FS_EmptySet, SupervisorAssumption DEF BoundInv
  <1>8. MailInv /\ ShutInv /\ OrderInv
    <2>1. \A q \in Process : DOMAIN inbox[q] = {}
      BY <1>3
    <2> QED BY <1>3, <2>1 DEF MailInv, Mail, ShutInv, Told, OrderInv, InOrder
  <1>9. OnceInv
    <2>1. \A d \in Dispatch : execs[d] = 0
      BY DEF Init
    <2> QED BY <1>3, <2>1 DEF OnceInv, ShareInv, KnownInv, ExecInv
  <1> QED BY <1>4, <1>5, <1>6, <1>7, <1>8, <1>9 DEF IInv

LEMMA Stutter == IInv /\ UNCHANGED vars => IInv'
  <1> SUFFICES ASSUME IInv, UNCHANGED vars PROVE IInv'
    OBVIOUS
  <1>1. UNCHANGED <<workers, lock, task, restarts, conn, mapped, proc, inbox, pipe, reader,
                    ledger, delivered, execs, answered, overlap>>
    BY DEF vars, bridgeVars, procVars, ghostVars
  <1>2. TypeOK'
    BY <1>1 DEF IInv, TypeOK
  <1> QED BY <1>1, <1>2, StillStep

LEMMA HandsOverStep ==
    ASSUME IInv, NEW t \in Hands, HandsOver(t)
    PROVE  IInv'
  BY UseWorkerStep, NewWorkerStep, ReplaceWorkerStep, ReplaceEndsStep, StartedStep,
     StartFailsStep DEF HandsOver

LEMMA ArrivalsStep == IInv /\ Arrivals => IInv'
  BY ReceiveDispatchStep, CancelStep, CancelFailsStep, ReceiveJobStep, JobBeginsStep
  DEF Arrivals

LEMMA ConnectionStep == IInv /\ Connection => IInv'
  BY ConnectStep, SocketDropsStep, LeaveByExceptionStep, ShutdownBeginsStep,
     ShutdownTakesStep DEF Connection

LEMMA StopsStep ==
    ASSUME IInv, NEW t \in {"loop", "reaper"}, Stops(t)
    PROVE  IInv'
  BY StopNextStep, StopEndsStep, StopGoneStep, StopsDoneStep DEF Stops

LEMMA ProcessStep ==
    ASSUME IInv, NEW q \in Process,
           \/ WorkerStep(q) \/ Reading(q) \/ Kill(q) \/ Die(q) \/ Notice(q)
           \/ IdleTimeout(q)
    PROVE  IInv'
  <1>1. CASE WorkerStep(q)
    <2>1. ASSUME ReadShutdown(q) PROVE IInv'
      BY <2>1, EndsStep DEF ReadShutdown
    <2> QED BY <1>1, <2>1, ReadInitializeStep, ReadDispatchStep, ReadJobStep,
               ReadCancelStep, RunEndsStep, JobEndsStep DEF WorkerStep
  <1>2. CASE Reading(q)
    BY <1>2, DeliverStep, ReaderFailsStep DEF Reading
  <1>3. CASE Kill(q)
    BY <1>3, EndsStep DEF Kill
  <1>4. CASE Die(q)
    BY <1>4, EndsStep DEF Die
  <1>5. CASE Notice(q) \/ IdleTimeout(q)
    BY <1>5, NoticeStep, IdleTimeoutStep
  <1> QED BY <1>1, <1>2, <1>3, <1>4, <1>5

LEMMA NextInv == IInv /\ [Next]_vars => IInv'
  <1> SUFFICES ASSUME IInv, [Next]_vars PROVE IInv'
    OBVIOUS
  <1>1. CASE Arrivals \/ Connection
    BY <1>1, ArrivalsStep, ConnectionStep
  <1>2. ASSUME NEW t \in Job \cup {"loop"}, HandsOver(t) PROVE IInv'
    BY <1>2, HandsOverStep DEF Hands
  <1>3. CASE ReaperWakes \/ ReaperTakes
    BY <1>3, ReaperWakesStep, ReaperTakesStep
  <1>4. ASSUME NEW t \in {"loop", "reaper"}, Stops(t) PROVE IInv'
    BY <1>4, StopsStep
  <1>5. ASSUME NEW q \in Process,
               \/ WorkerStep(q) \/ Reading(q) \/ Kill(q) \/ Die(q) \/ Notice(q)
               \/ IdleTimeout(q)
        PROVE  IInv'
    BY <1>5, ProcessStep
  <1>6. ASSUME NEW p \in Profile, StartAges(p) PROVE IInv'
    BY <1>6, StartAgesStep
  <1>7. CASE UNCHANGED vars
    BY <1>7, Stutter
  <1> QED BY <1>1, <1>2, <1>3, <1>4, <1>5, <1>6, <1>7 DEF Next

\* The inductive invariant holds in every reachable state.
THEOREM Invariance == Spec => []IInv
  BY InitInv, NextInv, PTL DEF Spec

\* Live processes that nobody drains are registered, each under its own home, so
\* there are as many of them as profiles in the registry at most.
LEMMA RegisteredLive ==
    ASSUME IInv
    PROVE  BoundedWorkers /\ OneHomeOneProcess
  <1> DEFINE L == {q \in Process : Live(q)} \ Draining
             R == RegisteredIn(workers)
             f == [q \in L |-> proc[q].home]
  <1>1. \A q \in L : /\ q \in Process /\ q # NoProcess /\ proc[q].home \in Profile
                     /\ workers[proc[q].home] = q
    BY Names DEF IInv, RegInv, HomeInv, TypeOK, ProcState
  <1>2. f \in Injection(L, R)
    BY <1>1 DEF RegisteredIn, Injection, IsInjective
  <1>3. BoundedWorkers
    <2> HIDE DEF L, R, f
    <2>1. IsFiniteSet(R) /\ Cardinality(R) \in Nat
      BY RegisteredSize DEF R
    <2>2. IsFiniteSet(L) /\ Cardinality(L) <= Cardinality(R)
      BY <1>2, <2>1, FS_Injection
    <2>3. Cardinality(L) \in Nat /\ Cardinality(R) <= MaxWorkers /\ MaxWorkers \in Nat
      BY <2>2, FS_CardinalityType, SupervisorAssumption DEF IInv, BoundInv, R
    <2>4. Cardinality(L) <= MaxWorkers
      BY <2>1, <2>2, <2>3
    <2> QED BY <2>4 DEF BoundedWorkers, L
  <1>4. OneHomeOneProcess
    BY <1>1 DEF OneHomeOneProcess
  <1> QED BY <1>3, <1>4

\* However the message loop, the jobs, the reaper and the end of a connection
\* interleave, whatever processes die and whatever is redelivered: the state is well
\* typed, there are MAX_PROFILE_WORKERS processes at most and one to a home, those
\* aside that the end of a connection has taken out of the registry.
THEOREM Consistency == Spec => []Consistent
  <1>1. IInv => Consistent
    BY RegisteredLive DEF IInv, Consistent
  <1> QED BY <1>1, Invariance, PTL

\* No dispatch is ever written behind a shutdown that its process has not read, so
\* no dispatch is lost by being handed to a worker that is told to stop.
THEOREM NothingBehindShutdown == Spec => []NoDispatchBehindShutdown
  <1>1. IInv => NoDispatchBehindShutdown
    BY DEF IInv, OrderInv, InOrder, NoDispatchBehindShutdown
  <1> QED BY <1>1, Invariance, PTL

\* A dispatch is executed once at most over redeliveries, restarts of its worker and
\* changes of epoch, unless two processes have shared the home of its profile.
THEOREM AtMostOnce == Spec => []ExecutedOnce
  <1>1. IInv => ExecutedOnce
    BY DEF IInv, OnceInv, ExecInv, ExecutedOnce
  <1> QED BY <1>1, Invariance, PTL

================================================================================
