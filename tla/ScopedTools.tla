------------------------------ MODULE ScopedTools ------------------------------
(***************************************************************************)
(* The marketplace tools of concurrent runs in one Hermes process          *)
(* (_ensure_scoped_tool_registry and MarketplaceRuntimeToolProxy).         *)
(*                                                                         *)
(* Every run makes entries of the tools its payload describes and keeps    *)
(* them in a scope of its own context, which the threads it gives tool     *)
(* calls to inherit.  The first run installs the overlay through which the *)
(* process-wide registry of Hermes sees the scope of whoever asks, and     *)
(* then patches model_tools of Hermes, which remembers the definitions it  *)
(* computed until the registry's generation changes.  A run that comes     *)
(* between the two opens its scope already.                                *)
(***************************************************************************)
EXTENDS Naturals, FiniteSets, Sequences

CONSTANTS
    Run, NoRun,
    Payload,      \* payloads: sequences of described tools
    Tool, NoTool, Stub,
    Name,
    BuiltIn,      \* the names of Hermes's own tools
    StubName,     \* the names of the LinkCrest placeholder
    RealName,     \* those by which it is known that a tool makes it needless
    Visible,      \* the names that a model may be shown
    CallableOf,   \* of each tool, the name it is made callable by
    AliasesOf,    \* and its other names
    Usable        \* the tools with a name and an execution route

ASSUME ScopedToolsAssumption ==
    /\ IsFiniteSet(Run) /\ NoRun \notin Run /\ NoTool \notin Tool /\ Stub \notin Tool
    /\ Payload \subseteq Seq(Tool)
    /\ BuiltIn \cup StubName \cup RealName \cup Visible \subseteq Name
    /\ CallableOf \in [Tool -> Name] /\ AliasesOf \in [Tool -> SUBSET Name]
    /\ Usable \subseteq Tool

VARIABLES
    payload, stub,   \* what each run was given, and whether it needs the placeholder
    pc,              \* registered_for_payload of each run
    scope,           \* scope_stack of each run's thread and of its tool worker
    counts,          \* _active_scope_counts
    installer,       \* who has _SCOPED_REGISTRY_INSTALL_LOCK
    layers,          \* overlays around the registry: it has scoped_tools
    patched,         \* model_tools.get_tool_definitions is the scoped one
    generation, memo, \* of the registry; what Hermes remembers of a generation
    called, shown    \* the last call; the definitions each run was given

vars == <<payload, stub, pc, scope, counts, installer, layers, patched, generation, memo,
          called, shown>>
install == <<installer, layers, patched>>
seen == <<memo, called, shown>>

--------------------------------------------------------------------------------
(* The entries of a run: tools_from_payload and registered_for_payload.    *)

\* Of two tools with one callable name the first is kept.
Kept(r) == {i \in DOMAIN payload[r] :
              /\ payload[r][i] \in Usable
              /\ \A j \in 1..(i - 1) : payload[r][j] \in Usable =>
                   CallableOf[payload[r][j]] # CallableOf[payload[r][i]]}

NamesOf(t) == {CallableOf[t]} \cup AliasesOf[t]
Named(r, n) == {i \in Kept(r) : n \in NamesOf(payload[r][i])}
Names(r) == UNION {NamesOf(payload[r][i]) : i \in Kept(r)}
            \cup IF stub[r] THEN StubName ELSE {}

\* A later entry of the same name replaces an earlier one, placeholders come first.
EntryOf(r, n) ==
    IF Named(r, n) = {} THEN Stub
    ELSE payload[r][CHOOSE i \in Named(r, n) : \A j \in Named(r, n) : j <= i]

Context == Run \X {"thread", "worker"}
Own == [owner |-> NoRun, tool |-> NoTool]
Definition == (Run \cup {NoRun}) \X Name

\* The entry that is found by a name: registry.get_entry.
Resolve(c, n) ==
    IF scope[c] # NoRun /\ n \in Names(scope[c])
    THEN [owner |-> scope[c], tool |-> EntryOf(scope[c], n)]
    ELSE Own

\* What a model is shown: registry._snapshot_entries.
Snapshot(c) ==
    {<<NoRun, n>> : n \in BuiltIn}
    \cup IF scope[c] = NoRun THEN {}
         ELSE {<<scope[c], n>> : n \in Names(scope[c]) \cap Visible}

Init ==
    /\ payload = [r \in Run |-> <<>>] /\ stub = [r \in Run |-> FALSE]
    /\ pc = [r \in Run |-> "idle"]
    /\ scope = [c \in Context |-> NoRun]
    /\ counts = [n \in Name |-> 0]
    /\ installer = NoRun /\ layers = 0 /\ patched = FALSE
    /\ generation = 0 /\ memo = [generation |-> 0, defs |-> {}, early |-> FALSE]
    /\ called = [by |-> NoRun, name |-> "none", entry |-> Own]
    /\ shown = [r \in Run |-> [asked |-> FALSE, defs |-> {}, early |-> FALSE]]

Goto(r, next) == pc' = [pc EXCEPT ![r] = next]

--------------------------------------------------------------------------------
(* registered_for_payload.                                                 *)

\* The placeholder is for payloads of the app that describe no such tool.
Begin(r, p, linkcrest) ==
    /\ pc[r] = "idle"
    /\ payload' = [payload EXCEPT ![r] = p]
    /\ stub' = [stub EXCEPT ![r] =
                  linkcrest /\ \A n \in RealName, i \in Kept(r)' : n \notin NamesOf(p[i])]
    /\ Goto(r, IF Names(r)' = {} THEN "open" ELSE "count")
    /\ UNCHANGED <<scope, counts, install, generation, seen>>

Count(r) ==
    /\ pc[r] = "count"
    /\ counts' = [n \in Name |-> IF n \in Names(r) THEN counts[n] + 1 ELSE counts[n]]
    /\ Goto(r, "ensure")
    /\ UNCHANGED <<payload, stub, scope, install, generation, seen>>

\* Names of Hermes's own tools are refused.
Collides(r) == Names(r) \cap BuiltIn # {}

Enter(r) ==
    /\ pc[r] = "enter"
    /\ IF Collides(r)
       THEN Goto(r, "cleanup") /\ UNCHANGED <<scope, generation>>
       ELSE /\ Goto(r, "open")
            /\ scope' = [scope EXCEPT ![<<r, "thread">>] = r]
            /\ generation' = generation + 1
    /\ UNCHANGED <<payload, stub, counts, install, seen>>

\* The run has ended, in whatever way.
Leave(r) ==
    /\ pc[r] = "open"
    /\ IF scope[<<r, "thread">>] = NoRun
       THEN Goto(r, "done") /\ UNCHANGED <<scope, generation>>
       ELSE /\ Goto(r, "cleanup")
            /\ scope' = [scope EXCEPT ![<<r, "thread">>] = NoRun]
            /\ generation' = generation + 1
    /\ UNCHANGED <<payload, stub, counts, install, seen>>

\* A name is forgotten although other runs have it open.
Bug_Uncount(r) ==
    /\ pc[r] = "cleanup"
    /\ counts' = [n \in Name |-> IF n \in Names(r) THEN 0 ELSE counts[n]]
    /\ Goto(r, "done")
    /\ UNCHANGED <<payload, stub, scope, install, generation, seen>>

Uncount(r) ==
    /\ pc[r] = "cleanup"
    /\ counts' = [n \in Name |-> IF n \in Names(r) /\ counts[n] > 0
                                 THEN counts[n] - 1 ELSE counts[n]]
    /\ Goto(r, "done")
    /\ UNCHANGED <<payload, stub, scope, install, generation, seen>>

--------------------------------------------------------------------------------
(* _ensure_scoped_tool_registry.                                           *)

LooksForOverlay(r) ==
    /\ pc[r] = "ensure"
    /\ Goto(r, IF layers > 0 THEN "enter" ELSE "wait")
    /\ UNCHANGED <<payload, stub, scope, counts, install, generation, seen>>

TakeInstallLock(r) ==
    /\ pc[r] = "wait" /\ installer = NoRun
    /\ installer' = r
    /\ Goto(r, "install")
    /\ UNCHANGED <<payload, stub, scope, counts, layers, patched, generation, seen>>

\* Another thread may have installed the overlay while this one waited.  With the
\* overlay the registry has scoped_tools, marked or not yet marked, and other runs
\* do not wait for the lock any more.
WrapRegistry(r) ==
    /\ pc[r] = "install"
    /\ IF layers > 0
       THEN installer' = NoRun /\ Goto(r, "enter") /\ UNCHANGED layers
       ELSE layers' = layers + 1 /\ Goto(r, "patch") /\ UNCHANGED installer
    /\ UNCHANGED <<payload, stub, scope, counts, patched, generation, seen>>

\* model_tools is imported first, which takes its time.
PatchDefinitions(r) ==
    /\ pc[r] = "patch"
    /\ patched' = TRUE /\ installer' = NoRun
    /\ Goto(r, "enter")
    /\ UNCHANGED <<payload, stub, scope, counts, layers, generation, seen>>

\* The import fails, or the module has no such functions: the run fails, and as the
\* overlay stays, nobody tries again.
PatchFails(r) ==
    /\ pc[r] = "patch"
    /\ installer' = NoRun
    /\ Goto(r, "cleanup")
    /\ UNCHANGED <<payload, stub, scope, counts, layers, patched, generation, seen>>

--------------------------------------------------------------------------------
(* The agent of a run.                                                     *)

Remembered == memo.generation = generation /\ memo.defs # {}

\* Before the patch a run in its scope is given what Hermes remembers, and what is
\* computed for it is remembered; both are marked as early.
Asks(r, fresh) ==
    LET c == <<r, "thread">>
        early == ~patched /\ scope[c] # NoRun
    IN /\ memo' = IF fresh \/ Remembered THEN memo
                  ELSE [generation |-> generation, defs |-> Snapshot(c), early |-> early]
       /\ shown' = [shown EXCEPT ![r] =
                      IF ~fresh /\ Remembered
                      THEN [asked |-> TRUE, defs |-> memo.defs, early |-> early \/ memo.early]
                      ELSE [asked |-> TRUE, defs |-> Snapshot(c), early |-> FALSE]]

\* The definitions are always looked up in what Hermes remembers.
Bug_AsksDefinitions(r) ==
    /\ pc[r] = "open"
    /\ Asks(r, FALSE)
    /\ UNCHANGED <<payload, stub, pc, scope, counts, install, generation, called>>

\* Once patched, they are computed afresh inside a scope and not remembered.
AsksDefinitions(r) ==
    /\ pc[r] = "open"
    /\ Asks(r, patched /\ scope[<<r, "thread">>] # NoRun)
    /\ UNCHANGED <<payload, stub, pc, scope, counts, install, generation, called>>

\* A worker thread runs in a copy of the context, even when the run has ended.
Submit(r) ==
    /\ pc[r] = "open"
    /\ scope' = [scope EXCEPT ![<<r, "worker">>] = scope[<<r, "thread">>]]
    /\ UNCHANGED <<payload, stub, pc, counts, install, generation, seen>>

\* The handler posts the call to the route of its tool and dispatch and returns what
\* comes of it as text.
Calls(c, n) ==
    /\ IF c[2] = "thread" THEN pc[c[1]] = "open" ELSE scope[c] # NoRun
    /\ called' = [by |-> c[1], name |-> n, entry |-> Resolve(c, n)]
    /\ UNCHANGED <<payload, stub, pc, scope, counts, install, generation, memo, shown>>

Next ==
    \/ \E r \in Run, p \in Payload, b \in BOOLEAN : Begin(r, p, b)
    \/ \E r \in Run :
          \/ Count(r) \/ Enter(r) \/ Leave(r) \/ Uncount(r)
          \/ LooksForOverlay(r) \/ TakeInstallLock(r) \/ WrapRegistry(r)
          \/ PatchDefinitions(r) \/ PatchFails(r)
          \/ AsksDefinitions(r) \/ Submit(r)
    \/ \E c \in Context, n \in Name : Calls(c, n)

Spec == Init /\ [][Next]_vars

--------------------------------------------------------------------------------
(* Properties.                                                             *)

\* The state keeps its types, the overlay is put around the registry once, and
\* whoever installs it has the lock.
TypeOK ==
    /\ payload \in [Run -> Payload \cup {<<>>}] /\ stub \in [Run -> BOOLEAN]
    /\ pc \in [Run -> {"idle", "count", "ensure", "wait", "install", "patch",
                       "enter", "open", "cleanup", "done"}]
    /\ scope \in [Context -> Run \cup {NoRun}]
    /\ \A c \in Context : scope[c] \in {NoRun, c[1]}
    /\ counts \in [Name -> Nat]
    /\ layers \in 0..1
    /\ installer \in Run \cup {NoRun} /\ patched \in BOOLEAN
    /\ \A r \in Run : pc[r] \in {"install", "patch"} => installer = r
    /\ generation \in Nat
    /\ memo \in [generation : Nat, defs : SUBSET Definition, early : BOOLEAN]
    /\ shown \in [Run -> [asked : BOOLEAN, defs : SUBSET Definition, early : BOOLEAN]]

\* While the scope of a run is open, and in a worker to which it gave a call also
\* afterwards, every name its payload described reaches the tool described under it,
\* the last one if there are several and the placeholder if there is none; every
\* other name reaches Hermes's own.  What other runs registered under the same names
\* never matters.
CallReachesOwnHandler ==
    LET r == called.by
        Described == {i \in Kept(r) : called.name \in NamesOf(payload[r][i])}
    IN  r # NoRun =>
          IF called.name \in Names(r)
          THEN /\ called.name \notin BuiltIn
               /\ called.entry.owner = r
               /\ \/ Described = {} /\ called.entry.tool = Stub
                  \/ \E i \in Described : /\ called.entry.tool = payload[r][i]
                                         /\ \A j \in Described : j <= i
          ELSE called.entry = Own

\* A model that asked was shown Hermes's own tools and all of its run's that may be
\* shown, never another run's, and what Hermes remembers is no run's.  Excused is
\* only what a run in its scope was given out of memory while model_tools was not
\* patched, and what was remembered for it, for as long as that is used.
DefinitionsAreOwn ==
    /\ \A r \in Run : shown[r].asked /\ ~shown[r].early =>
          shown[r].defs = {<<NoRun, n>> : n \in BuiltIn}
                          \cup {<<r, n>> : n \in Names(r) \cap Visible}
    /\ ~memo.early => \A d \in memo.defs : d[1] = NoRun

\* Concurrent runs with the same tool names are kept apart: each calls its own tools
\* and its model sees its own definitions.
RunsAreApart == CallReachesOwnHandler /\ DefinitionsAreOwn

\* The state is well typed, and the counts are those of the runs that are between
\* counting and uncounting.
Consistent ==
    /\ TypeOK
    /\ \A n \in Name : counts[n] =
          Cardinality({r \in Run : /\ n \in Names(r)
                                   /\ pc[r] \notin {"idle", "count", "done"}})

================================================================================
