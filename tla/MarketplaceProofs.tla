--------------------------- MODULE MarketplaceProofs ---------------------------
(***************************************************************************)
(* Proofs about what the marketplace brings to an agent: the tools of a    *)
(* run, which are kept apart from those of concurrent runs and counted,    *)
(* and the local apps, whose processes the bridge keeps within its reach   *)
(* and whose calls it passes on once.                                      *)
(***************************************************************************)
EXTENDS ScopedTools, LocalApps, FiniteSetTheorems, WellFoundedInduction, TLAPS

--------------------------------------------------------------------------------
(* The entries of a run.                                                   *)

\* Of entries of one name there is a last one, and it is the one that is used.
LEMMA LastEntry ==
    ASSUME NEW r \in Run, payload[r] \in Seq(Tool), NEW n \in Name, Named(r, n) # {}
    PROVE  \E i \in Named(r, n) : /\ EntryOf(r, n) = payload[r][i]
                                 /\ \A j \in Named(r, n) : j <= i
<1> DEFINE len == Len(payload[r])
           T == {len - i : i \in Named(r, n)}
<1>1. len \in Nat /\ Kept(r) \subseteq 1..len /\ Named(r, n) \subseteq Kept(r)
  BY DEF Kept, Named
<1>2. T \subseteq Nat /\ T # {}
  BY <1>1
<1> HIDE DEF T
<1>3. PICK x \in T : \A y \in T : ~ (<<y, x>> \in OpToRel(<, Nat))
  BY <1>2, WFMin, NatLessThanWellFounded
<1>4. \A y \in T : x <= y
  <2> SUFFICES ASSUME NEW y \in T, ~ (x <= y) PROVE FALSE
    OBVIOUS
  <2>1. x \in Nat /\ y \in Nat /\ y < x
    BY <1>2
  <2>2. <<y, x>> \in OpToRel(<, Nat)
    BY <2>1 DEF OpToRel
  <2> QED BY <1>3, <2>2
<1>5. PICK i \in Named(r, n) : x = len - i
  BY DEF T
<1>6. \A j \in Named(r, n) : j <= i
  <2> SUFFICES ASSUME NEW j \in Named(r, n) PROVE j <= i
    OBVIOUS
  <2>1. i \in 1..len /\ j \in 1..len
    BY <1>1
  <2>2. len - i <= len - j
    BY <1>4, <1>5 DEF T
  <2> QED BY <1>1, <2>1, <2>2
<1> DEFINE last == CHOOSE k \in Named(r, n) : \A j \in Named(r, n) : j <= k
<1>7. last \in Named(r, n) /\ \A j \in Named(r, n) : j <= last
  BY <1>6
<1>8. EntryOf(r, n) = payload[r][last]
  BY DEF EntryOf
<1> HIDE DEF last
<1> QED BY <1>7, <1>8

LEMMA SameNames ==
    ASSUME NEW r \in Run, payload'[r] = payload[r], stub'[r] = stub[r]
    PROVE  Names(r)' = Names(r) /\ Kept(r)' = Kept(r)
<1>1. Kept(r)' = Kept(r)
  BY DEF Kept
<1> QED BY <1>1 DEF Names

--------------------------------------------------------------------------------
(* The inductive invariant.                                                *)

\* Whoever is about to patch has put the overlay around the registry.
InstallInv == \A r \in Run : pc[r] = "patch" => layers = 1

\* A scope is a run's own, of a run that has begun and has no name of Hermes's.
ScopeInv ==
    /\ \A c \in Context : scope[c] # NoRun =>
          /\ pc[c[1]] \in {"open", "cleanup", "done"}
          /\ Names(c[1]) \cap BuiltIn = {}
    /\ \A r \in Run : scope[<<r, "thread">>] # NoRun => pc[r] = "open"
    /\ \A r \in Run : pc[r] = "open" => scope[<<r, "thread">>] # NoRun \/ Names(r) = {}

\* The run that called has begun.
CallInv ==
    called.by # NoRun => called.by \in Run /\ pc[called.by] # "idle" /\ CallReachesOwnHandler

\* What Hermes remembers, when it was not remembered early, are its own tools, and
\* only runs that have begun have asked.
Builtins == {<<NoRun, n>> : n \in BuiltIn}
SeenInv ==
    /\ memo.early \/ memo.defs \in {{}, Builtins}
    /\ \A r \in Run : shown[r].asked => pc[r] # "idle"
    /\ DefinitionsAreOwn

\* The runs that have counted a name.
Users(n) == {r \in Run : n \in Names(r) /\ pc[r] \notin {"idle", "count", "done"}}
CountInv == \A n \in Name : counts[n] = Cardinality(Users(n))

NamesInv == \A r \in Run : payload[r] \in Seq(Tool)

IInv == TypeOK /\ NamesInv /\ InstallInv /\ ScopeInv /\ CallInv /\ SeenInv /\ CountInv

LEMMA InitInv == Init => IInv
<1> SUFFICES ASSUME Init PROVE IInv
  OBVIOUS
<1>1. TypeOK
  <2>1. payload \in [Run -> Payload \cup {<<>>}] /\ stub \in [Run -> BOOLEAN]
    BY DEF Init
  <2>2. scope \in [Context -> Run \cup {NoRun}] /\ \A c \in Context : scope[c] = NoRun
    BY DEF Init
  <2>3. /\ pc = [q \in Run |-> "idle"] /\ counts \in [Name -> Nat] /\ layers = 0
        /\ installer = NoRun /\ generation = 0 /\ patched \in BOOLEAN
    BY DEF Init
  <2>4. \A q \in Run : pc[q] = "idle"
    BY <2>3
  <2>5. pc \in [Run -> {"idle", "count", "ensure", "wait", "install", "patch",
                       "enter", "open", "cleanup", "done"}]
    BY <2>3
  <2>6. /\ memo \in [generation : Nat, defs : SUBSET Definition, early : BOOLEAN]
        /\ shown \in [Run -> [asked : BOOLEAN, defs : SUBSET Definition, early : BOOLEAN]]
    BY DEF Init
  <2> QED BY <2>1, <2>2, <2>3, <2>4, <2>5, <2>6 DEF TypeOK
<1>2. NamesInv /\ InstallInv /\ ScopeInv /\ CallInv /\ SeenInv
  BY DEF Init, NamesInv, InstallInv, ScopeInv, CallInv, SeenInv, DefinitionsAreOwn, Context
<1>3. CountInv
  <2>1. \A n \in Name : Users(n) = {}
    BY DEF Init, Users
  <2> QED BY <2>1, FS_EmptySet DEF Init, CountInv
<1> QED BY <1>1, <1>2, <1>3 DEF IInv

--------------------------------------------------------------------------------
(* Steps after which every run has the same names.                         *)

LEMMA Steady ==
    ASSUME UNCHANGED <<payload, stub>>
    PROVE  \A r \in Run : Names(r)' = Names(r) /\ Kept(r)' = Kept(r)
BY SameNames

\* The same runs have counted their names.
LEMMA SameUsers ==
    ASSUME IInv, UNCHANGED <<payload, stub, counts>>,
           \A r \in Run : pc'[r] \in {"idle", "count", "done"} <=>
                          pc[r] \in {"idle", "count", "done"}
    PROVE  CountInv'
<1>1. \A n \in Name : Users(n)' = Users(n)
  BY Steady DEF Users
<1> QED BY <1>1 DEF IInv, CountInv

\* The last call is as it was, and runs do not begin again.
LEMMA SameCalls ==
    ASSUME IInv, UNCHANGED <<payload, stub, called>>,
           \A r \in Run : pc[r] # "idle" => pc'[r] # "idle"
    PROVE  CallInv'
<1> SUFFICES ASSUME called.by # NoRun PROVE CallInv'
  BY DEF CallInv
<1>1. called.by \in Run /\ pc[called.by] # "idle" /\ CallReachesOwnHandler
  BY DEF IInv, CallInv
<1>2. /\ Names(called.by)' = Names(called.by) /\ Kept(called.by)' = Kept(called.by)
      /\ payload' = payload /\ called' = called
  BY <1>1, Steady
<1>3. CallReachesOwnHandler'
  BY <1>1, <1>2 DEF CallReachesOwnHandler
<1> QED BY <1>1, <1>3 DEF CallInv

\* So are the definitions.
LEMMA SameSeen ==
    ASSUME IInv, UNCHANGED <<payload, stub, memo, shown>>,
           \A r \in Run : pc[r] # "idle" => pc'[r] # "idle"
    PROVE  SeenInv'
BY Steady DEF IInv, SeenInv, DefinitionsAreOwn

LEMMA CountStep ==
    ASSUME IInv, NEW r \in Run, Count(r)
    PROVE  IInv'
<1>1. /\ pc[r] = "count" /\ pc' = [pc EXCEPT ![r] = "ensure"]
      /\ counts' = [n \in Name |-> IF n \in Names(r) THEN counts[n] + 1 ELSE counts[n]]
      /\ UNCHANGED <<payload, stub, scope, install, generation, seen>>
  BY DEF Count, Goto
<1>2. TypeOK'
  BY <1>1 DEF IInv, TypeOK, install, seen
<1>3. InstallInv' /\ NamesInv'
  BY <1>1 DEF IInv, TypeOK, InstallInv, NamesInv, install
<1>4. ScopeInv'
  BY <1>1, Steady DEF IInv, TypeOK, ScopeInv, Context
<1>5. CallInv' /\ SeenInv'
  BY <1>1, SameCalls, SameSeen DEF IInv, TypeOK, seen
<1>7. CountInv'
  <2> SUFFICES ASSUME NEW n \in Name PROVE counts'[n] = Cardinality(Users(n)')
    BY DEF CountInv
  <2>1. IsFiniteSet(Users(n))
    BY ScopedToolsAssumption, FS_Subset DEF Users
  <2>2. CASE n \in Names(r)
    <3>1. Users(n)' = Users(n) \cup {r} /\ r \notin Users(n)
      BY <1>1, <2>2, Steady DEF IInv, TypeOK, Users
    <3> QED BY <1>1, <2>1, <2>2, <3>1, FS_AddElement DEF IInv, CountInv
  <2>3. CASE n \notin Names(r)
    <3>1. Users(n)' = Users(n)
      BY <1>1, <2>3, Steady DEF IInv, TypeOK, Users
    <3> QED BY <1>1, <2>3, <3>1 DEF IInv, CountInv
  <2> QED BY <2>2, <2>3
<1> QED BY <1>2, <1>3, <1>4, <1>5, <1>7 DEF IInv

LEMMA UncountStep ==
    ASSUME IInv, NEW r \in Run, Uncount(r)
    PROVE  IInv'
<1>1. /\ pc[r] = "cleanup" /\ pc' = [pc EXCEPT ![r] = "done"]
      /\ counts' = [n \in Name |-> IF n \in Names(r) /\ counts[n] > 0
                                   THEN counts[n] - 1 ELSE counts[n]]
      /\ UNCHANGED <<payload, stub, scope, install, generation, seen>>
  BY DEF Uncount, Goto
<1>2. TypeOK'
  <2>1. \A n \in Name : counts'[n] \in Nat
    BY <1>1 DEF IInv, TypeOK
  <2>2. counts' \in [Name -> Nat]
    BY <1>1, <2>1
  <2> QED BY <1>1, <2>2 DEF IInv, TypeOK, install, seen
<1>3. InstallInv' /\ NamesInv'
  BY <1>1 DEF IInv, TypeOK, InstallInv, NamesInv, install
<1>4. ScopeInv'
  BY <1>1, Steady DEF IInv, TypeOK, ScopeInv, Context
<1>5. CallInv' /\ SeenInv'
  BY <1>1, SameCalls, SameSeen DEF IInv, TypeOK, seen
<1>7. CountInv'
  <2> SUFFICES ASSUME NEW n \in Name PROVE counts'[n] = Cardinality(Users(n)')
    BY DEF CountInv
  <2>1. IsFiniteSet(Users(n)) /\ Cardinality(Users(n)) \in Nat
    BY ScopedToolsAssumption, FS_Subset, FS_CardinalityType DEF Users
  <2>2. CASE n \in Names(r)
    <3>1. Users(n)' = Users(n) \ {r} /\ r \in Users(n)
      BY <1>1, <2>2, Steady DEF IInv, TypeOK, Users
    <3>2. counts[n] > 0
      BY <2>1, <3>1, FS_EmptySet DEF IInv, CountInv
    <3> QED BY <1>1, <2>1, <2>2, <3>1, <3>2, FS_RemoveElement DEF IInv, CountInv
  <2>3. CASE n \notin Names(r)
    <3>1. Users(n)' = Users(n)
      BY <1>1, <2>3, Steady DEF IInv, TypeOK, Users
    <3> QED BY <1>1, <2>3, <3>1 DEF IInv, CountInv
  <2> QED BY <2>2, <2>3
<1> QED BY <1>2, <1>3, <1>4, <1>5, <1>7 DEF IInv

--------------------------------------------------------------------------------
(* Beginning.                                                              *)

LEMMA BeginStep ==
    ASSUME IInv, NEW r \in Run, NEW p \in Payload, NEW l \in BOOLEAN, Begin(r, p, l)
    PROVE  IInv'
<1>1. /\ pc[r] = "idle" /\ payload' = [payload EXCEPT ![r] = p]
      /\ pc' = [pc EXCEPT ![r] = IF Names(r)' = {} THEN "open" ELSE "count"]
      /\ UNCHANGED <<scope, counts, install, generation, seen>>
  BY DEF Begin, Goto
<1>2. stub' \in [Run -> BOOLEAN] /\ \A s \in Run \ {r} : stub'[s] = stub[s]
  <2>1. stub \in [Run -> BOOLEAN]
    BY DEF IInv, TypeOK
  <2> DEFINE needs == l /\ \A n \in RealName, i \in Kept(r)' : n \notin NamesOf(p[i])
  <2>2. stub' = [stub EXCEPT ![r] = needs] /\ needs \in BOOLEAN
    BY Zenon DEF Begin
  <2> HIDE DEF needs
  <2> QED BY <2>1, <2>2
<1>3. \A s \in Run \ {r} : Names(s)' = Names(s) /\ Kept(s)' = Kept(s)
  BY <1>1, <1>2, SameNames DEF IInv, TypeOK
<1>4. pc' \in [Run -> {"idle", "count", "ensure", "wait", "install", "patch",
                       "enter", "open", "cleanup", "done"}]
  BY <1>1 DEF IInv, TypeOK
<1>5. \A s \in Run \ {r} : pc'[s] = pc[s]
  BY <1>1
<1>6. pc'[r] \in {"open", "count"} /\ (pc'[r] = "open" => Names(r)' = {})
  BY <1>1 DEF IInv, TypeOK
<1>7. TypeOK'
  <2>1. payload' \in [Run -> Payload \cup {<<>>}]
    BY <1>1 DEF IInv, TypeOK
  <2>2. \A s \in Run : pc'[s] \in {"install", "patch"} => installer' = s
    BY <1>1, <1>5, <1>6 DEF IInv, TypeOK, install, seen
  <2> QED BY <1>1, <1>2, <1>4, <2>1, <2>2 DEF IInv, TypeOK, install, seen
<1>8. NamesInv'
  BY <1>1, ScopedToolsAssumption DEF IInv, TypeOK, NamesInv
<1>9. InstallInv'
  BY <1>1, <1>5, <1>6 DEF IInv, InstallInv, install
<1>10. ScopeInv'
  <2>1. \A c \in Context : c[1] \in Run /\ (scope[c] # NoRun => c[1] # r)
    BY <1>1 DEF IInv, ScopeInv, Context
  <2>2. \A c \in Context : scope'[c] # NoRun =>
          /\ pc'[c[1]] \in {"open", "cleanup", "done"}
          /\ Names(c[1])' \cap BuiltIn = {}
    BY <1>1, <1>3, <1>5, <2>1 DEF IInv, ScopeInv
  <2>3. \A s \in Run : scope'[<<s, "thread">>] # NoRun => pc'[s] = "open"
    BY <1>1, <1>5, <1>6 DEF IInv, ScopeInv
  <2>4. \A s \in Run : pc'[s] = "open" =>
          scope'[<<s, "thread">>] # NoRun \/ Names(s)' = {}
    BY <1>1, <1>3, <1>5, <1>6 DEF IInv, ScopeInv
  <2> QED BY <2>2, <2>3, <2>4 DEF ScopeInv
<1>11. CallInv'
  <2> SUFFICES ASSUME called.by # NoRun PROVE CallInv'
    BY <1>1 DEF CallInv, seen
  <2>1. /\ called.by \in Run /\ pc[called.by] # "idle" /\ called.by # r
        /\ CallReachesOwnHandler
    BY <1>1 DEF IInv, CallInv
  <2>2. /\ payload'[called.by] = payload[called.by] /\ called' = called
        /\ Names(called.by)' = Names(called.by) /\ Kept(called.by)' = Kept(called.by)
    BY <1>1, <1>3, <2>1 DEF seen
  <2>3. CallReachesOwnHandler'
    BY <2>1, <2>2 DEF CallReachesOwnHandler
  <2> QED BY <1>5, <2>1, <2>2, <2>3 DEF CallInv
<1>12. SeenInv'
  <2>1. ~shown[r].asked
    BY <1>1 DEF IInv, SeenInv
  <2>2. \A s \in Run : shown[s].asked => s # r /\ pc'[s] # "idle" /\ Names(s)' = Names(s)
    BY <1>3, <1>5, <2>1 DEF IInv, SeenInv
  <2> QED BY <1>1, <2>2 DEF IInv, SeenInv, DefinitionsAreOwn, seen
<1>13. CountInv'
  <2>1. \A n \in Name : Users(n)' = Users(n)
    BY <1>1, <1>3, <1>5, <1>6 DEF Users
  <2> QED BY <1>1, <2>1 DEF IInv, CountInv
<1> QED BY <1>7, <1>8, <1>9, <1>10, <1>11, <1>12, <1>13 DEF IInv

--------------------------------------------------------------------------------
(* Scopes.                                                                 *)

LEMMA EnterStep ==
    ASSUME IInv, NEW r \in Run, Enter(r)
    PROVE  IInv'
<1>1. /\ pc[r] = "enter" /\ UNCHANGED <<payload, stub, counts, install, seen>>
      /\ pc' = [pc EXCEPT ![r] = IF Collides(r) THEN "cleanup" ELSE "open"]
  BY DEF Enter, Goto
<1>2. IF Collides(r)
      THEN UNCHANGED <<scope, generation>>
      ELSE /\ scope' = [scope EXCEPT ![<<r, "thread">>] = r]
           /\ generation' = generation + 1
  BY DEF Enter, Goto
<1>3. <<r, "thread">> \in Context
  BY DEF Context
<1>4. /\ scope' \in [Context -> Run \cup {NoRun}]
      /\ \A c \in Context : \/ scope'[c] = scope[c]
                            \/ c = <<r, "thread">> /\ scope'[c] = r /\ ~Collides(r)
  <2>1. scope \in [Context -> Run \cup {NoRun}]
    BY DEF IInv, TypeOK
  <2> QED BY <1>2, <1>3, <2>1
<1>5. \A s \in Run : pc'[s] = IF s # r THEN pc[s] ELSE IF Collides(r) THEN "cleanup" ELSE "open"
  BY <1>1 DEF IInv, TypeOK
<1>6. TypeOK'
  <2>1. \A c \in Context : scope'[c] \in {NoRun, c[1]}
    BY <1>4 DEF IInv, TypeOK
  <2>2. pc' \in [Run -> {"idle", "count", "ensure", "wait", "install", "patch",
                       "enter", "open", "cleanup", "done"}]
    BY <1>1 DEF IInv, TypeOK
  <2>3. \A s \in Run : pc'[s] \in {"install", "patch"} => installer' = s
    BY <1>1, <1>5 DEF IInv, TypeOK, install, seen
  <2>4. generation' \in Nat
    BY <1>2 DEF IInv, TypeOK
  <2> QED BY <1>1, <1>4, <2>1, <2>2, <2>3, <2>4 DEF IInv, TypeOK, install, seen
<1>7. InstallInv' /\ NamesInv'
  BY <1>1, <1>5 DEF IInv, InstallInv, NamesInv, install
<1>8. ScopeInv'
  <2>1. ASSUME NEW c \in Context, scope'[c] # NoRun
        PROVE  pc'[c[1]] \in {"open", "cleanup", "done"} /\ Names(c[1])' \cap BuiltIn = {}
    <3>1. c[1] \in Run
      BY DEF Context
    <3>2. CASE scope'[c] = scope[c]
      BY <1>1, <1>5, <2>1, <3>1, <3>2, Steady DEF IInv, ScopeInv
    <3>3. CASE c = <<r, "thread">> /\ ~Collides(r)
      BY <1>1, <1>5, <3>3, Steady DEF Collides
    <3> QED BY <1>4, <3>2, <3>3
  <2>2. ASSUME NEW s \in Run, scope'[<<s, "thread">>] # NoRun
        PROVE  pc'[s] = "open"
    <3>1. <<s, "thread">> \in Context
      BY DEF Context
    <3>2. CASE s = r
      BY <1>1, <1>4, <1>5, <2>2, <3>1, <3>2 DEF IInv, ScopeInv
    <3>3. CASE s # r
      BY <1>4, <1>5, <2>2, <3>1, <3>3 DEF IInv, ScopeInv
    <3> QED BY <3>2, <3>3
  <2>3. ASSUME NEW s \in Run, pc'[s] = "open"
        PROVE  scope'[<<s, "thread">>] # NoRun \/ Names(s)' = {}
    <3>1. <<s, "thread">> \in Context
      BY DEF Context
    <3>2. CASE s = r
      BY <1>2, <1>3, <1>5, <2>3, <3>2, ScopedToolsAssumption DEF IInv, TypeOK
    <3>3. CASE s # r
      BY <1>4, <1>5, <2>3, <3>1, <3>3, Steady, <1>1 DEF IInv, ScopeInv
    <3> QED BY <3>2, <3>3
  <2> QED BY <2>1, <2>2, <2>3 DEF ScopeInv
<1>9. CallInv' /\ SeenInv'
  BY <1>1, <1>5, SameCalls, SameSeen DEF seen
<1>11. CountInv'
  BY <1>1, <1>5, SameUsers
<1> QED BY <1>6, <1>7, <1>8, <1>9, <1>11 DEF IInv

LEMMA LeaveStep ==
    ASSUME IInv, NEW r \in Run, Leave(r)
    PROVE  IInv'
<1>1. /\ pc[r] = "open" /\ UNCHANGED <<payload, stub, counts, install, seen>>
      /\ pc' = [pc EXCEPT ![r] = IF scope[<<r, "thread">>] = NoRun THEN "done" ELSE "cleanup"]
  BY DEF Leave, Goto
<1>2. IF scope[<<r, "thread">>] = NoRun
      THEN UNCHANGED <<scope, generation>>
      ELSE /\ scope' = [scope EXCEPT ![<<r, "thread">>] = NoRun]
           /\ generation' = generation + 1
  BY DEF Leave, Goto
<1>3. <<r, "thread">> \in Context
  BY DEF Context
<1>4. /\ scope' \in [Context -> Run \cup {NoRun}]
      /\ scope'[<<r, "thread">>] = NoRun
      /\ \A c \in Context : c # <<r, "thread">> => scope'[c] = scope[c]
  BY <1>2, <1>3 DEF IInv, TypeOK
<1>5. /\ \A s \in Run \ {r} : pc'[s] = pc[s]
      /\ pc'[r] = IF scope[<<r, "thread">>] = NoRun THEN "done" ELSE "cleanup"
  BY <1>1 DEF IInv, TypeOK
<1>6. TypeOK'
  <2>1. \A c \in Context : scope'[c] \in {NoRun, c[1]}
    BY <1>4 DEF IInv, TypeOK
  <2>2. pc' \in [Run -> {"idle", "count", "ensure", "wait", "install", "patch",
                       "enter", "open", "cleanup", "done"}]
    BY <1>1 DEF IInv, TypeOK
  <2>3. \A s \in Run : pc'[s] \in {"install", "patch"} => installer' = s
    BY <1>1, <1>5 DEF IInv, TypeOK, install, seen
  <2>4. generation' \in Nat
    BY <1>2 DEF IInv, TypeOK
  <2> QED BY <1>1, <1>4, <2>1, <2>2, <2>3, <2>4 DEF IInv, TypeOK, install, seen
<1>7. InstallInv' /\ NamesInv'
  BY <1>1, <1>5 DEF IInv, InstallInv, NamesInv, install
<1>8. ScopeInv'
  <2>1. ASSUME NEW c \in Context, scope'[c] # NoRun
        PROVE  pc'[c[1]] \in {"open", "cleanup", "done"} /\ Names(c[1])' \cap BuiltIn = {}
    <3>1. c[1] \in Run /\ scope[c] # NoRun
      BY <1>4, <2>1 DEF Context
    <3> QED BY <1>1, <1>5, <3>1, Steady DEF IInv, ScopeInv
  <2>2. ASSUME NEW s \in Run
        PROVE  /\ scope'[<<s, "thread">>] # NoRun => pc'[s] = "open"
               /\ pc'[s] = "open" => scope'[<<s, "thread">>] # NoRun \/ Names(s)' = {}
    <3>1. <<s, "thread">> \in Context
      BY DEF Context
    <3>2. CASE s = r
      BY <1>4, <1>5, <3>2
    <3>3. CASE s # r
      BY <1>1, <1>4, <1>5, <3>1, <3>3, Steady DEF IInv, ScopeInv
    <3> QED BY <3>2, <3>3
  <2> QED BY <2>1, <2>2 DEF ScopeInv
<1>9. CallInv' /\ SeenInv'
  BY <1>1, <1>5, SameCalls, SameSeen DEF seen
<1>11. CountInv'
  <2>1. CASE scope[<<r, "thread">>] # NoRun
    BY <1>1, <1>5, <2>1, SameUsers
  <2>2. CASE scope[<<r, "thread">>] = NoRun
    <3>1. Names(r) = {}
      BY <1>1, <2>2 DEF IInv, ScopeInv
    <3>2. \A n \in Name : Users(n)' = Users(n)
      BY <1>5, <1>1, <3>1, Steady DEF Users
    <3> QED BY <1>1, <3>2 DEF IInv, CountInv
  <2> QED BY <2>1, <2>2
<1> QED BY <1>6, <1>7, <1>8, <1>9, <1>11 DEF IInv

--------------------------------------------------------------------------------
(* The installation of the overlay.                                        *)

\* A run goes on to another of these places; nothing but the installation changes.
LEMMA Installing ==
    ASSUME IInv, NEW r \in Run, NEW next \in {"wait", "install", "patch", "enter", "cleanup"},
           pc[r] \in {"ensure", "wait", "install", "patch"}, Goto(r, next),
           UNCHANGED <<payload, stub, scope, counts, generation, seen>>,
           installer' \in Run \cup {NoRun}, layers' \in 0..1, patched' \in BOOLEAN,
           \A s \in Run : pc'[s] \in {"install", "patch"} => installer' = s,
           InstallInv'
    PROVE  IInv'
<1>1. pc' = [pc EXCEPT ![r] = next]
  BY DEF Goto
<1>2. \A s \in Run : pc'[s] = IF s = r THEN next ELSE pc[s]
  BY <1>1 DEF IInv, TypeOK
<1>3. TypeOK'
  <2>1. pc' \in [Run -> {"idle", "count", "ensure", "wait", "install", "patch",
                       "enter", "open", "cleanup", "done"}]
    BY <1>1 DEF IInv, TypeOK
  <2> QED BY <2>1 DEF IInv, TypeOK, seen
<1>4. NamesInv'
  BY DEF IInv, NamesInv
<1>5. ScopeInv'
  <2>1. \A c \in Context : c[1] \in Run
    BY DEF Context
  <2>2. \A c \in Context : scope'[c] # NoRun =>
          /\ pc'[c[1]] \in {"open", "cleanup", "done"}
          /\ Names(c[1])' \cap BuiltIn = {}
    BY <1>2, <2>1, Steady DEF IInv, ScopeInv
  <2>3. \A s \in Run : /\ scope'[<<s, "thread">>] # NoRun => pc'[s] = "open"
                       /\ pc'[s] = "open" =>
                            scope'[<<s, "thread">>] # NoRun \/ Names(s)' = {}
    BY <1>2, Steady DEF IInv, ScopeInv
  <2> QED BY <2>2, <2>3 DEF ScopeInv
<1>6. CallInv' /\ SeenInv'
  BY <1>2, SameCalls, SameSeen DEF seen
<1>8. CountInv'
  BY <1>2, SameUsers
<1> QED BY <1>3, <1>4, <1>5, <1>6, <1>8 DEF IInv

LEMMA InstallationStep ==
    ASSUME IInv, NEW r \in Run,
           \/ LooksForOverlay(r) \/ TakeInstallLock(r) \/ WrapRegistry(r)
           \/ PatchDefinitions(r) \/ PatchFails(r)
    PROVE  IInv'
<1>0. \A next, s : s \in Run /\ Goto(r, next) => pc'[s] = IF s = r THEN next ELSE pc[s]
  BY DEF IInv, TypeOK, Goto
<1>1. CASE LooksForOverlay(r)
  <2> DEFINE next == IF layers > 0 THEN "enter" ELSE "wait"
  <2>1. /\ pc[r] = "ensure" /\ Goto(r, next)
        /\ UNCHANGED <<payload, stub, scope, counts, install, generation, seen>>
    BY <1>1 DEF LooksForOverlay
  <2>2. InstallInv' /\ \A s \in Run : pc'[s] \in {"install", "patch"} => installer' = s
    BY <1>0, <2>1 DEF IInv, TypeOK, InstallInv, install
  <2> QED BY <2>1, <2>2, Installing DEF IInv, TypeOK, install, seen
<1>2. CASE TakeInstallLock(r)
  <2>1. /\ pc[r] = "wait" /\ Goto(r, "install") /\ installer = NoRun /\ installer' = r
        /\ UNCHANGED <<payload, stub, scope, counts, layers, patched, generation, seen>>
    BY <1>2 DEF TakeInstallLock
  <2>2. InstallInv' /\ \A s \in Run : pc'[s] \in {"install", "patch"} => installer' = s
    BY <1>0, <2>1, ScopedToolsAssumption DEF IInv, TypeOK, InstallInv
  <2> QED BY <2>1, <2>2, Installing DEF IInv, TypeOK
<1>3. CASE WrapRegistry(r) /\ layers > 0
  <2>1. /\ pc[r] = "install" /\ Goto(r, "enter") /\ installer' = NoRun
        /\ UNCHANGED <<payload, stub, scope, counts, layers, patched, generation, seen>>
    BY <1>3 DEF WrapRegistry
  <2>2. InstallInv' /\ \A s \in Run : pc'[s] \in {"install", "patch"} => installer' = s
    BY <1>0, <2>1 DEF IInv, TypeOK, InstallInv
  <2> QED BY <2>1, <2>2, Installing DEF IInv, TypeOK
<1>4. CASE WrapRegistry(r) /\ ~(layers > 0)
  <2>1. /\ pc[r] = "install" /\ Goto(r, "patch") /\ layers' = layers + 1
        /\ UNCHANGED <<payload, stub, scope, counts, installer, patched, generation, seen>>
    BY <1>4 DEF WrapRegistry
  <2>2. layers = 0
    BY <1>4 DEF IInv, TypeOK
  <2>3. InstallInv' /\ \A s \in Run : pc'[s] \in {"install", "patch"} => installer' = s
    BY <1>0, <2>1, <2>2 DEF IInv, TypeOK, InstallInv
  <2> QED BY <2>1, <2>2, <2>3, Installing DEF IInv, TypeOK
<1>5. CASE PatchDefinitions(r)
  <2>1. /\ pc[r] = "patch" /\ Goto(r, "enter") /\ patched' = TRUE /\ installer' = NoRun
        /\ UNCHANGED <<payload, stub, scope, counts, layers, generation, seen>>
    BY <1>5 DEF PatchDefinitions
  <2>0. \A s \in Run : pc[s] \in {"install", "patch"} => installer = s
    BY DEF IInv, TypeOK
  <2>2. InstallInv' /\ \A s \in Run : pc'[s] \in {"install", "patch"} => installer' = s
    BY <1>0, <2>0, <2>1 DEF IInv, InstallInv
  <2> QED BY <2>1, <2>2, Installing DEF IInv, TypeOK
<1>6. CASE PatchFails(r)
  <2>1. /\ pc[r] = "patch" /\ Goto(r, "cleanup") /\ installer' = NoRun
        /\ UNCHANGED <<payload, stub, scope, counts, layers, patched, generation, seen>>
    BY <1>6 DEF PatchFails
  <2>0. \A s \in Run : pc[s] \in {"install", "patch"} => installer = s
    BY DEF IInv, TypeOK
  <2>2. InstallInv' /\ \A s \in Run : pc'[s] \in {"install", "patch"} => installer' = s
    BY <1>0, <2>0, <2>1 DEF IInv, InstallInv
  <2> QED BY <2>1, <2>2, Installing DEF IInv, TypeOK
<1> QED BY <1>1, <1>2, <1>3, <1>4, <1>5, <1>6

--------------------------------------------------------------------------------
(* The agents.                                                             *)

LEMMA AsksDefinitionsStep ==
    ASSUME IInv, NEW r \in Run, AsksDefinitions(r)
    PROVE  IInv'
<1> DEFINE c == <<r, "thread">>
           early == ~patched /\ scope[c] # NoRun
           fresh == patched /\ scope[c] # NoRun
           recalled == ~fresh /\ Remembered
<1>1. /\ pc[r] = "open"
      /\ memo' = IF fresh \/ Remembered THEN memo
                 ELSE [generation |-> generation, defs |-> Snapshot(c), early |-> early]
      /\ shown' = [shown EXCEPT ![r] =
                     IF recalled
                     THEN [asked |-> TRUE, defs |-> memo.defs, early |-> early \/ memo.early]
                     ELSE [asked |-> TRUE, defs |-> Snapshot(c), early |-> FALSE]]
      /\ UNCHANGED <<payload, stub, pc, scope, counts, install, generation, called>>
  BY DEF AsksDefinitions, Asks
<1>2. c \in Context
  BY DEF Context
<1>3. TypeOK' /\ NamesInv' /\ InstallInv'
  <2> DEFINE snapshot == Snapshot(c)
  <2>1. snapshot \in SUBSET Definition
    <3>1. \A n : n \in BuiltIn \/ n \in Visible => n \in Name
      BY ScopedToolsAssumption
    <3>2. scope[c] \in Run \cup {NoRun}
      BY <1>2 DEF IInv, TypeOK
    <3> QED BY <3>1, <3>2 DEF Snapshot, Definition
  <2>2. early \in BOOLEAN /\ memo.early \in BOOLEAN /\ generation \in Nat
    BY DEF IInv, TypeOK
  <2> DEFINE recall == [asked |-> TRUE, defs |-> memo.defs, early |-> early \/ memo.early]
             remember == [generation |-> generation, defs |-> snapshot, early |-> early]
             look == [asked |-> TRUE, defs |-> snapshot, early |-> FALSE]
             Shown == [asked : BOOLEAN, defs : SUBSET Definition, early : BOOLEAN]
             Memo == [generation : Nat, defs : SUBSET Definition, early : BOOLEAN]
  <2>3. memo \in Memo /\ shown \in [Run -> Shown]
    BY DEF IInv, TypeOK
  <2>4. recall \in Shown /\ look \in Shown /\ remember \in Memo
    <3> HIDE DEF snapshot, early
    <3> QED BY <2>1, <2>2, <2>3
  <2>5. /\ memo' = memo \/ memo' = remember
        /\ \/ shown' = [shown EXCEPT ![r] = recall]
           \/ shown' = [shown EXCEPT ![r] = look]
    BY <1>1
  <2> HIDE DEF recall, remember, look, Shown, Memo
  <2>6. memo' \in Memo /\ shown' \in [Run -> Shown]
    BY <2>3, <2>4, <2>5
  <2> QED BY <1>1, <2>6 DEF IInv, TypeOK, NamesInv, InstallInv, install, Shown, Memo
<1>4. ScopeInv'
  BY <1>1, Steady DEF IInv, ScopeInv, Context
<1>5. CallInv' /\ CountInv'
  BY <1>1, SameCalls, SameUsers
<1>6. SeenInv'
  <2> DEFINE mine == {<<r, n>> : n \in Names(r) \cap Visible}
  <2>1. Snapshot(c) = Builtins \cup mine
    <3>1. scope[c] = r \/ (scope[c] = NoRun /\ Names(r) = {})
      BY <1>1, <1>2 DEF IInv, TypeOK, ScopeInv
    <3>2. CASE scope[c] = r
      BY <3>2, ScopedToolsAssumption DEF Snapshot, Builtins
    <3>3. CASE scope[c] = NoRun /\ Names(r) = {}
      BY <3>3 DEF Snapshot, Builtins
    <3> QED BY <3>1, <3>2, <3>3
  <2>2. scope[c] = NoRun => mine = {} /\ Snapshot(c) = Builtins
    BY <1>1, <2>1 DEF IInv, ScopeInv
  <2> DEFINE snapshot == Snapshot(c)
  <2>3. memo'.early \/ memo'.defs \in {{}, Builtins}
    <3>1. CASE fresh \/ Remembered
      BY <1>1, <3>1 DEF IInv, SeenInv
    <3>2. CASE ~fresh /\ ~Remembered
      <4>1. memo' = [generation |-> generation, defs |-> snapshot, early |-> early]
        BY <1>1, <3>2
      <4>2. early \/ scope[c] = NoRun
        BY <3>2
      <4> HIDE DEF early, fresh, snapshot
      <4> QED BY <2>2, <4>1, <4>2 DEF snapshot
    <3> QED BY <3>1, <3>2
  <2>4. shown'[r].early \/ shown'[r].defs = Builtins \cup mine
    <3>0. /\ recalled => shown'[r] = [asked |-> TRUE, defs |-> memo.defs,
                                     early |-> early \/ memo.early]
          /\ ~recalled => shown'[r] = [asked |-> TRUE, defs |-> snapshot, early |-> FALSE]
      BY <1>1 DEF IInv, TypeOK
    <3>1. CASE recalled
      <4>1. early \/ scope[c] = NoRun
        BY <3>1
      <4>2. memo.early \/ memo.defs = Builtins
        BY <3>1 DEF IInv, SeenInv, Remembered
      <4> HIDE DEF early, fresh, recalled, mine
      <4>3. shown'[r].defs = memo.defs /\ shown'[r].early = (early \/ memo.early)
        BY <3>0, <3>1
      <4> QED BY <2>2, <4>1, <4>2, <4>3
    <3>2. CASE ~recalled
      <4>1. shown'[r].defs = snapshot
        BY <3>0, <3>2
      <4> HIDE DEF recalled, mine
      <4> QED BY <2>1, <4>1
    <3> QED BY <3>1, <3>2
  <2>5. \A s \in Run \ {r} : shown'[s] = shown[s]
    BY <1>1
  <2>6. \A s \in Run : Names(s)' = Names(s) /\ pc'[s] = pc[s]
    BY <1>1, Steady
  <2>7. \A s \in Run : shown'[s].asked => pc'[s] # "idle"
    BY <1>1, <2>5, <2>6 DEF IInv, SeenInv
  <2>8. \A d \in Builtins : d[1] = NoRun
    BY DEF Builtins
  <2>9. DefinitionsAreOwn'
    <3>1. ASSUME NEW s \in Run, shown'[s].asked, ~shown'[s].early
          PROVE  shown'[s].defs = Builtins \cup {<<s, n>> : n \in Names(s)' \cap Visible}
      <4>1. CASE s = r
        BY <2>4, <2>6, <3>1, <4>1
      <4>2. CASE s # r
        BY <2>5, <2>6, <3>1, <4>2 DEF IInv, SeenInv, DefinitionsAreOwn, Builtins
      <4> QED BY <4>1, <4>2
    <3>2. ~memo'.early => \A d \in memo'.defs : d[1] = NoRun
      BY <2>3, <2>8
    <3> QED BY <3>1, <3>2 DEF DefinitionsAreOwn, Builtins
  <2>10. Builtins' = Builtins
    BY DEF Builtins
  <2> QED BY <2>3, <2>7, <2>9, <2>10 DEF SeenInv
<1> QED BY <1>3, <1>4, <1>5, <1>6 DEF IInv

LEMMA SubmitStep ==
    ASSUME IInv, NEW r \in Run, Submit(r)
    PROVE  IInv'
<1>1. /\ pc[r] = "open"
      /\ scope' = [scope EXCEPT ![<<r, "worker">>] = scope[<<r, "thread">>]]
      /\ UNCHANGED <<payload, stub, pc, counts, install, generation, seen>>
  BY DEF Submit
<1>2. /\ <<r, "worker">> \in Context /\ <<r, "thread">> \in Context
      /\ \A s \in Run : <<s, "thread">> \in Context /\ <<s, "thread">> # <<r, "worker">>
  BY DEF Context
<1>3. \A c \in Context :
        scope'[c] = IF c = <<r, "worker">> THEN scope[<<r, "thread">>] ELSE scope[c]
  BY <1>1 DEF IInv, TypeOK
<1>4. TypeOK'
  <2>1. scope' \in [Context -> Run \cup {NoRun}]
    BY <1>1, <1>2 DEF IInv, TypeOK
  <2>2. \A c \in Context : scope'[c] \in {NoRun, c[1]}
    BY <1>2, <1>3 DEF IInv, TypeOK
  <2> QED BY <1>1, <2>1, <2>2 DEF IInv, TypeOK, install, seen
<1>5. NamesInv' /\ InstallInv'
  BY <1>1 DEF IInv, NamesInv, InstallInv, install
<1>6. ScopeInv'
  <2>1. ASSUME NEW c \in Context, scope'[c] # NoRun
        PROVE  pc'[c[1]] \in {"open", "cleanup", "done"} /\ Names(c[1])' \cap BuiltIn = {}
    <3>0. c[1] \in Run
      BY DEF Context
    <3>1. CASE c = <<r, "worker">>
      BY <1>1, <1>2, <1>3, <2>1, <3>1, Steady DEF IInv, ScopeInv
    <3>2. CASE c # <<r, "worker">>
      BY <1>1, <1>3, <2>1, <3>0, <3>2, Steady DEF IInv, ScopeInv
    <3> QED BY <3>1, <3>2
  <2>2. \A s \in Run : scope'[<<s, "thread">>] = scope[<<s, "thread">>]
    BY <1>2, <1>3
  <2> QED BY <1>1, <2>1, <2>2, Steady DEF IInv, ScopeInv
<1>7. CallInv' /\ SeenInv' /\ CountInv'
  BY <1>1, SameCalls, SameSeen, SameUsers DEF seen
<1> QED BY <1>4, <1>5, <1>6, <1>7 DEF IInv

LEMMA CallsStep ==
    ASSUME IInv, NEW c \in Context, NEW n \in Name, Calls(c, n)
    PROVE  IInv'
<1>1. /\ called' = [by |-> c[1], name |-> n, entry |-> Resolve(c, n)]
      /\ UNCHANGED <<payload, stub, pc, scope, counts, install, generation, memo, shown>>
  BY DEF Calls
<1>2. TypeOK' /\ NamesInv' /\ InstallInv'
  BY <1>1 DEF IInv, TypeOK, NamesInv, InstallInv, install, seen
<1>3. ScopeInv'
  BY <1>1, Steady DEF IInv, ScopeInv, Context
<1>4. CountInv'
  BY <1>1, SameUsers
<1>5. SeenInv'
  BY <1>1, SameSeen
<1>6. CallInv'
  <2> DEFINE r == c[1]
             entry == Resolve(c, n)
  <2>1. r \in Run /\ r # NoRun
    BY ScopedToolsAssumption DEF Context
  <2>2. pc[r] # "idle" /\ (scope[c] = r \/ (scope[c] = NoRun /\ Names(r) = {}))
    <3>1. CASE c[2] = "thread"
      <4>1. c = <<r, "thread">> /\ pc[r] = "open"
        BY <3>1 DEF Calls, Context
      <4> QED BY <2>1, <4>1 DEF IInv, TypeOK, ScopeInv
    <3>2. CASE c[2] # "thread"
      <4>1. scope[c] # NoRun
        BY <3>2 DEF Calls
      <4> QED BY <4>1 DEF IInv, TypeOK, ScopeInv
    <3> QED BY <3>1, <3>2
  <2>3. ASSUME n \notin Names(r) PROVE entry = Own
    BY <2>1, <2>2, <2>3 DEF Resolve
  <2>4. ASSUME n \in Names(r)
        PROVE  /\ n \notin BuiltIn /\ entry.owner = r
               /\ \/ Named(r, n) = {} /\ entry.tool = Stub
                  \/ \E i \in Named(r, n) : /\ entry.tool = payload[r][i]
                                            /\ \A j \in Named(r, n) : j <= i
    <3>1. scope[c] = r
      BY <2>2, <2>4
    <3>2. entry = [owner |-> r, tool |-> EntryOf(r, n)]
      BY <2>1, <2>4, <3>1 DEF Resolve
    <3>3. n \notin BuiltIn
      BY <2>1, <2>4, <3>1 DEF IInv, ScopeInv
    <3>4. CASE Named(r, n) = {}
      <4>1. EntryOf(r, n) = Stub
        BY <3>4 DEF EntryOf
      <4> QED BY <3>2, <3>3, <3>4, <4>1
    <3>5. CASE Named(r, n) # {}
      <4>1. \E i \in Named(r, n) : /\ EntryOf(r, n) = payload[r][i]
                                 /\ \A j \in Named(r, n) : j <= i
        BY <2>1, <3>5, LastEntry DEF IInv, NamesInv
      <4> QED BY <3>2, <3>3, <4>1
    <3> QED BY <3>4, <3>5
  <2> HIDE DEF r, entry
  <2>5. /\ called'.by = r /\ called'.name = n /\ called'.entry = entry
        /\ payload' = payload /\ Names(r)' = Names(r) /\ Kept(r)' = Kept(r) /\ pc' = pc
    BY <1>1, <2>1, Steady DEF r, entry
  <2>6. CallReachesOwnHandler'
    BY <2>3, <2>4, <2>5 DEF CallReachesOwnHandler, Named
  <2> QED BY <2>1, <2>2, <2>5, <2>6 DEF CallInv
<1> QED BY <1>2, <1>3, <1>4, <1>5, <1>6 DEF IInv

LEMMA InductiveStep == IInv /\ [Next]_vars => IInv'
<1> SUFFICES ASSUME IInv, [Next]_vars PROVE IInv'
  OBVIOUS
<1>1. CASE UNCHANGED vars
  <2>1. TypeOK' /\ NamesInv' /\ InstallInv'
    BY <1>1 DEF vars, IInv, TypeOK, NamesInv, InstallInv
  <2>2. ScopeInv'
    BY <1>1, Steady DEF vars, IInv, ScopeInv, Context
  <2>3. CallInv' /\ SeenInv' /\ CountInv'
    BY <1>1, SameCalls, SameSeen, SameUsers DEF vars
  <2> QED BY <2>1, <2>2, <2>3 DEF IInv
<1>2. CASE \E r \in Run, p \in Payload, l \in BOOLEAN : Begin(r, p, l)
  BY <1>2, BeginStep
<1>3. ASSUME NEW r \in Run,
             \/ Count(r) \/ Enter(r) \/ Leave(r) \/ Uncount(r)
             \/ LooksForOverlay(r) \/ TakeInstallLock(r) \/ WrapRegistry(r)
             \/ PatchDefinitions(r) \/ PatchFails(r)
             \/ AsksDefinitions(r) \/ Submit(r)
      PROVE  IInv'
  BY <1>3, CountStep, EnterStep, LeaveStep, UncountStep, InstallationStep,
     AsksDefinitionsStep, SubmitStep
<1>4. CASE \E c \in Context, n \in Name : Calls(c, n)
  BY <1>4, CallsStep
<1> QED BY <1>1, <1>2, <1>3, <1>4 DEF Next

--------------------------------------------------------------------------------
\* The inductive invariant holds in every reachable state.
THEOREM Invariance == Spec => []IInv
BY InitInv, InductiveStep, PTL DEF Spec

\* The overlay is put around the registry once, its installer has the lock, and the
\* counts are those of the runs that are using a name, for any number of runs.
THEOREM Consistency == Spec => []Consistent
<1>1. IInv => Consistent
  BY DEF IInv, CountInv, Users, Consistent
<1> QED BY <1>1, Invariance, PTL

\* For any number of runs and any payloads: a call by a name the payload of its run
\* described reaches the tool described under that name, every other call Hermes's own
\* or nothing, and a model is shown Hermes's tools and its run's, unless it was given,
\* before model_tools was patched, what Hermes remembered.
THEOREM Apart == Spec => []RunsAreApart
<1>1. IInv => RunsAreApart
  BY DEF IInv, CallInv, SeenInv, RunsAreApart, CallReachesOwnHandler
<1> QED BY <1>1, Invariance, PTL

--------------------------------------------------------------------------------
(***************************************************************************)
(*                            LOCAL APPS                                   *)
(***************************************************************************)

(***************************************************************************)
(* The inductive invariant.                                                *)
(***************************************************************************)

\* The maps and the processes: no process is out of reach of the manager it has.
MapInv ==
    /\ processes \in [Manager -> [Key -> Process \cup {NoProcess}]]
    /\ proc \in [Process -> ProcState]
    /\ LiveProcessIsInTheMap

\* A request whose process was started waits for that process, and the app has
\* handled a request that is still being served only if it turned it away, which
\* cannot have happened before its first attempt.
LoopInv ==
    /\ loop \in LoopState
    /\ loop.at \in {"settle", "wait"} => loop.process # NoProcess
    /\ loop.look \in {"started", "waiting"} => loop.process # NoProcess
    /\ loop.handled = (IF loop.turned THEN 1 ELSE 0)
    /\ loop.at = "call" /\ ~loop.again => ~loop.turned

\* The answer agrees with what the app did.
AnswerInv == answer.handled \in 0 .. 2 /\ CallIsHandledOnce

\* A dispatch that searches for a command or starts it has one of its startup order.
OrderInv ==
    /\ run \in [Dispatch -> RunState]
    /\ \A r \in Dispatch :
         /\ run[r].next >= 1
         /\ run[r].at \in {"scan", "start"} => run[r].next <= Len(Startup[AppOf[r]])

AppsInv == MapInv /\ LoopInv /\ AnswerInv /\ OrderInv /\ events \in 0 .. MaxEvents

--------------------------------------------------------------------------------
(* Requests.                                                               *)

LEMMA IdleFields ==
    /\ Idle \in LoopState /\ Idle.at = "idle" /\ Idle.look = "first"
    /\ Idle.handled = 0 /\ Idle.turned = FALSE
  <1>1. (CHOOSE a \in App : TRUE) \in App
    BY LocalAppsAssumption
  <1>2. Unseen \in Status
    BY DEF Unseen, Status
  <1> QED BY <1>1, <1>2 DEF Idle, LoopState, Refusals

\* A request is answered with what agrees with what the app did.
LEMMA AnsweredTo ==
    ASSUME NEW l, NEW code, AnswerTo(l, code),
           l.handled \in 0 .. IF l.turned THEN 2 ELSE 1,
           code \in Responses => l.handled >= 1,
           code \notin Responses \cup {"linkcrest_timeout", "source_host_proxy_failed"}
             /\ ~l.turned => l.handled = 0
    PROVE  LoopInv' /\ AnswerInv'
  <1>1. loop' = Idle
    BY DEF AnswerTo
  <1>2. \/ answer' = NoAnswer
        \/ answer' = [code |-> code, handled |-> l.handled, turned |-> l.turned]
    BY DEF AnswerTo
  <1>3. LoopInv'
    BY <1>1, IdleFields DEF LoopInv
  <1>4. AnswerInv'
    BY <1>2 DEF AnswerInv, CallIsHandledOnce, NoAnswer, Responses
  <1> QED BY <1>3, <1>4

\* An answer that has no response of the app.
LEMMA Answered ==
    ASSUME LoopInv, NEW code, Answer(code), code \notin Responses
    PROVE  LoopInv' /\ AnswerInv'
  BY AnsweredTo DEF Answer, LoopInv

\* The request was not sent, or the app turned it away.
LEMMA NotSentLoop ==
    ASSUME LoopInv, AnswerInv, NEW l \in LoopState, NotSent(l), l.process = loop.process,
           l.handled \in 0 .. 2, ~l.turned => l.handled = 0,
           ~l.again => l.handled = (IF l.turned THEN 1 ELSE 0)
    PROVE  LoopInv' /\ AnswerInv'
  <1>1. l.handled \in 0 .. IF l.turned THEN 2 ELSE 1
    OBVIOUS
  <1>2. ASSUME NEW code \in {"app_still_unreachable", "linkcrest_unreachable",
                             "linkcrest_timeout"}, AnswerTo(l, code)
        PROVE  LoopInv' /\ AnswerInv'
    <2>1. code \notin Responses
      BY <1>2 DEF Responses
    <2> QED BY <1>1, <1>2, <2>1, AnsweredTo
  <1>3. CASE ~l.again /\ loop' = LookFor(l, "first") /\ UNCHANGED answer
    <2>1. loop' = [l EXCEPT !.at = "ports", !.look = "first", !.seen = Unseen, !.keys = {}]
      BY <1>3 DEF LookFor
    <2>2. Unseen \in Status
      BY DEF Unseen, Status
    <2>3. /\ loop' \in LoopState /\ loop'.at = "ports" /\ loop'.look = "first"
          /\ loop'.handled = l.handled /\ loop'.turned = l.turned
      BY <2>1, <2>2 DEF LoopState
    <2> QED BY <1>3, <2>3 DEF LoopInv, AnswerInv, CallIsHandledOnce
  <1> QED BY <1>2, <1>3 DEF NotSent

LEMMA Resulted ==
    ASSUME LoopInv, AnswerInv, NEW code, Result(code), code \notin Responses
    PROVE  LoopInv' /\ AnswerInv'
  <1>1. CASE Answer(code)
    BY <1>1, Answered
  <1>2. CASE Answer("runtime_recovery_failed")
    BY <1>2, Answered DEF Responses
  <1>3. CASE /\ loop' = [Idle EXCEPT !.at = "call", !.kind = "call", !.again = TRUE,
                            !.app = loop.app, !.handled = loop.handled,
                            !.turned = loop.turned]
             /\ answer' = answer
    <2>1. loop.app \in App /\ loop.handled \in 0 .. 2 /\ loop.turned \in BOOLEAN
      BY DEF LoopInv, LoopState
    <2>2. /\ loop' \in LoopState /\ loop'.at = "call" /\ loop'.look = "first"
          /\ loop'.again = TRUE
          /\ loop'.handled = loop.handled /\ loop'.turned = loop.turned
      BY <1>3, <2>1, IdleFields DEF LoopState
    <2> QED BY <1>3, <2>2 DEF LoopInv, AnswerInv, CallIsHandledOnce
  <1> QED BY <1>1, <1>2, <1>3 DEF Result

LEMMA Looks ==
    ASSUME LoopInv, AnswerInv, NEW which \in {"first", "adopt", "started", "waiting"},
           which \in {"started", "waiting"} => loop.process # NoProcess,
           loop' = Look(which), UNCHANGED answer
    PROVE  LoopInv' /\ AnswerInv'
  <1>1. Unseen \in Status
    BY DEF Unseen, Status
  <1>2. loop' = [loop EXCEPT !.at = "ports", !.look = which, !.seen = Unseen, !.keys = {}]
    BY DEF Look, LookFor
  <1>3. loop' \in LoopState
    BY <1>1, <1>2 DEF LoopInv, LoopState
  <1>4. /\ loop'.process = loop.process /\ loop'.at = "ports" /\ loop'.look = which
        /\ loop'.handled = loop.handled /\ loop'.turned = loop.turned
    BY <1>2 DEF LoopInv, LoopState
  <1> QED BY <1>3, <1>4 DEF LoopInv, AnswerInv, CallIsHandledOnce

LEMMA RefusalType == \A f : Refusal(f) \in Refusals
  BY DEF Refusal, Verdict, Refusals

LEMMA ReceiveActionLoop ==
    ASSUME LoopInv, NEW kind, NEW a \in App, NEW f, ReceiveAction(kind, a, f)
    PROVE  LoopInv' /\ AnswerInv'
  <1>1. answer' = NoAnswer
    BY DEF ReceiveAction
  <1>2. AnswerInv'
    BY <1>1 DEF AnswerInv, CallIsHandledOnce, NoAnswer, Responses
  <1>3. CASE loop' = loop
    BY <1>2, <1>3 DEF LoopInv
  <1>4. CASE loop' # loop
    <2> DEFINE k == IF kind = "restart" THEN "ensure" ELSE kind
               g == IF kind = "restart" /\ f.repo /\ SameText(f.shape)
                    THEN "kill" ELSE "ports"
    <2>1. loop' = [Idle EXCEPT !.kind = k, !.app = a, !.refusal = Refusal(f), !.at = g]
      BY <1>4 DEF ReceiveAction
    <2>2. k \in {"status", "ensure"} /\ g \in {"kill", "ports"}
      BY DEF ReceiveAction
    <2> HIDE DEF k, g
    <2>3. loop' \in LoopState
      BY <2>1, <2>2, IdleFields, RefusalType DEF LoopState
    <2>4. /\ loop'.at \in {"kill", "ports"} /\ loop'.look = "first"
          /\ loop'.handled = 0 /\ loop'.turned = FALSE
      BY <2>1, <2>2, IdleFields DEF LoopState
    <2> QED BY <1>2, <2>3, <2>4 DEF LoopInv
  <1> QED BY <1>3, <1>4

LEMMA ReceiveCallLoop ==
    ASSUME LoopInv, NEW a \in App, NEW f, NEW q, ReceiveCall(a, f, q)
    PROVE  LoopInv' /\ AnswerInv'
  <1>1. CASE Rejection(q) # "none"
    <2>1. loop' = loop /\ answer' = [NoAnswer EXCEPT !.code = Rejection(q)]
      BY <1>1 DEF ReceiveCall
    <2>2. Rejection(q) \notin Responses
      BY DEF Rejection, Responses
    <2>3. AnswerInv'
      BY <2>1, <2>2 DEF AnswerInv, CallIsHandledOnce, NoAnswer
    <2> QED BY <2>1, <2>3 DEF LoopInv
  <1>2. CASE Rejection(q) = "none"
    <2>1. /\ loop' = [Idle EXCEPT !.kind = "call", !.app = a, !.refusal = Refusal(f),
                                  !.at = "call"]
          /\ answer' = NoAnswer
      BY <1>2 DEF ReceiveCall
    <2>2. loop' \in LoopState
      BY <2>1, IdleFields, RefusalType DEF LoopState
    <2>3. loop'.at = "call" /\ loop'.look = "first" /\ loop'.handled = 0
          /\ loop'.turned = FALSE
      BY <2>1, IdleFields DEF LoopState
    <2>4. AnswerInv'
      BY <2>1 DEF AnswerInv, CallIsHandledOnce, NoAnswer, Responses
    <2> QED BY <2>2, <2>3, <2>4 DEF LoopInv
  <1> QED BY <1>1, <1>2

LEMMA LookAtPortsLoop ==
    ASSUME LoopInv, AnswerInv, LookAtPorts
    PROVE  LoopInv' /\ AnswerInv'
  <1>1. PICK b \in Backend :
           loop' = [loop EXCEPT !.at = "urls",
                      !.seen = [Unseen EXCEPT !.port = Serving(loop.app, 1) /\ b # "down",
                                              !.backend = b]]
    BY DEF LookAtPorts
  <1> DEFINE s == [Unseen EXCEPT !.port = Serving(loop.app, 1) /\ b # "down", !.backend = b]
  <1>2. s \in Status
    <2>1. (Serving(loop.app, 1) /\ b # "down") \in BOOLEAN
      OBVIOUS
    <2>2. b \in {"none", "up", "down"}
      BY LocalAppsAssumption
    <2> QED BY <2>1, <2>2 DEF Unseen, Status
  <1> HIDE DEF s
  <1>3. loop' = [loop EXCEPT !.at = "urls", !.seen = s]
    BY <1>1 DEF s
  <1>4. /\ loop' \in LoopState /\ loop'.process = loop.process
          /\ loop'.handled = loop.handled /\ loop'.turned = loop.turned
        /\ loop'.at = "urls" /\ loop'.look = loop.look
    BY <1>2, <1>3 DEF LoopInv, LoopState
  <1> QED BY <1>4 DEF LookAtPorts, LoopInv, AnswerInv, CallIsHandledOnce

LEMMA DecideLoop ==
    ASSUME LoopInv, AnswerInv, NEW s \in Status, Decide(s)
    PROVE  LoopInv' /\ AnswerInv'
  <1>1. CASE Answer("status")
    BY <1>1, Answered DEF Responses
  <1>2. CASE Result("already")
    BY <1>2, Resulted DEF Responses
  <1>3. CASE Result(loop.refusal)
    <2>1. loop.refusal \in Refusals
      BY DEF LoopInv, LoopState
    <2> QED BY <1>3, <2>1, Resulted DEF Refusals, Responses
  <1>4. CASE /\ loop' = [loop EXCEPT !.at = "scan", !.seen = s, !.keys = KeysOf(Bridge)]
             /\ answer' = answer
    <2>1. KeysOf(Bridge) \subseteq Key
      BY DEF KeysOf
    <2>2. /\ loop' \in LoopState /\ loop'.process = loop.process
          /\ loop'.handled = loop.handled /\ loop'.turned = loop.turned
          /\ loop'.at = "scan" /\ loop'.look = loop.look
      BY <1>4, <2>1 DEF LoopInv, LoopState
    <2> QED BY <1>4, <2>2 DEF LoopInv, AnswerInv, CallIsHandledOnce
  <1> QED BY <1>1, <1>2, <1>3, <1>4 DEF Decide

LEMMA LookAtUrlsLoop ==
    ASSUME LoopInv, AnswerInv, LookAtUrls
    PROVE  LoopInv' /\ AnswerInv'
  <1> DEFINE s == [loop.seen EXCEPT !.app = Serving(loop.app, 1),
                                    !.agent = Serving(loop.app, 2)]
  <1>1. s \in Status
    <2>1. loop.seen \in Status
      BY DEF LoopInv, LoopState
    <2>2. Serving(loop.app, 1) \in BOOLEAN /\ Serving(loop.app, 2) \in BOOLEAN
      BY DEF Serving
    <2> QED BY <2>1, <2>2 DEF Status
  <1>2. \/ loop.look = "first" /\ Decide(s)
        \/ Result("already") \/ Result("started")
        \/ /\ loop.look \in {"started", "waiting"}
           /\ loop' = [loop EXCEPT !.at = "wait", !.seen = s] /\ answer' = answer
    <2>1. loop.look \in {"first", "adopt", "started", "waiting"}
      BY DEF LoopInv, LoopState
    <2> QED BY <2>1 DEF LookAtUrls
  <1> HIDE DEF s
  <1>3. CASE Decide(s)
    BY <1>1, <1>3, DecideLoop
  <1>4. CASE Result("already") \/ Result("started")
    BY <1>4, Resulted DEF Responses
  <1>5. CASE /\ loop.look \in {"started", "waiting"}
             /\ loop' = [loop EXCEPT !.at = "wait", !.seen = s] /\ answer' = answer
    <2>1. /\ loop' \in LoopState /\ loop'.process = loop.process
          /\ loop'.handled = loop.handled /\ loop'.turned = loop.turned
          /\ loop'.at = "wait" /\ loop'.look = loop.look
      BY <1>1, <1>5 DEF LoopInv, LoopState
    <2> QED BY <1>5, <2>1 DEF LoopInv, AnswerInv, CallIsHandledOnce
  <1> QED BY <1>2, <1>3, <1>4, <1>5

LEMMA OtherLoopSteps ==
    ASSUME LoopInv, AnswerInv,
           Kill \/ Scan \/ CheckOccupied \/ Settle \/ WaitGoesOn \/ WaitExpires
             \/ CallUnreached \/ CallLost \/ CallHandled \/ CallTurned
    PROVE  LoopInv' /\ AnswerInv'
  <1>1. CASE Kill
    BY <1>1, Looks DEF Kill
  <1>2. CASE Scan
    <2>1. CASE Answer("source_host_proxy_failed") \/ Answer("raised")
      BY <2>1, Answered DEF Responses
    <2>2. CASE loop' = Look("adopt") /\ UNCHANGED answer
      BY <2>2, Looks
    <2>3. CASE loop' = [loop EXCEPT !.at = "occupied", !.keys = {}] /\ answer' = answer
      <3>1. /\ loop' \in LoopState /\ loop'.process = loop.process
          /\ loop'.handled = loop.handled /\ loop'.turned = loop.turned
            /\ loop'.at = "occupied" /\ loop'.look = loop.look
        BY <2>3 DEF LoopInv, LoopState
      <3> QED BY <2>3, <3>1 DEF LoopInv, AnswerInv, CallIsHandledOnce
    <2> QED BY <1>2, <2>1, <2>2, <2>3 DEF Scan
  <1>3. CASE CheckOccupied
    <2>1. CASE loop' = [loop EXCEPT !.at = "start", !.seen = Unseen] /\ answer' = answer
      <3>1. Unseen \in Status
        BY DEF Unseen, Status
      <3>2. /\ loop' \in LoopState /\ loop'.process = loop.process
          /\ loop'.handled = loop.handled /\ loop'.turned = loop.turned
            /\ loop'.at = "start" /\ loop'.look = loop.look
        BY <2>1, <3>1 DEF LoopInv, LoopState
      <3> QED BY <2>1, <3>2 DEF LoopInv, AnswerInv, CallIsHandledOnce
    <2>2. CASE Result("already") \/ Result("health_check_failed")
      BY <2>2, Resulted DEF Responses
    <2> QED BY <1>3, <2>1, <2>2 DEF CheckOccupied
  <1>4. CASE Settle
    <2>1. CASE Result("hard_stop_required") \/ Result("start_command_failed")
      BY <2>1, Resulted DEF Responses
    <2>2. CASE loop.at = "settle" /\ loop' = Look("started") /\ UNCHANGED answer
      <3>1. loop.process # NoProcess
        BY <2>2 DEF LoopInv
      <3> QED BY <2>2, <3>1, Looks
    <2> QED BY <1>4, <2>1, <2>2 DEF Settle
  <1>5. CASE WaitGoesOn
    <2>1. CASE Result("hard_stop_required")
      BY <2>1, Resulted DEF Responses
    <2>2. CASE loop.at = "wait" /\ loop' = Look("waiting") /\ UNCHANGED answer
      <3>1. loop.process # NoProcess
        BY <2>2 DEF LoopInv
      <3> QED BY <2>2, <3>1, Looks
    <2> QED BY <1>5, <2>1, <2>2 DEF WaitGoesOn
  <1>6. CASE WaitExpires
    <2>1. PICK code \in {"health_check_failed", "agent_api_still_unreachable",
                         "backend_health_check_failed", "runtime_recovery_timeout"} :
             Result(code)
      BY <1>6 DEF WaitExpires
    <2> QED BY <2>1, Resulted DEF Responses
  <1>7. CASE CallUnreached
    <2>1. /\ loop \in LoopState /\ loop.handled \in 0 .. 2
          /\ loop.handled = (IF loop.turned THEN 1 ELSE 0)
      BY DEF LoopInv, LoopState
    <2> QED BY <1>7, <2>1, NotSentLoop DEF CallUnreached
  <1>8. CASE CallLost
    BY <1>8, Answered DEF CallLost, Responses
  <1>9. CASE CallHandled
    <2> DEFINE l == [loop EXCEPT !.handled = @ + 1]
    <2>1. PICK code \in Responses \cup {"linkcrest_timeout", "source_host_proxy_failed"} :
             AnswerTo(l, code)
      BY <1>9 DEF CallHandled
    <2>2. l.handled = (IF loop.turned THEN 2 ELSE 1) /\ l.turned = loop.turned
      BY DEF LoopInv, LoopState
    <2> HIDE DEF l
    <2> QED BY <2>1, <2>2, AnsweredTo DEF LoopInv, LoopState
  <1>10. CASE CallTurned
    <2> DEFINE l == [loop EXCEPT !.handled = @ + 1, !.turned = TRUE]
    <2>1. NotSent(l) /\ loop.at = "call"
      BY <1>10 DEF CallTurned
    <2>2. /\ loop.handled = (IF loop.turned THEN 1 ELSE 0)
          /\ ~loop.again => ~loop.turned
          /\ loop.handled + 1 \in 0 .. 2
      BY <2>1 DEF LoopInv
    <2>3. /\ l \in LoopState /\ l.handled = loop.handled + 1 /\ l.turned = TRUE
          /\ l.again = loop.again /\ l.process = loop.process
      BY <2>2 DEF LoopInv, LoopState
    <2> HIDE DEF l
    <2> QED BY <2>1, <2>2, <2>3, NotSentLoop
  <1> QED BY <1>1, <1>2, <1>3, <1>4, <1>5, <1>6, <1>7, <1>8, <1>9, <1>10

--------------------------------------------------------------------------------
(* The map of processes.                                                   *)

LEMMA Keys ==
    /\ NoProcess \notin Process
    /\ \A k \in Key, by \in Manager \cup {NoManager}, read \in BOOLEAN :
          /\ Spawned(k, by, read) \in ProcState /\ Spawned(k, by, read).at = "live"
          /\ Spawned(k, by, read).key = k /\ Spawned(k, by, read).by = by
    /\ Gone \in ProcState /\ Gone.at = "gone"
    /\ \A a \in App : <<a, StartCommand[a]>> \in Key
  <1>1. NoProcess \notin Process
    BY LocalAppsAssumption
  <1>2. \A k \in Key, by \in Manager \cup {NoManager}, read \in BOOLEAN :
          /\ Spawned(k, by, read) \in ProcState /\ Spawned(k, by, read).at = "live"
          /\ Spawned(k, by, read).key = k /\ Spawned(k, by, read).by = by
    BY DEF Spawned, ProcState
  <1>3. \A a \in App : <<a, StartCommand[a]>> \in Key
    BY LocalAppsAssumption DEF Key
  <1>4. (CHOOSE k \in Key : TRUE) \in Key
    BY <1>3, LocalAppsAssumption
  <1>5. Gone \in ProcState /\ Gone.at = "gone"
    <2> DEFINE s == Spawned(CHOOSE k \in Key : TRUE, NoManager, FALSE)
    <2>1. s \in ProcState
      BY <1>2, <1>4
    <2>2. Gone = [s EXCEPT !.at = "gone"]
      BY DEF Gone
    <2> HIDE DEF s
    <2> QED BY <2>1, <2>2 DEF ProcState
  <1> QED BY <1>1, <1>2, <1>3, <1>5

\* A live process stays the one it is, or it ends, or somebody starts one by hand.
LEMMA ProcessMoves ==
    ASSUME MapInv, NEW p \in Process, NEW v \in ProcState,
           proc' = [proc EXCEPT ![p] = v], processes' = processes,
           v.at = "live" /\ v.by \in Manager
             => Live(p) /\ v.key = proc[p].key /\ v.by = proc[p].by
    PROVE  MapInv'
  <1>1. proc' \in [Process -> ProcState]
    BY DEF MapInv
  <1>2. \A o \in Process : proc'[o] = IF o = p THEN v ELSE proc[o]
    BY DEF MapInv
  <1> QED BY <1>1, <1>2 DEF MapInv, LiveProcessIsInTheMap, Live

\* A process is started where the map has no live one.
LEMMA SpawnMoves ==
    ASSUME MapInv, NEW m \in Manager, NEW k \in Key, NEW read \in BOOLEAN,
           NEW p \in Process, Vacant(m, k), Spawn(m, k, read, p)
    PROVE  MapInv'
  <1> DEFINE v == Spawned(k, m, read)
  <1>1. /\ proc' = [proc EXCEPT ![p] = v] /\ processes' = [processes EXCEPT ![m][k] = p]
        /\ ~Live(p)
    BY DEF Spawn, Unnamed
  <1>2. v \in ProcState /\ v.key = k /\ v.by = m
    BY Keys
  <1> HIDE DEF v
  <1>3. /\ proc' \in [Process -> ProcState]
        /\ processes' \in [Manager -> [Key -> Process \cup {NoProcess}]]
    BY <1>1, <1>2 DEF MapInv
  <1>4. /\ \A o \in Process : proc'[o] = IF o = p THEN v ELSE proc[o]
        /\ \A n \in Manager, j \in Key :
             processes'[n][j] = IF n = m /\ j = k THEN p ELSE processes[n][j]
    BY <1>1 DEF MapInv
  <1>5. ASSUME NEW o \in Process, Live(o)', proc'[o].by \in Manager
        PROVE  processes'[proc'[o].by][proc'[o].key] = o
    <2>1. CASE o = p
      BY <1>2, <1>4, <2>1
    <2>2. CASE o # p
      <3>1. proc'[o] = proc[o] /\ Live(o)
        BY <1>4, <1>5, <2>2 DEF Live
      <3>2. processes[proc[o].by][proc[o].key] = o /\ proc[o].key \in Key
        BY <1>5, <3>1 DEF MapInv, LiveProcessIsInTheMap, ProcState
      <3>3. ~(proc[o].by = m /\ proc[o].key = k)
        BY <3>1, <3>2, Keys DEF Vacant
      <3> QED BY <1>4, <1>5, <3>1, <3>2, <3>3
    <2> QED BY <2>1, <2>2
  <1> QED BY <1>3, <1>5 DEF MapInv, LiveProcessIsInTheMap

\* A manager that is started again has an empty map and no process.
LEMMA RestartMap ==
    ASSUME MapInv, NEW m \in Manager, Restart(m)
    PROVE  MapInv'
  <1> DEFINE v(p) == [proc[p] EXCEPT !.by = NoManager, !.read = FALSE, !.hard = FALSE]
  <1>1. /\ processes' = [processes EXCEPT ![m] = NoMap]
        /\ proc' = [p \in Process |-> IF proc[p].by = m THEN v(p) ELSE proc[p]]
    BY DEF Restart
  <1>2. \A p \in Process : proc[p] \in ProcState /\ v(p) \in ProcState /\ v(p).by = NoManager
    BY DEF MapInv, ProcState
  <1> HIDE DEF v
  <1>3. NoMap \in [Key -> Process \cup {NoProcess}]
    BY DEF NoMap
  <1>4. /\ proc' \in [Process -> ProcState]
        /\ processes' \in [Manager -> [Key -> Process \cup {NoProcess}]]
    BY <1>1, <1>2, <1>3 DEF MapInv
  <1>5. ASSUME NEW o \in Process, Live(o)', proc'[o].by \in Manager
        PROVE  processes'[proc'[o].by][proc'[o].key] = o
    <2>1. NoManager \notin Manager
      BY LocalAppsAssumption
    <2>2. proc'[o] = proc[o] /\ proc[o].by # m
      BY <1>1, <1>2, <1>5, <2>1
    <2>3. processes[proc[o].by][proc[o].key] = o
      BY <1>5, <2>2 DEF MapInv, LiveProcessIsInTheMap, Live
    <2> QED BY <1>1, <1>5, <2>2, <2>3 DEF MapInv
  <1> QED BY <1>4, <1>5 DEF MapInv, LiveProcessIsInTheMap

LEMMA ProcessSteps ==
    ASSUME MapInv, NEW p \in Process,
           Boot(p) \/ End(p) \/ AsksApproval(p) \/ StopForApproval(p)
             \/ \E a \in App : StartedByUser(p, a)
    PROVE  MapInv'
  <1>1. proc[p] \in ProcState /\ proc[p].level \in 0 .. 2 /\ proc[p].hard \in BOOLEAN
    BY DEF MapInv, ProcState
  <1>2. CASE Boot(p)
    <2> DEFINE v == [proc[p] EXCEPT !.level = proc[p].level + 1]
    <2>1. proc' = [proc EXCEPT ![p] = v] /\ processes' = processes /\ Live(p)
      BY <1>2 DEF Boot
    <2>2. v \in ProcState /\ v.key = proc[p].key /\ v.by = proc[p].by
      BY <1>1, <1>2 DEF Boot, ProcState
    <2> QED BY <2>1, <2>2, ProcessMoves
  <1>3. CASE End(p)
    <2> DEFINE v == Gone
    <2>1. proc' = [proc EXCEPT ![p] = v] /\ processes' = processes
      BY <1>3 DEF End
    <2>2. v \in ProcState /\ v.at = "gone"
      BY Keys
    <2> HIDE DEF v
    <2> QED BY <2>1, <2>2, ProcessMoves
  <1>4. CASE AsksApproval(p)
    <2> DEFINE v == [proc[p] EXCEPT !.hard = TRUE]
    <2>1. proc' = [proc EXCEPT ![p] = v] /\ processes' = processes /\ Live(p)
      BY <1>4 DEF AsksApproval
    <2>2. v \in ProcState /\ v.key = proc[p].key /\ v.by = proc[p].by
      BY <1>1 DEF ProcState
    <2> QED BY <2>1, <2>2, ProcessMoves
  <1>5. CASE StopForApproval(p)
    <2> DEFINE v == [proc[p] EXCEPT !.term = TRUE]
    <2>1. proc' = [proc EXCEPT ![p] = v] /\ processes' = processes /\ Live(p)
      BY <1>5 DEF StopForApproval
    <2>2. v \in ProcState /\ v.key = proc[p].key /\ v.by = proc[p].by
      BY <1>1 DEF ProcState
    <2> QED BY <2>1, <2>2, ProcessMoves
  <1>6. ASSUME NEW a \in App, StartedByUser(p, a)
        PROVE  MapInv'
    <2> DEFINE v == Spawned(<<a, StartCommand[a]>>, NoManager, FALSE)
    <2>1. proc' = [proc EXCEPT ![p] = v] /\ processes' = processes
      BY <1>6 DEF StartedByUser
    <2>2. v \in ProcState /\ v.by \notin Manager
      <3>1. <<a, StartCommand[a]>> \in Key /\ NoManager \in Manager \cup {NoManager}
        BY Keys
      <3>2. NoManager \notin Manager
        BY LocalAppsAssumption
      <3>3. v \in ProcState /\ v.by = NoManager
        BY <3>1, Keys
      <3> QED BY <3>2, <3>3
    <2> HIDE DEF v
    <2> QED BY <2>1, <2>2, ProcessMoves
  <1> QED BY <1>2, <1>3, <1>4, <1>5, <1>6

LEMMA KillMap ==
    ASSUME MapInv, LoopInv, Kill
    PROVE  MapInv'
  <1>1. OwnKey \in Key /\ Bridge \in Manager
    BY Keys, LocalAppsAssumption DEF OwnKey, LoopInv, LoopState
  <1> DEFINE p == processes[Bridge][OwnKey]
  <1>2. processes' = processes
    BY DEF Kill
  <1>3. CASE proc' = proc
    BY <1>2, <1>3 DEF MapInv, LiveProcessIsInTheMap, Live
  <1>4. CASE p # NoProcess /\ proc' = [proc EXCEPT ![p].term = @ \/ Live(p)]
    <2>1. p \in Process
      BY <1>1, <1>4 DEF MapInv
    <2> HIDE DEF p
    <2> DEFINE v == [proc[p] EXCEPT !.term = proc[p].term \/ Live(p)]
    <2>2. proc' = [proc EXCEPT ![p] = v]
      BY <1>4
    <2>3. proc[p] \in ProcState
      BY <2>1 DEF MapInv
    <2>4. v \in ProcState /\ v.key = proc[p].key /\ v.by = proc[p].by /\ v.at = proc[p].at
      BY <2>3 DEF ProcState
    <2> HIDE DEF v
    <2> QED BY <1>2, <2>1, <2>2, <2>4, ProcessMoves DEF Live
  <1> QED BY <1>3, <1>4 DEF Kill

LEMMA StartCommandOfStep ==
    ASSUME MapInv, LoopInv, AnswerInv, StartCommandOf
    PROVE  MapInv' /\ LoopInv' /\ AnswerInv'
  <1>1. OwnKey \in Key /\ Bridge \in Manager
    BY Keys, LocalAppsAssumption DEF OwnKey, LoopInv, LoopState
  <1>2. CASE Vacant(Bridge, OwnKey) /\ answer' = answer /\ \E p \in Process :
               /\ Spawn(Bridge, OwnKey, TRUE, p)
               /\ loop' = [loop EXCEPT !.at = "settle", !.process = p]
    <2>1. PICK p \in Process : /\ Spawn(Bridge, OwnKey, TRUE, p)
                               /\ loop' = [loop EXCEPT !.at = "settle", !.process = p]
      BY <1>2
    <2>2. MapInv'
      BY <1>1, <1>2, <2>1, SpawnMoves
    <2>3. /\ loop' \in LoopState /\ loop'.process = p /\ loop'.at = "settle"
          /\ loop'.handled = loop.handled /\ loop'.turned = loop.turned
      BY <2>1 DEF LoopInv, LoopState
    <2>4. LoopInv'
      BY <2>3, Keys DEF LoopInv
    <2> QED BY <1>2, <2>2, <2>4 DEF AnswerInv, CallIsHandledOnce
  <1>3. CASE Result("start_command_failed") /\ UNCHANGED <<processes, proc>>
    <2>1. MapInv'
      BY <1>3 DEF MapInv, LiveProcessIsInTheMap, Live
    <2> QED BY <1>3, <2>1, Resulted DEF Responses
  <1> QED BY <1>2, <1>3 DEF StartCommandOf

--------------------------------------------------------------------------------
(* The worker threads of dispatches.                                       *)

\* A thread is at another place.
LEMMA RunMoves ==
    ASSUME OrderInv, NEW r \in Dispatch, NEW at, NEW next \in Nat, NEW keys,
           NEW by \in Manager,
           Moves(r, at, next, keys, by), keys \subseteq Key, next >= 1,
           at \in {"begin", "look", "inspect", "command", "scan", "start", "wait",
                   "last", "done", "raised"},
           at \in {"scan", "start"} => next <= Len(Startup[AppOf[r]])
    PROVE  OrderInv'
  <1> DEFINE s == [at |-> at, next |-> next, keys |-> keys, by |-> by]
  <1>1. run' = [run EXCEPT ![r] = s]
    BY DEF Moves
  <1>2. s \in RunState /\ s.at = at /\ s.next = next
    BY DEF RunState
  <1> HIDE DEF s
  <1>3. run' \in [Dispatch -> RunState]
    BY <1>1, <1>2 DEF OrderInv
  <1>4. \A o \in Dispatch : run'[o] = IF o = r THEN s ELSE run[o]
    BY <1>1 DEF OrderInv
  <1> QED BY <1>2, <1>3, <1>4 DEF OrderInv

LEMMA RunFacts ==
    ASSUME OrderInv, NEW r \in Dispatch
    PROVE  /\ run[r].next \in Nat /\ run[r].next >= 1 /\ run[r].by \in Manager
           /\ KeysOf(run[r].by) \subseteq Key
           /\ Startup[AppOf[r]] \in Seq(Command) /\ AppOf[r] \in App
           /\ run[r].at \in {"scan", "start"}
              => run[r].next <= Len(Startup[AppOf[r]]) /\ RunKey(r) \in Key
  <1>1. run[r].next \in Nat /\ run[r].next >= 1 /\ run[r].by \in Manager
    BY DEF OrderInv, RunState
  <1>2. Startup[AppOf[r]] \in Seq(Command) /\ AppOf[r] \in App
    BY LocalAppsAssumption
  <1>3. ASSUME run[r].at \in {"scan", "start"}
        PROVE  run[r].next <= Len(Startup[AppOf[r]]) /\ RunKey(r) \in Key
    <2>1. run[r].next <= Len(Startup[AppOf[r]])
      BY <1>3 DEF OrderInv
    <2>2. Startup[AppOf[r]][run[r].next] \in Command
      BY <1>1, <1>2, <2>1
    <2> QED BY <1>2, <2>1, <2>2 DEF RunKey, Key
  <1>4. KeysOf(run[r].by) \subseteq Key
    BY DEF KeysOf
  <1> QED BY <1>1, <1>2, <1>3, <1>4

\* A thread goes somewhere where it has no command, takes the next one, or ends.
LEMMA RunGoes ==
    ASSUME OrderInv, NEW r \in Dispatch,
           \/ \E at \in {"inspect", "command", "wait", "last"} : Set(r, at) \/ Searches(r, at)
           \/ \E m \in Manager : Moves(r, "look", 1, {}, m)
           \/ \E at \in {"done", "raised"} : Ends(r, at)
           \/ NextCommand(r)
    PROVE  OrderInv'
  <1>1. /\ run[r].next \in Nat /\ run[r].next >= 1 /\ run[r].by \in Manager
        /\ KeysOf(run[r].by) \subseteq Key
        /\ run[r].next + 1 \in Nat /\ run[r].next + 1 >= 1
    BY RunFacts
  <1>2. ASSUME NEW at \in {"inspect", "command", "wait", "last"},
               Set(r, at) \/ Searches(r, at)
        PROVE  OrderInv'
    BY <1>1, <1>2, RunMoves DEF Set, Searches
  <1>3. ASSUME NEW m \in Manager, Moves(r, "look", 1, {}, m)
        PROVE  OrderInv'
    BY <1>3, RunMoves
  <1>4. ASSUME NEW at \in {"done", "raised"}, Ends(r, at)
        PROVE  OrderInv'
    <2>1. Bridge \in Manager
      BY LocalAppsAssumption
    <2> QED BY <1>4, <2>1, RunMoves DEF Ends
  <1>5. CASE NextCommand(r)
    BY <1>1, <1>5, RunMoves DEF NextCommand
  <1> QED BY <1>2, <1>3, <1>4, <1>5

LEMMA RunSteps ==
    ASSUME MapInv, OrderInv, NEW r \in Dispatch,
           \/ Prepare(r) \/ LookAtApp(r) \/ InspectEnds(r) \/ TakeCommand(r)
           \/ SearchForRun(r) \/ StartForRun(r) \/ WaitForRun(r)
    PROVE  MapInv' /\ OrderInv'
  <1>1. CASE Prepare(r) \/ LookAtApp(r) \/ InspectEnds(r) \/ WaitForRun(r)
    <2>1. UNCHANGED <<processes, proc>>
      BY <1>1 DEF Prepare, LookAtApp, InspectEnds, WaitForRun
    <2>2. OrderInv'
      BY <1>1, RunGoes DEF Prepare, LookAtApp, InspectEnds, WaitForRun
    <2> QED BY <2>1, <2>2 DEF MapInv, LiveProcessIsInTheMap, Live
  <1>2. CASE TakeCommand(r)
    <2>1. ASSUME Set(r, "wait") \/ NextCommand(r)
          PROVE  OrderInv'
      BY <2>1, RunGoes
    <2>2. ASSUME Searches(r, "scan") /\ ~(run[r].next > Len(Startup[AppOf[r]]))
          PROVE  OrderInv'
      <3>1. run[r].next <= Len(Startup[AppOf[r]])
        BY <2>2, RunFacts
      <3> QED BY <2>2, <3>1, RunFacts, RunMoves DEF Searches
    <2>3. OrderInv'
      BY <1>2, <2>1, <2>2 DEF TakeCommand
    <2> QED BY <1>2, <2>3 DEF TakeCommand, MapInv, LiveProcessIsInTheMap, Live
  <1>3. CASE SearchForRun(r)
    <2>1. ASSUME Ends(r, "raised") \/ NextCommand(r)
          PROVE  OrderInv'
      BY <2>1, RunGoes
    <2>2. ASSUME Set(r, "start") /\ run[r].at = "scan"
          PROVE  OrderInv'
      BY <2>2, RunFacts, RunMoves DEF Set
    <2>3. OrderInv'
      BY <1>3, <2>1, <2>2 DEF SearchForRun
    <2> QED BY <1>3, <2>3 DEF SearchForRun, MapInv, LiveProcessIsInTheMap, Live
  <1>4. CASE StartForRun(r)
    <2>1. OrderInv'
      BY <1>4, RunGoes DEF StartForRun
    <2>2. CASE /\ Vacant(run[r].by, RunKey(r))
                /\ \E p \in Process : Spawn(run[r].by, RunKey(r), FALSE, p)
      <3>1. RunKey(r) \in Key /\ run[r].by \in Manager
        BY <1>4, RunFacts DEF StartForRun
      <3> QED BY <2>1, <2>2, <3>1, SpawnMoves
    <2>3. CASE UNCHANGED <<processes, proc>>
      BY <2>1, <2>3 DEF MapInv, LiveProcessIsInTheMap, Live
    <2> QED BY <1>4, <2>2, <2>3 DEF StartForRun
  <1> QED BY <1>1, <1>2, <1>3, <1>4

--------------------------------------------------------------------------------
(* The invariant.                                                          *)

LEMMA NotBegunFields == NotBegun \in RunState /\ NotBegun.at = "begin" /\ NotBegun.next = 1
  BY LocalAppsAssumption DEF NotBegun, RunState

LEMMA AppsInitInv == AppsInit => AppsInv
  <1> SUFFICES ASSUME AppsInit
               PROVE  AppsInv
    OBVIOUS
  <1>1. MapInv
    <2>1. proc = [p \in Process |-> Gone] /\ processes = [m \in Manager |-> NoMap]
      BY DEF AppsInit
    <2>2. Gone \in ProcState /\ Gone.at = "gone"
      BY Keys
    <2> QED BY <2>1, <2>2 DEF MapInv, LiveProcessIsInTheMap, Live, NoMap
  <1>2. LoopInv /\ AnswerInv
    BY IdleFields DEF AppsInit, NoAnswer, LoopInv, AnswerInv, CallIsHandledOnce, Responses
  <1>3. OrderInv
    BY NotBegunFields DEF AppsInit, OrderInv
  <1>4. events \in 0 .. MaxEvents
    BY LocalAppsAssumption DEF AppsInit
  <1> QED BY <1>1, <1>2, <1>3, <1>4 DEF AppsInv

\* A question is noted by the request that waits for the process.
LEMMA AsksApprovalLoop ==
    ASSUME LoopInv, AnswerInv, NEW p \in Process, AsksApproval(p)
    PROVE  LoopInv' /\ AnswerInv'
  <1>1. (loop.asked \/ loop.process = p) \in BOOLEAN
    BY DEF LoopInv, LoopState
  <1>2. loop' = [loop EXCEPT !.asked = (loop.asked \/ loop.process = p)] /\ answer' = answer
    BY DEF AsksApproval
  <1>3. /\ loop' \in LoopState /\ loop'.at = loop.at /\ loop'.look = loop.look
        /\ loop'.process = loop.process /\ loop'.handled = loop.handled
        /\ loop'.turned = loop.turned /\ loop'.again = loop.again
    BY <1>1, <1>2 DEF LoopInv, LoopState
  <1> QED BY <1>2, <1>3 DEF LoopInv, AnswerInv, CallIsHandledOnce

\* What is left of a manager's request and threads when it is started again.
LEMMA RestartRest ==
    ASSUME LoopInv, AnswerInv, OrderInv, NEW m \in Manager, Restart(m)
    PROVE  LoopInv' /\ AnswerInv' /\ OrderInv'
  <1>1. OrderInv'
    <2>1. \A r \in Dispatch : run'[r] = run[r] \/ run'[r] = NotBegun
      BY DEF Restart
    <2>2. run' = [r \in Dispatch |-> run'[r]]
      BY DEF Restart
    <2>3. \A r \in Dispatch : run[r] \in RunState
      BY DEF OrderInv
    <2>4. run' \in [Dispatch -> RunState]
      BY <2>1, <2>2, <2>3, NotBegunFields
    <2> QED BY <2>1, <2>4, NotBegunFields DEF OrderInv
  <1>2. CASE loop' = Idle /\ answer' = NoAnswer
    BY <1>1, <1>2, IdleFields DEF LoopInv, AnswerInv, CallIsHandledOnce, NoAnswer, Responses
  <1>3. CASE UNCHANGED <<loop, answer>>
    BY <1>1, <1>3 DEF LoopInv, AnswerInv, CallIsHandledOnce
  <1> QED BY <1>2, <1>3 DEF Restart

\* Where a step leaves the processes, the loop or the threads alone.
LEMMA LeftAlone ==
    ASSUME AppsInv
    PROVE  /\ UNCHANGED <<processes, proc>> => MapInv'
           /\ UNCHANGED <<loop, answer>> => LoopInv' /\ AnswerInv'
           /\ UNCHANGED run => OrderInv'
           /\ UNCHANGED events => events' \in 0 .. MaxEvents
  BY DEF AppsInv, MapInv, LiveProcessIsInTheMap, Live, LoopInv, AnswerInv,
         CallIsHandledOnce, OrderInv

LEMMA AppsNextInv == AppsInv /\ [AppsNext]_appsVars => AppsInv'
  <1> SUFFICES ASSUME AppsInv, [AppsNext]_appsVars
               PROVE  AppsInv'
    OBVIOUS
  <1>1. MapInv /\ LoopInv /\ AnswerInv /\ OrderInv /\ events \in 0 .. MaxEvents
    BY DEF AppsInv
  <1>2. CASE UNCHANGED appsVars
    BY <1>2, LeftAlone DEF appsVars, AppsInv
  <1>3. ASSUME events < MaxEvents, events' = events + 1,
               UNCHANGED <<processes, proc, run>>, LoopInv', AnswerInv'
        PROVE  AppsInv'
    <2>1. events' \in 0 .. MaxEvents
      BY <1>1, <1>3, LocalAppsAssumption
    <2> QED BY <1>3, <2>1, LeftAlone DEF AppsInv
  <1>4. ASSUME NEW a \in App, NEW kind \in {"status", "ensure", "restart"},
               NEW f \in Flawed \cup {NoProfile}, ReceiveAction(kind, a, f)
        PROVE  AppsInv'
    BY <1>1, <1>3, <1>4, ReceiveActionLoop DEF ReceiveAction
  <1>5. ASSUME NEW a \in App, NEW f \in {Good, NoProfile}, NEW q \in Request,
               ReceiveCall(a, f, q)
        PROVE  AppsInv'
    BY <1>1, <1>3, <1>5, ReceiveCallLoop DEF ReceiveCall
  <1>6. CASE Kill
    BY <1>1, <1>6, OtherLoopSteps, KillMap, LeftAlone DEF Kill, AppsInv
  <1>7. CASE LookAtPorts
    BY <1>1, <1>7, LookAtPortsLoop, LeftAlone DEF LookAtPorts, AppsInv
  <1>8. CASE LookAtUrls
    BY <1>1, <1>8, LookAtUrlsLoop, LeftAlone DEF LookAtUrls, AppsInv
  <1>9. CASE Scan \/ CheckOccupied \/ Settle \/ WaitGoesOn \/ WaitExpires
               \/ CallUnreached \/ CallLost \/ CallHandled \/ CallTurned
    <2>1. UNCHANGED <<processes, proc, run, events>>
      BY <1>9 DEF Scan, CheckOccupied, Settle, WaitGoesOn, WaitExpires, CallUnreached,
                  CallLost, CallHandled, CallTurned
    <2> QED BY <1>1, <1>9, <2>1, OtherLoopSteps, LeftAlone DEF AppsInv
  <1>10. CASE StartCommandOf
    <2>1. UNCHANGED <<run, events>>
      BY <1>10 DEF StartCommandOf
    <2> QED BY <1>1, <1>10, <2>1, StartCommandOfStep, LeftAlone DEF AppsInv
  <1>11. ASSUME NEW r \in Dispatch,
                \/ Prepare(r) \/ LookAtApp(r) \/ InspectEnds(r) \/ TakeCommand(r)
                \/ SearchForRun(r) \/ StartForRun(r) \/ WaitForRun(r)
         PROVE  AppsInv'
    <2>1. UNCHANGED <<loop, events, answer>>
      BY <1>11 DEF Prepare, LookAtApp, InspectEnds, TakeCommand, SearchForRun, StartForRun,
                   WaitForRun
    <2> QED BY <1>1, <1>11, <2>1, RunSteps, LeftAlone DEF AppsInv
  <1>12. ASSUME NEW p \in Process,
                Boot(p) \/ End(p) \/ AsksApproval(p) \/ StopForApproval(p)
                  \/ \E a \in App : StartedByUser(p, a)
         PROVE  AppsInv'
    <2>1. UNCHANGED <<run, events, answer>>
      BY <1>12 DEF Boot, End, AsksApproval, StopForApproval, StartedByUser
    <2>2. UNCHANGED loop \/ AsksApproval(p)
      BY <1>12 DEF Boot, End, StopForApproval, StartedByUser
    <2>3. LoopInv' /\ AnswerInv'
      BY <1>1, <2>1, <2>2, LeftAlone, AsksApprovalLoop
    <2> QED BY <1>1, <1>12, <2>1, <2>3, ProcessSteps, LeftAlone DEF AppsInv
  <1>13. ASSUME NEW m \in Manager, Restart(m)
         PROVE  AppsInv'
    <2>1. MapInv'
      BY <1>1, <1>13, RestartMap
    <2>2. LoopInv' /\ AnswerInv' /\ OrderInv'
      BY <1>1, <1>13, RestartRest
    <2>3. events < MaxEvents /\ events' = events + 1
      BY <1>13 DEF Restart
    <2>4. events' \in 0 .. MaxEvents
      BY <1>1, <2>3, LocalAppsAssumption
    <2> QED BY <2>1, <2>2, <2>4 DEF AppsInv
  <1> QED BY <1>2, <1>4, <1>5, <1>6, <1>7, <1>8, <1>9, <1>10, <1>11, <1>12, <1>13 DEF AppsNext

\* The maps of the managers, the request being served, the last answer to a call and the
\* threads of the dispatches agree with each other after every step.
THEOREM AppsInvariance == AppsSpec => []AppsInv
  BY AppsInitInv, AppsNextInv, PTL DEF AppsSpec

\* However requests, dispatches, processes, users and restarts come together, the state is
\* well typed, and no live process is missing in the map of the manager that started it.
THEOREM AppsConsistency == AppsSpec => []AppsConsistent
  <1>1. AppsInv => AppsConsistent
    <2>1. LoopInv => /\ loop \in LoopState
                     /\ loop.at \in {"settle", "wait"} => loop.process # NoProcess
      BY DEF LoopInv
    <2> QED BY <2>1 DEF AppsInv, MapInv, AnswerInv, OrderInv, AppsConsistent, AppsTypeOK
  <1> QED BY <1>1, AppsInvariance, PTL

\* The app handles a call at most once unless it turned it away itself, and an answer that
\* says whether the app had the call says the truth.
THEOREM CallsAreHandledOnce == AppsSpec => []CallIsHandledOnce
  <1>1. AppsInv => CallIsHandledOnce
    BY DEF AppsInv, AnswerInv
  <1> QED BY <1>1, AppsInvariance, PTL

================================================================================
