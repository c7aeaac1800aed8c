------------------------------- MODULE AgentSync -------------------------------
(***************************************************************************)
(* The replica exchange of the Hermes bridge (main.py 9256-9714,           *)
(* document_policy.py): the bridge scans the documents of its agents,      *)
(* uploads them with the version each is based on, and applies the         *)
(* documents Relay answers with.                                           *)
(*                                                                         *)
(* One exchange runs at a time, under the lock that native removals take,  *)
(* too; agents and users change files beside it.  The state file is read   *)
(* at its start and written at its end.  A document stands for its path    *)
(* and every agent has one; a content is the number of the edit that made  *)
(* it, and stands for its hash as well.  How Relay merges is external.     *)
(***************************************************************************)
EXTENDS Naturals, FiniteSets

CONSTANTS
    Agent,     \* agents of this host
    Native,    \* those that are Hermes profiles; the others have a workspace
    Protocols, \* the sets of protocols Relay may understand
    Kinds,     \* the kinds of contents the edits may make
    MaxEdits,  \* edits and deletions by agents and users (a bound)
    MaxFaults  \* failures, restarts and scans that fail (a bound)

ASSUME AgentSyncAssumption ==
    /\ Native \subseteq Agent
    /\ Protocols \subseteq SUBSET {"v3", "v2", "v1"}
    /\ MaxEdits \in Nat /\ MaxFaults \in Nat
    /\ Kinds \subseteq [1..MaxEdits -> {"text", "large", "nul", "garbled"}]

VARIABLES
    kind,      \* of each content: over the size limit, with a NUL byte, not UTF-8
    home,      \* whether the directory of each agent exists
    file,      \* the content of each agent's document, 0 without one
    hidden,    \* agents whose document is in a directory that cannot be listed
    saved,     \* agent_sync_state.json
    proto,     \* _agent_sync_protocol
    x,         \* the exchange that holds _native_control_lock
    speaks,    \* what Relay understands
    relay,     \* Relay's record of each document
    connected, \* agents whose documents the user shares with Relay
    edits, faults, \* how many there were
    known,     \* contents Relay has had of each agent, for the properties
    refused,   \* agents the last answer called unconnected, for the properties
    unsaved,   \* those of them whose answer was not applied to its end
    removed    \* profiles removed by a native removal, until provisioned again

syncVars == <<kind, home, file, hidden, saved, proto, x, speaks, relay, connected,
              edits, faults, known, refused, unsaved, removed>>
hostSide == <<kind, home, file, hidden>>
relaySide == <<speaks, relay, connected>>
consent == <<refused, unsaved>>
ghosts == <<known, consent, removed>>

--------------------------------------------------------------------------------
Content == 1..MaxEdits
None == 0
Large == {c \in Content : kind[c] = "large"}
Nul == {c \in Content : kind[c] = "nul"}
Garbled == {c \in Content : kind[c] = "garbled"}

\* An entry of "documents" in the state file, and a record of Relay's.  Version
\* 0 stands for no entry and for no record.
Version == [ver : Nat, content : Content \cup {None}, deleted : BOOLEAN]
NoVersion == [ver |-> 0, content |-> None, deleted |-> FALSE]
Lives(v) == v.ver > 0 /\ ~v.deleted

\* What a request says of an agent's document: nothing, a content or its
\* deletion, with the version it is based on.
Upload == [what : {"nothing", "content", "deleted"}, content : Content \cup {None},
           base : Nat]
Nothing == [what |-> "nothing", content |-> None, base |-> 0]

\* The state file: the entries and which agents have a canonicalAgentId.
State == [entry : [Agent -> Version], canonical : SUBSET Agent]

Exchange == [at : {"idle", "scan", "post", "apply", "save"},
             left : SUBSET Agent,              \* still to be scanned or applied
             listed : SUBSET Agent,            \* profiles found at the start
             incomplete : SUBSET Agent,        \* incomplete_scan_ids
             found : [Agent -> Content \cup {None}], \* for the properties
             upload : [Agent -> Upload],
             state : State,
             answer : [Agent -> Version],      \* Relay's documents
             agents : SUBSET Agent,            \* Relay's agents
             named : SUBSET Agent]             \* those with a canonical id

NoExchange == [at |-> "idle", left |-> {}, listed |-> {}, incomplete |-> {},
               found |-> [a \in Agent |-> None],
               upload |-> [a \in Agent |-> Nothing],
               state |-> [entry |-> [a \in Agent |-> NoVersion], canonical |-> {}],
               answer |-> [a \in Agent |-> NoVersion], agents |-> {}, named |-> {}]

SyncInit ==
    /\ kind \in Kinds
    /\ home = [a \in Agent |-> TRUE]
    /\ file = [a \in Agent |-> None]
    /\ hidden = {}
    /\ saved = NoExchange.state
    /\ proto = "v3"
    /\ x = NoExchange
    /\ speaks \in Protocols
    /\ relay = [a \in Agent |-> NoVersion]
    /\ connected = {}
    /\ edits = 0
    /\ faults = 0
    /\ known = [a \in Agent |-> {}]
    /\ refused = {} /\ unsaved = {}
    /\ removed = {}

--------------------------------------------------------------------------------
(* The exchange.                                                           *)

\* _exchange_agent_replicas: a missing profile is not in the inventory, while the
\* external ids of the configuration stay there.
Begin ==
    /\ x.at = "idle"
    /\ LET listed == {a \in Agent : home[a]} IN
       x' = [NoExchange EXCEPT !.at = "scan", !.state = saved, !.listed = listed,
                               !.left = listed \cup (Agent \ Native)]
    /\ UNCHANGED <<hostSide, saved, proto, relaySide, edits, faults, ghosts>>

\* With the newest protocol no document is read before the agent is connected.
MayRead(a) == proto # "v3" \/ a \in x.state.canonical

\* What a complete scan passes over.
PassedOver(a) == a \in hidden \/ file[a] \in Large \cup Nul
Sent(a) == ~PassedOver(a) /\ file[a] \notin Garbled

\* A document that cannot be read leaves the scan complete.
Bug_ScanOf(a, readable) ==
    [complete |-> home[a],
     content  |-> IF home[a] /\ readable /\ Sent(a) THEN file[a] ELSE None]

\* scan_profile_documents.  A home, a directory or a document that cannot be read
\* leaves the scan incomplete, but rglob passes over a directory that may not be
\* listed, and a document that is too large or has a NUL byte is passed over too.
ScanOf(a, readable) ==
    [complete |-> home[a] /\ readable /\ (file[a] \in Garbled => a \in hidden),
     content  |-> IF home[a] /\ readable /\ Sent(a) THEN file[a] ELSE None]

\* Deletions are not reported.
Bug_UploadOf(e, scan) ==
    IF scan.content = None THEN Nothing
    ELSE [what |-> "content", base |-> e.ver, content |-> scan.content]

\* What is found is uploaded; a known document that a complete scan does not
\* find was deleted.
UploadOf(e, scan) ==
    CASE scan.content # None              -> [what |-> "content", base |-> e.ver,
                                              content |-> scan.content]
      [] scan.complete /\ scan.content = None /\ Lives(e)
                                          -> [what |-> "deleted", base |-> e.ver,
                                              content |-> e.content]
      [] OTHER                            -> Nothing

Fault(happens) ==
    /\ happens => faults < MaxFaults
    /\ faults' = IF happens THEN faults + 1 ELSE faults

Scan(a, readable) ==
    /\ x.at = "scan" /\ a \in x.left
    /\ Fault(~readable)
    /\ LET scan == ScanOf(a, readable) IN
       x' = [x EXCEPT !.left = @ \ {a},
               !.upload[a] = IF MayRead(a) THEN UploadOf(x.state.entry[a], scan)
                                           ELSE Nothing,
               !.found[a] = IF MayRead(a) /\ ~PassedOver(a) THEN file[a] ELSE None,
               !.incomplete = IF MayRead(a) /\ ~scan.complete
                              THEN @ \cup {a} ELSE @]
    /\ UNCHANGED <<hostSide, saved, proto, relaySide, edits, ghosts>>

EndScan ==
    /\ x.at = "scan" /\ x.left = {}
    /\ x' = [x EXCEPT !.at = "post"]
    /\ UNCHANGED <<hostSide, saved, proto, relaySide, edits, faults, ghosts>>

\* LookupError: the same request again in an older protocol.
FallBack ==
    /\ x.at = "post" /\ proto \notin speaks /\ proto # "v1"
    /\ proto' = IF proto = "v3" THEN "v2" ELSE "v1"
    /\ UNCHANGED <<hostSide, saved, x, relaySide, edits, faults, ghosts>>

\* The next version of a record: of that content, or deleted.
Revised(r, c) == [ver |-> r.ver + 1, content |-> c, deleted |-> FALSE]
Dropped(r) == [ver |-> r.ver + 1, content |-> r.content, deleted |-> TRUE]

\* Relay: an upload that is based on its current version becomes the next one,
\* another one is retained as a conflict.
Merge(r, u) ==
    IF u.what = "nothing" \/ u.base # r.ver THEN r
    ELSE IF u.what = "content" /\ (r.content # u.content \/ r.deleted)
         THEN Revised(r, u.content)
    ELSE IF u.what = "deleted" /\ ~r.deleted THEN Dropped(r)
    ELSE r

\* The documents the acknowledgements do not show to be current.
AnswerOf(new, entry) == [a \in Agent |-> IF new[a].ver # entry[a].ver THEN new[a]
                                                                     ELSE NoVersion]

\* The canonical ids stay when consent is taken back.
Bug_Shared(agents) == x.state.canonical

\* discoveries: an agent that is not connected loses its canonical id.
Shared(agents) == IF proto = "v3" THEN x.state.canonical \cap agents
                                  ELSE x.state.canonical

\* Relay has the request, and its answer may be lost.  An older protocol answers for
\* all agents and does not say which are not connected.
RelayMerges(lost) ==
    /\ x.at = "post" /\ proto \in speaks
    /\ Fault(lost)
    /\ relay' = [a \in Agent |-> Merge(relay[a], x.upload[a])]
    /\ known' = [a \in Agent |-> known[a] \cup ({x.upload[a].content} \ {None})]
    /\ x' = IF lost THEN NoExchange
             ELSE LET agents == IF proto = "v3" THEN connected ELSE Agent IN
                 [x EXCEPT !.at = "apply", !.agents = agents, !.left = agents,
                    !.named = connected, !.answer = AnswerOf(relay', x.state.entry),
                    !.state.canonical = Shared(agents)]
    /\ refused' = IF lost THEN refused
                  ELSE IF proto = "v3" THEN Agent \ connected ELSE refused \ connected
    /\ UNCHANGED <<hostSide, saved, proto, speaks, connected, edits, unsaved, removed>>

\* Refused, unreachable, of an unknown protocol, or cancelled on its way.
PostFails ==
    /\ x.at = "post"
    /\ Fault(TRUE)
    /\ x' = NoExchange
    /\ UNCHANGED <<hostSide, saved, proto, relaySide, edits, ghosts>>

--------------------------------------------------------------------------------
(* Relay's answer, one agent after the other.                              *)

\* Missing native profiles are not recreated.
Skipped(a) == a \in Native /\ a \notin x.listed

Answered(a) == a \notin x.incomplete /\ x.answer[a].ver > 0
Wanted(a) == /\ Answered(a)
             /\ x.answer[a].deleted \/ x.answer[a].content \notin Large

\* An edit that Relay does not have is overwritten.
Bug_Preserved(a) == FALSE

\* The file is compared with the entry and with Relay's content, not with what
\* was scanned; what cannot be decoded counts as no file.
Preserved(a) ==
    /\ Lives(x.state.entry[a]) /\ file[a] \notin {None} \cup Garbled
    /\ file[a] # x.state.entry[a].content
    /\ file[a] # x.answer[a].content
    /\ x.answer[a].ver # x.state.entry[a].ver

FileAfter(a) == IF x.answer[a].deleted THEN None ELSE x.answer[a].content

\* _agent_workspace_root makes the directory of a workspace whose agent has documents
\* in the answer; the home of a profile is made again with a document in it.
HomeAfter(a) == home[a] \/ a \notin Native

EntryAfter(a) == x.answer[a]

\* Of a connected agent the canonical id is kept with the profile.
Registered(a) ==
    IF a \in x.named /\ a \in x.listed \cup (Agent \ Native)
    THEN x.state.canonical \cup {a} ELSE x.state.canonical

Apply(a) ==
    /\ x.at = "apply" /\ a \in x.left
    /\ IF Skipped(a)
       THEN /\ x' = [x EXCEPT !.left = @ \ {a}]
            /\ UNCHANGED <<file, home>>
       ELSE IF ~Wanted(a) \/ Preserved(a)
       THEN /\ x' = [x EXCEPT !.left = @ \ {a}, !.state.canonical = Registered(a)]
            /\ file' = file
            /\ home' = [home EXCEPT ![a] = IF Answered(a) THEN HomeAfter(a) ELSE @]
       ELSE /\ file' = [file EXCEPT ![a] = FileAfter(a)]
            /\ home' = [home EXCEPT ![a] = HomeAfter(a) \/ ~x.answer[a].deleted]
            /\ x' = [x EXCEPT !.left = @ \ {a}, !.state.canonical = Registered(a),
                              !.state.entry[a] = EntryAfter(a)]
    /\ UNCHANGED <<kind, hidden, saved, proto, relaySide, edits, faults, ghosts>>

\* An answer that is not applied to its end leaves the state file as it was.
Unsaved == IF x.at = "apply" THEN unsaved \cup (Agent \ x.agents) ELSE unsaved

\* A path that is not valid or a write that fails, of the state file too, ends the
\* exchange unsaved; a directory that cannot be entered does so every time.
ApplyRaises ==
    /\ x.at = "apply"
    /\ Fault(\A a \in x.left \cap hidden : Skipped(a) \/ ~Answered(a))
    /\ x' = NoExchange
    /\ unsaved' = Unsaved
    /\ UNCHANGED <<hostSide, saved, proto, relaySide, edits, known, refused, removed>>

Save ==
    /\ x.at = "apply" /\ x.left = {}
    /\ saved' = x.state
    /\ unsaved' = IF proto = "v3" THEN {} ELSE unsaved
    /\ x' = NoExchange
    /\ UNCHANGED <<hostSide, proto, relaySide, edits, faults, known, refused, removed>>

\* A crash, or the end of the connection; the next one starts with the newest
\* protocol.
Restart ==
    /\ Fault(TRUE)
    /\ x' = NoExchange
    /\ proto' = "v3"
    /\ unsaved' = Unsaved
    /\ UNCHANGED <<hostSide, saved, relaySide, edits, known, refused, removed>>

--------------------------------------------------------------------------------
(* Agents, users and removals.                                             *)

\* One more edit, by an agent or a user, or at Relay.
Edits == edits < MaxEdits /\ edits' = edits + 1

Edit(a) ==
    /\ Edits /\ home[a]
    /\ file' = [file EXCEPT ![a] = edits']
    /\ UNCHANGED <<kind, home, hidden, saved, proto, x, relaySide, faults, ghosts>>

Delete(a) ==
    /\ Edits /\ file[a] # None
    /\ file' = [file EXCEPT ![a] = None]
    /\ UNCHANGED <<kind, home, hidden, saved, proto, x, relaySide, faults, ghosts>>

\* The rights of the document's directory are taken away, or given back.
Hide(a) ==
    /\ Edits /\ home[a]
    /\ hidden' = IF a \in hidden THEN hidden \ {a} ELSE hidden \cup {a}
    /\ UNCHANGED <<kind, home, file, saved, proto, x, relaySide, faults, ghosts>>

Gone(a) ==
    /\ home[a]
    /\ home' = [home EXCEPT ![a] = FALSE]
    /\ file' = [file EXCEPT ![a] = None]
    /\ hidden' = hidden \ {a}
    /\ UNCHANGED <<kind, saved, proto, x, relaySide, faults>>

\* The directory of a workspace vanishes with its mount; a user removes the
\* directory of a profile, without the lock.
Vanish(a) == Edits /\ Gone(a) /\ UNCHANGED ghosts

\* A removal does not wait for the exchange.
Bug_Remove(a) ==
    /\ a \in Native /\ Gone(a)
    /\ removed' = removed \cup {a}
    /\ UNCHANGED <<edits, known, consent>>

\* A native removal holds the lock from its claim to its receipt.
Remove(a) ==
    /\ x.at = "idle"
    /\ a \in Native /\ Gone(a)
    /\ removed' = removed \cup {a}
    /\ UNCHANGED <<edits, known, consent>>

\* A profile of that name is provisioned again, without the lock; a workspace is
\* there again, with a document.
Provision(a) ==
    /\ Edits /\ ~home[a]
    /\ home' = [home EXCEPT ![a] = TRUE]
    /\ file' = [file EXCEPT ![a] = edits']
    /\ removed' = removed \ {a}
    /\ UNCHANGED <<kind, hidden, saved, proto, x, relaySide, faults, known, consent>>

RelayEdit(a) ==
    /\ Edits /\ edits' \notin Garbled /\ a \in connected
    /\ relay' = [relay EXCEPT ![a] = Revised(@, edits')]
    /\ known' = [known EXCEPT ![a] = @ \cup {edits'}]
    /\ UNCHANGED <<hostSide, saved, proto, x, speaks, connected, faults, consent, removed>>

RelayDelete(a) ==
    /\ Edits /\ Lives(relay[a])
    /\ relay' = [relay EXCEPT ![a] = Dropped(@)]
    /\ UNCHANGED <<hostSide, saved, proto, x, speaks, connected, faults, ghosts>>

\* The user connects an agent, or takes its consent back.
ConnectAgent(a) ==
    /\ Edits
    /\ connected' = IF a \in connected THEN connected \ {a} ELSE connected \cup {a}
    /\ UNCHANGED <<hostSide, saved, proto, x, speaks, relay, faults, ghosts>>

--------------------------------------------------------------------------------
ExchangeStep == \/ Begin \/ EndScan \/ FallBack \/ RelayMerges(FALSE) \/ Save
                \/ \E a \in Agent : Scan(a, TRUE) \/ Apply(a)

SyncNext ==
    \/ Begin \/ EndScan \/ FallBack \/ PostFails \/ ApplyRaises \/ Save \/ Restart
    \/ \E lost \in BOOLEAN : RelayMerges(lost)
    \/ \E a \in Agent, readable \in BOOLEAN : Scan(a, readable)
    \/ \E a \in Agent : \/ Apply(a) \/ Edit(a) \/ Delete(a) \/ Hide(a) \/ Vanish(a)
                         \/ Remove(a) \/ Provision(a) \/ RelayEdit(a)
                         \/ RelayDelete(a) \/ ConnectAgent(a)

SyncSpec == SyncInit /\ [][SyncNext]_syncVars /\ WF_syncVars(ExchangeStep)

--------------------------------------------------------------------------------
(* Properties.                                                             *)

\* The state keeps its types, and Relay's version never falls behind the entry.
SyncTypeOK ==
    /\ kind \in Kinds
    /\ home \in [Agent -> BOOLEAN]
    /\ file \in [Agent -> Content \cup {None}]
    /\ saved \in State
    /\ proto \in {"v3", "v2", "v1"}
    /\ x \in Exchange
    /\ relay \in [Agent -> Version]
    /\ connected \subseteq Agent /\ hidden \subseteq Agent
    /\ refused \subseteq Agent /\ unsaved \subseteq Agent /\ removed \subseteq Native
    /\ \A a \in Agent : saved.entry[a].ver <= relay[a].ver

\* What an exchange overwrites or deletes here, Relay has had.  The exceptions are
\* contents its own scan could not send: the file is new since the scan, or the scan
\* passed over it (an agent that was not connected yet, too large, a NUL byte, a hidden
\* directory), and either the bridge has no entry of the document, so that Relay wins
\* the first link, or it cannot decode it.  Where it has one, an edit in the middle of
\* an exchange is kept.
UnseenEditIsKept ==
    [][\A a \in Agent :
         x' # x /\ file[a] # None /\ file'[a] # file[a] =>
             \/ file[a] \in known[a]
             \/ /\ file[a] # x.found[a]
                /\ ~Lives(x.state.entry[a]) \/ file[a] \in Garbled]_syncVars

\* A document is reported as deleted only when its directory was read and the
\* document was not there or is one a scan passes over: a missing directory, a file
\* that cannot be read or decoded, and an agent that is not connected delete nothing
\* at Relay.
TombstoneIsTruthful ==
    [][\A a \in Agent :
         x.upload[a].what # "deleted" /\ x'.upload[a].what = "deleted" =>
             /\ home[a] /\ (file[a] = None \/ PassedOver(a))
             /\ proto = "v3" => a \in saved.canonical]_syncVars

\* What is gone does not come back.  A document deleted at Relay is revived only by
\* a content Relay never had, not by a host that still has the file; and an exchange
\* never brings back the home of a profile after a native removal, whenever it asked
\* for the lock.  (A home that a user removes during an exchange may come back.)
NothingComesBack ==
    [][/\ \A a \in Agent :
            x' # x /\ relay[a].deleted /\ ~relay'[a].deleted =>
                relay'[a].content \notin known[a]
       /\ \A a \in removed : x' # x => ~home'[a]]_syncVars

\* With the newest protocol no content leaves the host for an agent that the last
\* answer the bridge received did not call connected, unless an error or a restart
\* kept that answer from being saved.
NoContentWithoutConsent ==
    proto = "v3" /\ x.at \in {"scan", "post"} =>
        \A a \in refused \ unsaved : x.upload[a].what = "nothing"

\* The state is well typed, no entry is ahead of Relay, and what is under way is
\* covered by the consent of the last answer.
SyncConsistent == SyncTypeOK /\ NoContentWithoutConsent

\* Both sides changed a document since they last agreed on it: its edit is kept
\* here and retained there.
Diverged(a) == /\ Lives(saved.entry[a]) /\ saved.entry[a].ver # relay[a].ver
               /\ file[a] \notin {None, saved.entry[a].content}

Agrees(a) == file[a] = IF relay[a].deleted THEN None ELSE relay[a].content

\* When nobody edits any more, every directory can be listed and exchanges get
\* through, host and Relay agree on every document they share that a scan takes, or
\* an edit is kept on each side.
EventuallyInSync ==
    <>[](hidden = {} => \A a \in connected :
            home[a] => \/ Agrees(a) \/ Diverged(a)
                       \/ file[a] \in Large \cup Nul \cup Garbled
                       \/ relay[a].content \in Large)

================================================================================
