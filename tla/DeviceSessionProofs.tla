--------------------------- MODULE DeviceSessionProofs ---------------------------
(***************************************************************************)
(* Theorems about DeviceSession: tokens follow the file, and the device    *)
(* credential is held.                                                     *)
(***************************************************************************)
EXTENDS DeviceSession, TLAPS

--------------------------------------------------------------------------------
(* The inductive invariant.                                                *)

\* A process that is down has nothing under way.
DownInv == \A p \in Proc : b[p].at = "down" => b[p] = Down

\* While Relay's answer is on its way, the credential in it is the only current one:
\* an answer is never outdated.
OnlyAnswer ==
    \A p \in Proc, w \in Who :
        /\ b[p].request[w] # "ok_stale"
        /\ b[p].request[w] = "ok_now" =>
              /\ disk = "stale" /\ orphans \subseteq {"stale"}
              /\ \A q \in Proc : b[q].mem = "stale"
              /\ \A q \in Proc, v \in Who :
                    /\ b[q].request[v] # "sent_now"
                    /\ b[q].request[v] = "ok_now" => q = p /\ v = w

\* Tokens of the current generation, and a current credential in the file, follow
\* the file and the memory.
TokenInv ==
    \A p \in Proc :
        /\ b[p].access = "now" \/ b[p].token = "now" \/ b[p].ws = "open" =>
              disk = "now"
        /\ b[p].at # "down" /\ disk = "now" => b[p].mem = "now"

\* As long as no answer was lost and no two authentications overlapped, there is one
\* request at most, with the current credential.
HeldInv ==
    ~lost /\ ~overlap =>
        /\ ~revoked /\ orphans = {}
        /\ \A p \in Proc, w \in Who : b[p].request[w] \in {"none", "sent_now", "ok_now"}
        /\ \A p, q \in Proc, v, w \in Who :
              b[p].request[v] # "none" /\ b[q].request[w] # "none" => p = q /\ v = w
        /\ AllDown => disk = "now"
        /\ \A p \in Proc : b[p].at # "down" =>
              b[p].mem = "now" \/ \E w \in Who : b[p].request[w] = "ok_now"

IInv == TypeOK /\ DownInv /\ OnlyAnswer /\ TokenInv /\ HeldInv

LEMMA DownType == Down \in Process
BY DEF Down, Process, Age, Who, Request

LEMMA OlderType ==
    /\ \A v \in Age \cup {"none"} : Older(v) \in Age \cup {"none"} /\ Older(v) # "now"
    /\ \A v \in Age : Older(v) = "stale"
    /\ \A r \in Request : Older(r) \in Request /\ Older(r) \notin {"sent_now", "ok_now"}
BY DEF Older, Age, Request

LEMMA OutdatedType ==
    ASSUME NEW q \in Process
    PROVE  Outdated(q) \in Process
<1>1. Older(q.mem) \in Age /\ Older(q.access) \in Age \cup {"none"} /\ Older(q.token) \in Age
  BY OlderType DEF Process, Age
<1>2. [w \in Who |-> Older(q.request[w])] \in [Who -> Request]
  BY OlderType DEF Process
<1> QED BY <1>1, <1>2 DEF Outdated, Process

LEMMA OutdatedFacts ==
    ASSUME NEW q \in Process
    PROVE  /\ Outdated(q).at = q.at /\ Outdated(q).mem = "stale" /\ Outdated(q).access # "now"
           /\ Outdated(q).token # "now" /\ Outdated(q).ws # "open"
           /\ Outdated(q).request = [v \in Who |-> Older(q.request[v])]
BY OlderType DEF Outdated, Process

LEMMA OutdatedDown == Outdated(Down) = Down
<1>1. /\ Older("stale") = "stale" /\ Older("none") = "none"
      /\ [w \in Who |-> Older(Down.request[w])] = [w \in Who |-> "none"]
  BY DEF Older, Down
<1>2. /\ Down.mem = "stale" /\ Down.access = "none" /\ Down.token = "stale"
      /\ Down.ws = "none"
  BY DEF Down
<1>3. Outdated(Down) = [Down EXCEPT !.mem = "stale", !.access = "none", !.token = "stale",
                                    !.ws = "none", !.request = [w \in Who |-> "none"]]
  BY <1>1, <1>2 DEF Outdated
<1> QED BY <1>3 DEF Down

LEMMA InitInv == Init => IInv
<1> SUFFICES ASSUME Init PROVE IInv
  OBVIOUS
<1>1. b \in [Proc -> Process] /\ \A p \in Proc : b[p] = Down
  BY DownType DEF Init
<1>2. TypeOK
  <2>1. /\ \A p, q \in Proc : b[p].at # "down" /\ b[q].at # "down" => p = q
        /\ faults \in 0..MaxFaults
    BY <1>1, DeviceSessionAssumption DEF Init, Down
  <2> QED BY <1>1, <2>1 DEF Init, TypeOK, Age
<1>3. DownInv /\ OnlyAnswer /\ TokenInv /\ HeldInv
  BY <1>1 DEF Init, DownInv, OnlyAnswer, TokenInv, HeldInv, Down, AllDown
<1> QED BY <1>2, <1>3 DEF IInv

LEMMA StartStep ==
    ASSUME IInv, NEW p \in Proc, Start(p)
    PROVE  IInv'
<1> DEFINE q == [Down EXCEPT !.at = "dial", !.mem = disk]
<1>1. q \in Process
  BY DownType DEF Start, IInv, TypeOK, Down, Process, Age
<1>2. b' = [b EXCEPT ![p] = q] /\ \A i \in Proc : b[i] = Down
  BY DEF Start, IInv, TypeOK, DownInv
<1>3. /\ q.at = "dial" /\ q.mem = disk /\ q.access = "none" /\ q.token = "stale"
      /\ q.ws = "none" /\ q.request = [w \in Who |-> "none"]
  BY DEF Down
<1>4. /\ Down.at = "down" /\ Down.mem = "stale" /\ Down.access = "none"
      /\ Down.token = "stale"
      /\ Down.ws = "none" /\ Down.request = [w \in Who |-> "none"]
  BY DEF Down
<1> HIDE DEF q
<1>5. TypeOK'
  BY <1>1, <1>2, <1>3, <1>4 DEF IInv, TypeOK, Start
<1>6. DownInv' /\ OnlyAnswer' /\ TokenInv' /\ HeldInv'
  BY <1>1, <1>2, <1>3, <1>4
     DEF IInv, TypeOK, Start, DownInv, OnlyAnswer, TokenInv, HeldInv, Age, AllDown
<1> QED BY <1>5, <1>6 DEF IInv

LEMMA RelayStep ==
    ASSUME IInv, NEW p \in Proc, NEW w \in Who, Relay(p, w)
    PROVE  IInv'
<1>1. CASE b[p].request[w] = "sent_now" /\ ~revoked
  <2> DEFINE q == [Outdated(b[p]) EXCEPT !.request[w] = "ok_now"]
  <2>1. b' = [i \in Proc |-> IF i = p THEN q ELSE Outdated(b[i])]
    BY <1>1 DEF Relay
  <2>2. q \in Process /\ \A i \in Proc : Outdated(b[i]) \in Process
    <3>1. \A i \in Proc : Outdated(b[i]) \in Process
      BY OutdatedType DEF IInv, TypeOK
    <3> QED BY <3>1 DEF Process, Request
  <2>3. \A i \in Proc :
          /\ Outdated(b[i]).at = b[i].at
          /\ Outdated(b[i]).mem = "stale" /\ Outdated(b[i]).access # "now"
          /\ Outdated(b[i]).token # "now" /\ Outdated(b[i]).ws # "open"
          /\ Outdated(b[i]).request = [v \in Who |-> Older(b[i].request[v])]
    BY OutdatedFacts DEF IInv, TypeOK
  <2>4. /\ q.at = b[p].at /\ q.mem = "stale" /\ q.access # "now" /\ q.token # "now"
        /\ q.ws # "open"
    BY <2>2, <2>3 DEF Process
  <2>5. q.request = [v \in Who |-> IF v = w THEN "ok_now" ELSE Older(b[p].request[v])]
    <3>1. Outdated(b[p]) \in Process
      BY <2>2
    <3>2. q.request = [Outdated(b[p]).request EXCEPT ![w] = "ok_now"]
      BY <3>1 DEF Process
    <3>3. Outdated(b[p]).request = [v \in Who |-> Older(b[p].request[v])]
      BY <2>3
    <3> HIDE DEF q
    <3> QED BY <3>2, <3>3
  <2> HIDE DEF q
  <2>6. ASSUME NEW i \in Proc
        PROVE  /\ b'[i].mem = "stale" /\ b'[i].access # "now"
               /\ b'[i].token # "now" /\ b'[i].ws # "open" /\ b'[i].at = b[i].at
               /\ \A v \in Who : b'[i].request[v] =
                    IF i = p /\ v = w THEN "ok_now" ELSE Older(b[i].request[v])
    <3>1. b'[p] = q /\ \A j \in Proc \ {p} : b'[j] = Outdated(b[j])
      BY <2>1
    <3>2. CASE i = p
      <4>1. b'[i] = q /\ b[i] = b[p]
        BY <3>1, <3>2
      <4>2. \A v \in Who : q.request[v] =
              IF v = w THEN "ok_now" ELSE Older(b[p].request[v])
        BY <2>5
      <4> QED BY <2>4, <3>2, <4>1, <4>2
    <3>3. CASE i # p
      <4>1. b'[i] = Outdated(b[i])
        BY <3>1, <3>3
      <4>2. \A v \in Who : Outdated(b[i]).request[v] = Older(b[i].request[v])
        BY <2>3
      <4> QED BY <2>3, <3>3, <4>1, <4>2
    <3> QED BY <3>2, <3>3
  <2>7. TypeOK'
    <3>1. disk' = "stale" /\ orphans' \subseteq Age
      BY <1>1, OlderType DEF IInv, TypeOK, Relay, Age
    <3> QED BY <1>1, <2>1, <2>2, <2>6, <3>1 DEF IInv, TypeOK, Relay, NoFault, Age
  <2>8. DownInv'
    <3> SUFFICES ASSUME NEW i \in Proc, b[i].at = "down"
                 PROVE  b'[i] = Down
      BY <2>6 DEF DownInv
    <3>1. b[i] = Down
      BY DEF IInv, DownInv
    <3>2. Down.request[w] = "none"
      BY DEF Down
    <3>3. i # p
      BY <1>1, <3>1, <3>2
    <3>4. b'[i] = Outdated(Down)
      BY <2>1, <3>1, <3>3
    <3> QED BY <3>4, OutdatedDown
  <2>9. \A i \in Proc, v \in Who : b[i].request[v] \in Request
    BY DEF IInv, TypeOK, Process
  <2>10. \A i \in Proc, v \in Who : b[i].request[v] \notin {"ok_now", "ok_stale"}
    BY <1>1 DEF IInv, OnlyAnswer
  <2>11. \A i \in Proc, v \in Who :
           b'[i].request[v] \in {"none", "refused", "sent_stale", "ok_now"}
    BY <2>6, <2>9, <2>10 DEF Older, Request
  <2>12. \A i \in Proc, v \in Who : b'[i].request[v] = "ok_now" => i = p /\ v = w
    BY <2>6, <2>9, <2>10 DEF Older, Request
  <2>13. OnlyAnswer'
    <3>1. disk' = "stale" /\ orphans' \subseteq {"stale"}
      BY <1>1, OlderType DEF IInv, TypeOK, Relay, Age
    <3> QED BY <2>6, <2>11, <2>12, <3>1 DEF OnlyAnswer
  <2>14. TokenInv'
    BY <1>1, <2>6 DEF TokenInv, Relay
  <2>15. HeldInv'
    <3> SUFFICES ASSUME ~lost, ~overlap PROVE HeldInv'
      BY <1>1 DEF Relay, HeldInv
    <3>1. \A i \in Proc, v \in Who : i # p \/ v # w => b[i].request[v] = "none"
      BY <1>1 DEF IInv, HeldInv
    <3>2. \A i \in Proc, v \in Who :
            b'[i].request[v] = IF i = p /\ v = w THEN "ok_now" ELSE "none"
      BY <2>6, <3>1 DEF Older
    <3>3. b[p].at # "down"
      BY <1>1 DEF IInv, DownInv, Down
    <3>4. orphans' = {} /\ ~revoked'
      BY <1>1 DEF IInv, HeldInv, Relay
    <3> QED BY <2>6, <3>2, <3>3, <3>4 DEF IInv, TypeOK, HeldInv, AllDown
  <2> QED BY <2>7, <2>8, <2>13, <2>14, <2>15 DEF IInv
<1>2. CASE ~(b[p].request[w] = "sent_now" /\ ~revoked)
  <2>1. /\ b[p].request[w] \in {"sent_now", "sent_stale"}
        /\ b[p].request[w] = "sent_stale" \/ revoked
        /\ revoked' = TRUE
        /\ b' = [b EXCEPT ![p].request[w] = "refused"]
        /\ UNCHANGED <<disk, orphans, faults, queued, lost, overlap>>
    BY <1>2 DEF Relay, NoFault
  <2>2. lost \/ overlap
    BY <2>1 DEF IInv, HeldInv
  <2> DEFINE q == [b[p] EXCEPT !.request[w] = "refused"]
  <2>3. b' = [b EXCEPT ![p] = q]
    BY <2>1 DEF IInv, TypeOK
  <2>4. /\ q \in Process
        /\ q.at = b[p].at /\ q.mem = b[p].mem /\ q.access = b[p].access
        /\ q.token = b[p].token /\ q.ws = b[p].ws
        /\ q.request = [b[p].request EXCEPT ![w] = "refused"]
    BY DEF IInv, TypeOK, Process, Request
  <2>5. b[p].at # "down"
    BY <2>1 DEF IInv, DownInv, Down
  <2>6. \A v \in Who : b[p].request[v] \in Request
    BY DEF IInv, TypeOK, Process
  <2> HIDE DEF q
  <2>7. TypeOK'
    BY <2>1, <2>3, <2>4 DEF IInv, TypeOK
  <2>8. DownInv' /\ TokenInv'
    BY <2>1, <2>3, <2>4, <2>5 DEF IInv, TypeOK, DownInv, TokenInv
  <2>9. OnlyAnswer'
    BY <2>1, <2>3, <2>4, <2>6 DEF IInv, TypeOK, OnlyAnswer, Process
  <2> QED BY <2>1, <2>2, <2>7, <2>8, <2>9 DEF IInv, HeldInv
<1> QED BY <1>1, <1>2

--------------------------------------------------------------------------------
(* What a process becomes.                                                 *)

\* What the properties look at is as it was.
Same(q, r) == /\ q.mem = r.mem /\ q.access = r.access /\ q.token = r.token
              /\ q.ws = r.ws /\ q.request = r.request

LEMMA ClosedType ==
    ASSUME NEW q \in Process
    PROVE  /\ Closed(q) \in Process /\ Closed(q).at = "backoff"
           /\ Closed(q).mem = q.mem /\ Closed(q).access = q.access
           /\ Closed(q).token = q.token /\ Closed(q).ws = q.ws
           /\ Closed(q).request = [q.request EXCEPT !["task"] = "none"]
BY DEF Closed, Process, Request, Who

LEMMA EndPostType ==
    ASSUME NEW q \in Process, NEW w \in Who, q.at # "down"
    PROVE  /\ EndPost(q, w) \in Process /\ EndPost(q, w).at # "down"
           /\ Same(EndPost(q, w), q)
BY DEF EndPost, Process, Who, Same

LEMMA SentType ==
    ASSUME NEW q \in Process, NEW w \in Who
    PROVE  /\ Sent(q, w) \in Process /\ Sent(q, w).at = q.at /\ Sent(q, w).mem = q.mem
           /\ Sent(q, w).access = q.access /\ Sent(q, w).token = q.token
           /\ Sent(q, w).ws = q.ws
           /\ Sent(q, w).request = [q.request EXCEPT ![w] =
                                     IF q.mem = "now" THEN "sent_now" ELSE "sent_stale"]
BY DEF Sent, Process, Request

LEMMA KeepType ==
    ASSUME NEW q \in Process, NEW w \in Who, NEW saved \in BOOLEAN
    PROVE  /\ Keep(q, w, saved) \in Process /\ Keep(q, w, saved).at = q.at
           /\ Keep(q, w, saved).mem = AgeOf(q.request[w])
           /\ Keep(q, w, saved).access = q.access /\ Keep(q, w, saved).token = q.token
           /\ Keep(q, w, saved).ws = q.ws
           /\ Keep(q, w, saved).request = [q.request EXCEPT ![w] = "none"]
BY DEF Keep, Process, Request, AgeOf, Age

--------------------------------------------------------------------------------
(* Steps of one process that stays up.                                     *)

\* p goes on as q: it drops the requests in gone, gains no current token without
\* the file, and keeps its credential.
GoesOn(p, q, gone) ==
    /\ b' = [b EXCEPT ![p] = q]
    /\ b[p].at # "down" /\ q.at # "down"
    /\ q.mem = b[p].mem
    /\ q.access = "now" => b[p].access = "now"
    /\ q.token = "now" => b[p].token = "now"
    /\ q.ws = "open" => b[p].ws = "open" \/ b[p].token = "now"
    /\ \A v \in Who : \/ q.request[v] = b[p].request[v]
                      \/ q.request[v] = "none" /\ b[p].request[v] \in gone
    /\ gone \subseteq {b[p].request[v] : v \in Who}
    /\ Abandon(gone)
    /\ faults' \in 0..MaxFaults /\ queued' \in BOOLEAN
    /\ UNCHANGED <<disk, revoked, overlap>>

LEMMA AbandonFacts ==
    ASSUME IInv, NEW p \in Proc, NEW gone,
           gone \subseteq {b[p].request[v] : v \in Who}, Abandon(gone)
    PROVE  /\ orphans' \subseteq Age /\ lost' \in BOOLEAN
           /\ \A i \in Proc, v \in Who : b[i].request[v] = "ok_now" =>
                  orphans' \subseteq {"stale"}
           /\ ~lost' => /\ ~lost /\ orphans' = orphans
                        /\ gone \cap {"sent_now", "sent_stale", "ok_now"} = {}
<1>1. orphans' \subseteq Age /\ lost' \in BOOLEAN
  BY DEF IInv, TypeOK, Abandon
<1>2. ASSUME NEW i \in Proc, NEW v \in Who, b[i].request[v] = "ok_now"
      PROVE  orphans' \subseteq {"stale"}
  <2>1. orphans \subseteq {"stale"} /\ "sent_now" \notin gone
    BY <1>2 DEF IInv, OnlyAnswer
  <2> QED BY <2>1 DEF Abandon, Age
<1>3. ASSUME ~lost'
      PROVE  /\ ~lost /\ orphans' = orphans
             /\ gone \cap {"sent_now", "sent_stale", "ok_now"} = {}
  <2>1. ~lost /\ gone \cap {"sent_now", "sent_stale", "ok_now"} = {}
    BY <1>3 DEF Abandon
  <2> QED BY <2>1 DEF Abandon
<1> QED BY <1>1, <1>2, <1>3

LEMMA GoesOnInv ==
    ASSUME IInv, NEW p \in Proc, NEW q \in Process, NEW gone, GoesOn(p, q, gone)
    PROVE  IInv'
<1>1. TypeOK'
  BY AbandonFacts DEF IInv, TypeOK, GoesOn
<1>2. DownInv' /\ TokenInv'
  BY DEF IInv, TypeOK, GoesOn, DownInv, TokenInv
<1>3. \A i \in Proc, v \in Who :
        b'[i].request[v] = b[i].request[v] \/ b'[i].request[v] = "none"
  BY DEF IInv, TypeOK, GoesOn
<1>4. \A i \in Proc : b'[i].mem = b[i].mem
  BY DEF IInv, TypeOK, GoesOn
<1>5. OnlyAnswer'
  BY <1>3, <1>4, AbandonFacts DEF IInv, OnlyAnswer, GoesOn
<1>6. HeldInv'
  <2> SUFFICES ASSUME ~lost', ~overlap' PROVE HeldInv'
    BY DEF HeldInv
  <2>1. /\ ~lost /\ ~overlap /\ orphans' = orphans
        /\ gone \cap {"sent_now", "sent_stale", "ok_now"} = {}
    BY AbandonFacts DEF GoesOn
  <2>2. \A i \in Proc, v \in Who : b'[i].request[v] = b[i].request[v]
    <3>1. \A v \in Who : b[p].request[v] \in {"none", "sent_now", "ok_now"}
      BY <2>1 DEF IInv, HeldInv
    <3>2. \A v \in Who : q.request[v] = b[p].request[v]
      BY <2>1, <3>1 DEF GoesOn
    <3> QED BY <3>2 DEF GoesOn, IInv, TypeOK
  <2>3. AllDown' <=> AllDown
    BY DEF GoesOn, AllDown, IInv, TypeOK
  <2>4. \A i \in Proc : b'[i].at # "down" <=> b[i].at # "down"
    BY DEF GoesOn, IInv, TypeOK
  <2> QED BY <1>4, <2>1, <2>2, <2>3, <2>4 DEF GoesOn, IInv, HeldInv
<1> QED BY <1>1, <1>2, <1>5, <1>6 DEF IInv

\* p goes on as q, which sends its credential for w.
Sends(p, q, w) ==
    /\ b' = [b EXCEPT ![p] = q]
    /\ b[p].at # "down" /\ q.at # "down"
    /\ q.mem = b[p].mem /\ q.access = b[p].access /\ q.token = b[p].token
    /\ q.ws = b[p].ws
    /\ q.request = [b[p].request EXCEPT ![w] =
                      IF b[p].mem = "now" THEN "sent_now" ELSE "sent_stale"]
    /\ overlap' = (overlap \/ UnderWay)
    /\ UNCHANGED <<disk, queued, orphans, revoked, faults, lost>>

LEMMA SendsInv ==
    ASSUME IInv, NEW p \in Proc, NEW q \in Process, NEW w \in Who, Sends(p, q, w)
    PROVE  IInv'
<1>0. b[p].request \in [Who -> Request]
  BY DEF IInv, TypeOK, Process
<1>1. TypeOK'
  BY DEF IInv, TypeOK, Sends
<1>2. DownInv' /\ TokenInv'
  BY DEF IInv, TypeOK, Sends, DownInv, TokenInv
<1>3. \A i \in Proc, v \in Who :
        b'[i].request[v] = IF i = p /\ v = w
                           THEN IF b[p].mem = "now" THEN "sent_now" ELSE "sent_stale"
                           ELSE b[i].request[v]
  BY <1>0 DEF IInv, TypeOK, Sends
<1>4. \A i \in Proc : b'[i].mem = b[i].mem
  BY DEF IInv, TypeOK, Sends
<1>5. OnlyAnswer'
  BY <1>3, <1>4 DEF IInv, OnlyAnswer, Sends
<1>6. HeldInv'
  <2> SUFFICES ASSUME ~lost', ~overlap' PROVE HeldInv'
    BY DEF HeldInv
  <2>1. ~lost /\ ~overlap
    BY DEF Sends
  <2>2. \A i \in Proc, v \in Who : b[i].request[v] = "none"
    BY DEF Sends, UnderWay
  <2>3. b[p].mem = "now"
    BY <2>1, <2>2 DEF Sends, IInv, HeldInv
  <2>4. \A i \in Proc : b'[i].at # "down" <=> b[i].at # "down"
    BY DEF Sends, IInv, TypeOK
  <2>5. ~AllDown'
    BY <2>4 DEF AllDown, Sends
  <2> QED BY <1>3, <1>4, <2>1, <2>2, <2>3, <2>4, <2>5 DEF Sends, IInv, HeldInv
<1> QED BY <1>1, <1>2, <1>5, <1>6 DEF IInv

\* p goes on as q, which has taken the answer to w; the file has it, or q uses no new
\* token and drops the requests in gone.
Takes(p, q, w, gone) ==
    /\ b' = [b EXCEPT ![p] = q]
    /\ b[p].at # "down" /\ q.at # "down"
    /\ b[p].request[w] = "ok_now" /\ q.request[w] = "none" /\ q.mem = "now"
    /\ q.ws = b[p].ws
    /\ \/ disk' = "now"
       \/ disk' = disk /\ q.access = b[p].access /\ q.token = b[p].token
    /\ \A v \in Who \ {w} : \/ q.request[v] = b[p].request[v]
                            \/ q.request[v] = "none" /\ b[p].request[v] \in gone
    /\ gone \subseteq {b[p].request[v] : v \in Who}
    /\ Abandon(gone)
    /\ faults' \in 0..MaxFaults
    /\ UNCHANGED <<queued, revoked, overlap>>

LEMMA TakesInv ==
    ASSUME IInv, NEW p \in Proc, NEW q \in Process, NEW w \in Who, NEW gone,
           Takes(p, q, w, gone)
    PROVE  IInv'
<1>1. disk = "stale" /\ disk' \in Age
  BY DEF IInv, OnlyAnswer, Takes, TypeOK, Age
<1>2. TypeOK'
  BY <1>1, AbandonFacts DEF IInv, TypeOK, Takes
<1>3. DownInv'
  BY DEF IInv, TypeOK, Takes, DownInv
<1>4. TokenInv'
  <2> SUFFICES ASSUME NEW i \in Proc
               PROVE  /\ b'[i].access = "now" \/ b'[i].token = "now" \/ b'[i].ws = "open" =>
                             disk' = "now"
                      /\ b'[i].at # "down" /\ disk' = "now" => b'[i].mem = "now"
    BY DEF TokenInv
  <2>1. CASE i = p
    BY <1>1, <2>1 DEF IInv, TypeOK, TokenInv, Takes
  <2>2. CASE i # p
    BY <1>1, <2>2 DEF IInv, TypeOK, TokenInv, Takes
  <2> QED BY <2>1, <2>2
<1>5. \A i \in Proc, v \in Who :
        \/ b'[i].request[v] = "none"
        \/ b'[i].request[v] = b[i].request[v] /\ (i # p \/ v # w)
  BY DEF IInv, TypeOK, Takes
<1>6. \A i \in Proc, v \in Who : b'[i].request[v] \notin {"ok_now", "ok_stale"}
  BY <1>5 DEF IInv, OnlyAnswer, Takes
<1>7. OnlyAnswer'
  BY <1>6 DEF OnlyAnswer
<1>8. HeldInv'
  <2> SUFFICES ASSUME ~lost', ~overlap' PROVE HeldInv'
    BY DEF HeldInv
  <2>1. ~lost /\ ~overlap /\ orphans' = orphans
    BY AbandonFacts DEF Takes
  <2>2. \A i \in Proc, v \in Who : b'[i].request[v] = "none"
    BY <1>5, <2>1 DEF IInv, HeldInv, Takes
  <2>3. b'[p].mem = "now" /\ b'[p].at # "down" /\ \A i \in Proc : b'[i].at # "down" => i = p
    BY DEF Takes, IInv, TypeOK
  <2> QED BY <2>1, <2>2, <2>3 DEF Takes, IInv, HeldInv, AllDown
<1> QED BY <1>2, <1>3, <1>4, <1>7, <1>8 DEF IInv

--------------------------------------------------------------------------------
(* The steps of the connection.                                            *)

LEMMA UpType ==
    ASSUME IInv, NEW p \in Proc
    PROVE  b[p] \in Process
BY DEF IInv, TypeOK

\* The type of a process of which one field changes.
LEMMA SetPost ==
    ASSUME NEW u \in Process, NEW w \in Who,
           NEW s \in {"none", "lock", "send", "auth", "again"}
    PROVE  [u EXCEPT !.post[w] = s] \in Process
<1> DEFINE f == [u.post EXCEPT ![w] = s]
<1>1. f \in [Who -> {"none", "lock", "send", "auth", "again"}]
  BY DEF Process
<1>2. [u EXCEPT !.post[w] = s] = [u EXCEPT !.post = f]
  OBVIOUS
<1> HIDE DEF f
<1>3. [u EXCEPT !.post = f] \in Process
  BY <1>1 DEF Process
<1> QED BY <1>2, <1>3

LEMMA SetLock ==
    ASSUME NEW u \in Process, NEW w \in Who
    PROVE  [u EXCEPT !.lock = w] \in Process
BY DEF Process

LEMMA SetTask ==
    ASSUME NEW u \in Process, NEW s \in BOOLEAN
    PROVE  [u EXCEPT !.task = s] \in Process
BY DEF Process

LEMMA SetOpen ==
    ASSUME NEW u \in Process
    PROVE  [[u EXCEPT !.at = "open"] EXCEPT !.ws = "open"] \in Process
<1>1. [u EXCEPT !.at = "open"] \in Process
  BY DEF Process
<1> DEFINE v == [u EXCEPT !.at = "open"]
<1> HIDE DEF v
<1>2. v \in Process => [v EXCEPT !.ws = "open"] \in Process
  BY DEF Process
<1> QED BY <1>1, <1>2 DEF v

LEMMA UpWhen ==
    ASSUME IInv, NEW p \in Proc,
           \/ b[p].at # "down" \/ b[p].ws = "open" \/ b[p].access = "now" \/ b[p].task
           \/ \E w \in Who : b[p].post[w] # "none" \/ b[p].request[w] # "none"
    PROVE  b[p].at # "down"
<1>1. b[p] = Down => ~(\/ b[p].ws = "open" \/ b[p].access = "now" \/ b[p].task
                       \/ \E w \in Who : b[p].post[w] # "none" \/ b[p].request[w] # "none")
  BY DEF Down
<1> QED BY <1>1 DEF IInv, DownInv

LEMMA Nothing ==
    ASSUME IInv, UNCHANGED <<orphans, lost>>
    PROVE  Abandon({})
BY DEF Abandon, IInv, TypeOK

LEMMA OneFault ==
    ASSUME IInv, Fault \/ NoFault
    PROVE  faults' \in 0..MaxFaults
BY DeviceSessionAssumption DEF Fault, NoFault, IInv, TypeOK

LEMMA DialStep ==
    ASSUME IInv, NEW p \in Proc, Dial(p)
    PROVE  IInv'
<1> DEFINE q == [Sent(b[p], "loop") EXCEPT !.at = "auth", !.session = TRUE]
<1>1. "loop" \in Who
  BY DEF Who
<1>2. q \in Process
  <2>1. Sent(b[p], "loop") \in Process
    BY <1>1, UpType, SentType
  <2> QED BY <2>1 DEF Process
<1>3. Sends(p, q, "loop")
  BY <1>1, UpType, SentType DEF Sends, Dial, Process
<1> QED BY <1>1, <1>2, <1>3, SendsInv

\* What a step does that changes nothing the invariant is about.
LEMMA QuietInv ==
    ASSUME IInv, NEW p \in Proc, NEW q \in Process, b' = [b EXCEPT ![p] = q],
           b[p].at # "down", q.at # "down", Same(q, b[p]),
           Fault \/ NoFault, queued' \in BOOLEAN,
           UNCHANGED <<disk, orphans, revoked, lost, overlap>>
    PROVE  IInv'
<1>1. GoesOn(p, q, {})
  BY Nothing, OneFault DEF GoesOn, Same
<1> QED BY <1>1, GoesOnInv

LEMMA FlushStep ==
    ASSUME IInv, NEW p \in Proc, Flush(p)
    PROVE  IInv'
<1> DEFINE q == IF queued THEN [b[p] EXCEPT !.post["loop"] = "lock"]
                          ELSE [b[p] EXCEPT !.at = "connect"]
<1>1. q \in Process /\ q.at # "down" /\ Same(q, b[p])
  BY UpType DEF Flush, Process, Same
<1>2. b' = [b EXCEPT ![p] = q]
  BY DEF Flush
<1>3. b[p].at # "down" /\ UNCHANGED <<disk, queued, orphans, revoked, faults, lost, overlap>>
  BY DEF Flush
<1> QED BY <1>1, <1>2, <1>3, QuietInv DEF NoFault, IInv, TypeOK

LEMMA ConnectStep ==
    ASSUME IInv, NEW p \in Proc, Connect(p)
    PROVE  IInv'
<1>1. CASE b[p].token = "now" /\ ~revoked
  <2> DEFINE q == [b[p] EXCEPT !.at = "open", !.ws = "open", !.task = TRUE]
  <2>1. /\ q \in Process /\ q.at # "down" /\ q.mem = b[p].mem /\ q.access = b[p].access
        /\ q.token = b[p].token /\ q.request = b[p].request
    <3>1. q \in Process
      <4> DEFINE u == [[b[p] EXCEPT !.at = "open"] EXCEPT !.ws = "open"]
      <4>1. u \in Process
        BY UpType, SetOpen
      <4>2. [u EXCEPT !.task = TRUE] \in Process
        <5> HIDE DEF u
        <5> QED BY <4>1, SetTask
      <4> QED BY <4>2
    <3>2. /\ q.at # "down" /\ q.mem = b[p].mem /\ q.access = b[p].access
          /\ q.token = b[p].token /\ q.request = b[p].request
      BY UpType DEF Process
    <3> QED BY <3>1, <3>2
  <2>2. /\ b' = [b EXCEPT ![p] = q] /\ b[p].at # "down"
        /\ UNCHANGED <<disk, queued, orphans, revoked, faults, lost, overlap>>
    BY <1>1, UpType DEF Connect
  <2>3. GoesOn(p, q, {})
    BY <1>1, <2>1, <2>2, Nothing DEF GoesOn, IInv, TypeOK
  <2> QED BY <2>1, <2>3, GoesOnInv
<1>2. CASE ~(b[p].token = "now" /\ ~revoked)
  <2> DEFINE q == Closed(b[p])
             gone == {b[p].request["task"]}
  <2>1. /\ q \in Process /\ q.at = "backoff" /\ q.mem = b[p].mem /\ q.access = b[p].access
        /\ q.token = b[p].token /\ q.ws = b[p].ws
        /\ q.request = [b[p].request EXCEPT !["task"] = "none"]
    BY UpType, ClosedType
  <2>2. /\ b' = [b EXCEPT ![p] = q] /\ b[p].at # "down" /\ Abandon(gone)
        /\ UNCHANGED <<disk, queued, revoked, faults, overlap>>
    BY <1>2 DEF Connect
  <2> HIDE DEF q
  <2>3. GoesOn(p, q, gone)
    BY <2>1, <2>2, UpType DEF GoesOn, IInv, TypeOK, Who, Process
  <2> QED BY <2>1, <2>3, GoesOnInv
<1> QED BY <1>1, <1>2

LEMMA AuthFailsStep ==
    ASSUME IInv, NEW p \in Proc, AuthFails(p)
    PROVE  IInv'
<1> DEFINE r == [b[p] EXCEPT !.request["loop"] = "none"]
           q == Closed(r)
           gone == RequestsOf(p)
<1>1. /\ r \in Process /\ r.mem = b[p].mem /\ r.access = b[p].access
      /\ r.token = b[p].token
      /\ r.ws = b[p].ws /\ r.request = [b[p].request EXCEPT !["loop"] = "none"]
  <2>1. [b[p].request EXCEPT !["loop"] = "none"] \in [Who -> Request]
    BY UpType DEF Process, Request
  <2> QED BY <2>1, UpType DEF Process
<1>2. /\ b' = [b EXCEPT ![p] = q] /\ b[p].at # "down" /\ Abandon(gone)
      /\ Fault \/ NoFault
      /\ UNCHANGED <<disk, queued, revoked, overlap>>
  BY DEF AuthFails
<1>3. q.request = [[b[p].request EXCEPT !["loop"] = "none"] EXCEPT !["task"] = "none"]
  BY <1>1, ClosedType
<1>4. /\ q \in Process /\ q.at # "down" /\ q.mem = b[p].mem /\ q.access = b[p].access
      /\ q.token = b[p].token /\ q.ws = b[p].ws
  BY <1>1, ClosedType
<1> HIDE DEF q, r
<1>5. \A v \in Who : q.request[v] = "none" /\ b[p].request[v] \in gone
  BY <1>3, UpType DEF Who, Process, RequestsOf
<1>6. gone \subseteq {b[p].request[v] : v \in Who}
  BY DEF RequestsOf
<1>7. GoesOn(p, q, gone)
  BY <1>2, <1>4, <1>5, <1>6, OneFault DEF GoesOn, IInv, TypeOK
<1> QED BY <1>4, <1>7, GoesOnInv

LEMMA DropStep ==
    ASSUME IInv, NEW p \in Proc, Drop(p)
    PROVE  IInv'
<1> DEFINE q == [b[p] EXCEPT !.ws = "closed"]
<1>1. /\ q \in Process /\ q.at = b[p].at /\ q.mem = b[p].mem /\ q.access = b[p].access
      /\ q.token = b[p].token /\ q.request = b[p].request /\ q.ws = "closed"
  BY UpType DEF Process
<1>2. /\ b' = [b EXCEPT ![p] = q] /\ Fault
      /\ UNCHANGED <<disk, queued, orphans, revoked, lost, overlap>>
  BY UpType DEF Drop
<1>3. b[p].at # "down"
  BY UpWhen DEF Drop
<1>4. GoesOn(p, q, {})
  BY <1>1, <1>2, <1>3, Nothing, OneFault DEF GoesOn, IInv, TypeOK
<1> QED BY <1>1, <1>4, GoesOnInv

LEMMA ExpireStep ==
    ASSUME IInv, NEW p \in Proc, Expire(p)
    PROVE  IInv'
<1> DEFINE q == [b[p] EXCEPT !.access = "stale"]
<1>1. /\ q \in Process /\ q.at = b[p].at /\ q.mem = b[p].mem /\ q.access = "stale"
      /\ q.token = b[p].token /\ q.request = b[p].request /\ q.ws = b[p].ws
  BY UpType DEF Process, Age
<1>2. /\ b' = [b EXCEPT ![p] = q] /\ Fault
      /\ UNCHANGED <<disk, queued, orphans, revoked, lost, overlap>>
  BY UpType DEF Expire
<1>3. b[p].at # "down"
  BY UpWhen DEF Expire
<1>4. GoesOn(p, q, {})
  BY <1>1, <1>2, <1>3, Nothing, OneFault DEF GoesOn, IInv, TypeOK
<1> QED BY <1>1, <1>4, GoesOnInv

LEMMA LeaveStep ==
    ASSUME IInv, NEW p \in Proc, Leave(p) \/ LeaveByException(p)
    PROVE  IInv'
<1> DEFINE r == Closed(b[p])
           l == [r EXCEPT !.ws = "none", !.task = FALSE, !.post["task"] = "none"]
           q == IF b' = [b EXCEPT ![p] = r] THEN r ELSE l
           gone == {b[p].request["task"]}
<1>1. b' = [b EXCEPT ![p] = q] /\ q \in {r, l}
  BY DEF Leave, LeaveByException
<1>2. /\ r \in Process /\ r.at = "backoff" /\ r.mem = b[p].mem /\ r.access = b[p].access
      /\ r.token = b[p].token /\ r.ws = b[p].ws
      /\ r.request = [b[p].request EXCEPT !["task"] = "none"]
  BY UpType, ClosedType
<1> HIDE DEF r
<1>3. /\ l \in Process /\ l.at = "backoff" /\ l.mem = b[p].mem /\ l.access = b[p].access
      /\ l.token = b[p].token /\ l.ws = "none" /\ l.request = r.request
  BY <1>2 DEF Process
<1> HIDE DEF l, q
<1>4. /\ b[p].at # "down" /\ Abandon(gone)
      /\ UNCHANGED <<disk, queued, revoked, faults, overlap>>
  BY DEF Leave, LeaveByException
<1>5. /\ q \in Process /\ q.at = "backoff" /\ q.mem = b[p].mem /\ q.access = b[p].access
      /\ q.token = b[p].token /\ q.ws \in {b[p].ws, "none"} /\ q.request = r.request
  BY <1>1, <1>2, <1>3
<1>6. GoesOn(p, q, gone)
  BY <1>1, <1>2, <1>4, <1>5, UpType DEF GoesOn, IInv, TypeOK, Who, Process
<1> QED BY <1>5, <1>6, GoesOnInv

LEMMA AgainStep ==
    ASSUME IInv, NEW p \in Proc, Again(p)
    PROVE  IInv'
<1> DEFINE q == [b[p] EXCEPT !.at = "dial"]
<1>1. q \in Process /\ q.at # "down" /\ Same(q, b[p])
  BY UpType DEF Process, Same
<1>2. /\ b' = [b EXCEPT ![p] = q] /\ b[p].at # "down"
      /\ UNCHANGED <<disk, queued, orphans, revoked, faults, lost, overlap>>
  BY UpType DEF Again
<1> QED BY <1>1, <1>2, QuietInv DEF NoFault, IInv, TypeOK

LEMMA AuthenticatedStep ==
    ASSUME IInv, NEW p \in Proc, NEW saved \in BOOLEAN, Authenticated(p, saved)
    PROVE  IInv'
<1> DEFINE k == Keep(b[p], "loop", saved)
<1>1. b[p].request["loop"] = "ok_now" /\ "loop" \in Who
  BY DEF Authenticated, Answered, IInv, OnlyAnswer, Who
<1>2. /\ k \in Process /\ k.at = b[p].at /\ k.mem = "now" /\ k.access = b[p].access
      /\ k.token = b[p].token /\ k.ws = b[p].ws
      /\ k.request = [b[p].request EXCEPT !["loop"] = "none"]
  BY <1>1, UpType, KeepType DEF AgeOf
<1>3. CASE saved
  <2> DEFINE q == [k EXCEPT !.at = "flush", !.access = "now", !.token = "now"]
  <2>1. /\ q \in Process /\ q.at = "flush" /\ q.mem = "now" /\ q.ws = b[p].ws
        /\ q.request = [b[p].request EXCEPT !["loop"] = "none"]
    BY <1>2 DEF Process, Age
  <2>2. /\ b' = [b EXCEPT ![p] = q] /\ b[p].at # "down" /\ disk' = "now"
        /\ UNCHANGED <<queued, orphans, revoked, faults, lost, overlap>>
    BY <1>1, <1>3 DEF Authenticated, MayUse, SaveOr, AgeOf, NoFault
  <2> HIDE DEF q
  <2>3. Takes(p, q, "loop", {})
    BY <1>1, <2>1, <2>2, UpType, Nothing DEF Takes, IInv, TypeOK, Process
  <2> QED BY <1>1, <2>1, <2>3, TakesInv
<1>4. CASE ~saved
  <2> DEFINE q == Closed(k)
             gone == {b[p].request["task"]}
  <2>1. /\ q \in Process /\ q.at = "backoff" /\ q.mem = "now" /\ q.access = b[p].access
        /\ q.token = b[p].token /\ q.ws = b[p].ws
        /\ q.request = [[b[p].request EXCEPT !["loop"] = "none"] EXCEPT !["task"] = "none"]
    BY <1>2, ClosedType
  <2>2. /\ b' = [b EXCEPT ![p] = q] /\ b[p].at # "down" /\ disk' = disk /\ Fault
        /\ Abandon(gone)
        /\ UNCHANGED <<queued, revoked, overlap>>
    BY <1>4 DEF Authenticated, MayUse, SaveOr
  <2> HIDE DEF q
  <2>3. Takes(p, q, "loop", gone)
    BY <1>1, <2>1, <2>2, UpType, OneFault DEF Takes, Who, Process
  <2> QED BY <1>1, <2>1, <2>3, TakesInv
<1> QED BY <1>3, <1>4

\* A process that ends: nothing of it is left.
LEMMA Ends ==
    ASSUME IInv, NEW p \in Proc, b[p].at # "down", b' = [b EXCEPT ![p] = Down],
           NEW gone, gone \subseteq {b[p].request[v] : v \in Who}, orphans' \subseteq Age,
           \A i \in Proc, v \in Who : b[i].request[v] = "ok_now" =>
               orphans' \subseteq {"stale"},
           ~lost' => /\ ~lost /\ orphans' = orphans /\ b[p].mem = disk
                     /\ \A v \in Who : b[p].request[v] \notin {"sent_now", "ok_now"},
           lost' \in BOOLEAN, Fault \/ NoFault, UNCHANGED <<disk, queued, revoked, overlap>>
    PROVE  IInv'
<1>1. /\ Down.at = "down" /\ Down.mem = "stale" /\ Down.access = "none"
      /\ Down.token = "stale"
      /\ Down.ws = "none" /\ \A v \in Who : Down.request[v] = "none"
  BY DEF Down
<1>2. b'[p] = Down /\ \A i \in Proc \ {p} : b'[i] = b[i] /\ b[i].at = "down"
  BY DEF IInv, TypeOK
<1>3. \A i \in Proc : b'[i] = Down
  BY <1>2 DEF IInv, DownInv
<1>4. TypeOK'
  BY <1>1, <1>3, DownType, OneFault DEF IInv, TypeOK
<1>5. DownInv' /\ OnlyAnswer' /\ TokenInv'
  BY <1>1, <1>3 DEF DownInv, OnlyAnswer, TokenInv
<1>6. HeldInv'
  <2> SUFFICES ASSUME ~lost', ~overlap' PROVE HeldInv'
    BY DEF HeldInv
  <2>1. /\ ~lost /\ ~overlap /\ orphans' = orphans /\ b[p].mem = disk
        /\ \A v \in Who : b[p].request[v] \notin {"sent_now", "ok_now"}
    OBVIOUS
  <2>2. b[p].mem = "now"
    BY <2>1 DEF IInv, HeldInv
  <2> QED BY <1>1, <1>3, <2>1, <2>2 DEF IInv, HeldInv
<1> QED BY <1>4, <1>5, <1>6 DEF IInv

LEMMA StopStep ==
    ASSUME IInv, NEW p \in Proc, Stop(p)
    PROVE  IInv'
<1>1. \A v \in Who : b[p].request[v] = "none"
  BY DEF Stop
<1>2. /\ b[p].at # "down" /\ b' = [b EXCEPT ![p] = Down] /\ lost' = (lost \/ b[p].mem # disk)
      /\ UNCHANGED <<disk, queued, orphans, revoked, faults, overlap>>
  BY DEF Stop
<1>3. /\ orphans' \subseteq Age
      /\ \A i \in Proc, v \in Who : b[i].request[v] = "ok_now" =>
             orphans' \subseteq {"stale"}
  BY <1>2 DEF IInv, TypeOK, OnlyAnswer
<1> QED BY <1>1, <1>2, <1>3, Ends DEF NoFault, IInv, TypeOK

LEMMA CrashStep ==
    ASSUME IInv, NEW p \in Proc, Crash(p)
    PROVE  IInv'
<1> DEFINE gone == RequestsOf(p) \cup (IF b[p].mem = disk THEN {} ELSE {"ok_now"})
<1>1. /\ b[p].at # "down" /\ b' = [b EXCEPT ![p] = Down] /\ Fault
      /\ UNCHANGED <<disk, queued, revoked, overlap>>
  BY DEF Crash
<1>2. /\ orphans' = orphans \cup {o \in Age :
                      (IF o = "now" THEN "sent_now" ELSE "sent_stale") \in gone}
      /\ lost' = (lost \/ gone \cap {"sent_now", "sent_stale", "ok_now"} # {})
  BY DEF Crash, Abandon
<1>3. ASSUME NEW i \in Proc, NEW v \in Who, b[i].request[v] = "ok_now"
      PROVE  orphans' \subseteq {"stale"}
  <2>1. orphans \subseteq {"stale"} /\ "sent_now" \notin gone
    BY <1>3 DEF IInv, OnlyAnswer, RequestsOf
  <2> QED BY <1>2, <2>1 DEF Age
<1>4. ~lost' => /\ ~lost /\ orphans' = orphans /\ b[p].mem = disk
                /\ \A v \in Who : b[p].request[v] \notin {"sent_now", "ok_now"}
  <2> SUFFICES ASSUME ~lost'
               PROVE  /\ ~lost /\ orphans' = orphans /\ b[p].mem = disk
                      /\ \A v \in Who : b[p].request[v] \notin {"sent_now", "ok_now"}
    OBVIOUS
  <2>1. ~lost /\ gone \cap {"sent_now", "sent_stale", "ok_now"} = {}
    BY <1>2
  <2>2. orphans' = orphans
    BY <1>2, <2>1
  <2> QED BY <2>1, <2>2 DEF RequestsOf
<1>5. orphans' \subseteq Age /\ lost' \in BOOLEAN
  BY <1>2 DEF IInv, TypeOK
<1> QED BY <1>1, <1>3, <1>4, <1>5, Ends

--------------------------------------------------------------------------------
(* The steps of a post.                                                    *)

LEMMA HandleStep ==
    ASSUME IInv, NEW p \in Proc, Handle(p)
    PROVE  IInv'
<1> DEFINE q == [b[p] EXCEPT !.post["loop"] = "lock"]
<1>1. q \in Process /\ q.at = b[p].at /\ Same(q, b[p])
  BY UpType DEF Process, Same
<1>2. /\ b' = [b EXCEPT ![p] = q] /\ b[p].at # "down"
      /\ UNCHANGED <<disk, queued, orphans, revoked, faults, lost, overlap>>
  BY UpType DEF Handle
<1> QED BY <1>1, <1>2, QuietInv DEF NoFault, IInv, TypeOK

LEMMA WakeStep ==
    ASSUME IInv, NEW p \in Proc, Wake(p)
    PROVE  IInv'
<1> DEFINE q == IF queued THEN [b[p] EXCEPT !.post["task"] = "lock"]
                          ELSE [b[p] EXCEPT !.task = b[p].task /\ b[p].ws = "open"]
<1>1. q \in Process /\ q.at = b[p].at /\ Same(q, b[p])
  <2>1. CASE queued
    <3>1. q = [b[p] EXCEPT !.post["task"] = "lock"]
      BY <2>1
    <3>2. q \in Process
      BY <3>1, UpType, SetPost DEF Who
    <3> QED BY <2>1, <3>2, UpType DEF Process, Same
  <2>2. CASE ~queued
    <3>1. (b[p].task /\ b[p].ws = "open") \in BOOLEAN
      OBVIOUS
    <3>2. q = [b[p] EXCEPT !.task = b[p].task /\ b[p].ws = "open"]
      BY <2>2
    <3>3. q \in Process
      BY <3>1, <3>2, UpType, SetTask
    <3> QED BY <2>2, <3>3, UpType DEF Process, Same
  <2> QED BY <2>1, <2>2
<1>2. b' = [b EXCEPT ![p] = q]
  BY DEF Wake
<1>3. b[p].at # "down"
  BY UpWhen DEF Wake
<1>4. UNCHANGED <<disk, queued, orphans, revoked, faults, lost, overlap>>
  BY DEF Wake
<1> QED BY <1>1, <1>2, <1>3, <1>4, QuietInv DEF NoFault, IInv, TypeOK

LEMMA TakeLockStep ==
    ASSUME IInv, NEW p \in Proc, NEW w \in Who, TakeLock(p, w)
    PROVE  IInv'
<1>1. b[p].at # "down"
  BY UpWhen DEF TakeLock
<1>2. UNCHANGED <<disk, queued, orphans, revoked, faults, lost, overlap>>
  BY DEF TakeLock
<1>3. CASE b[p].session
  <2> DEFINE q == [b[p] EXCEPT !.lock = w, !.post[w] = "send"]
  <2>1. q \in Process /\ q.at = b[p].at /\ Same(q, b[p])
    <3> DEFINE u == [b[p] EXCEPT !.lock = w]
    <3>1. u \in Process
      BY UpType, SetLock
    <3>2. [u EXCEPT !.post[w] = "send"] \in Process
      <4> HIDE DEF u
      <4> QED BY <3>1, SetPost
    <3>3. q \in Process
      BY <3>2
    <3> QED BY <3>3, UpType DEF Process, Same
  <2>2. b' = [b EXCEPT ![p] = q]
    BY <1>3 DEF TakeLock
  <2> QED BY <1>1, <1>2, <2>1, <2>2, QuietInv DEF NoFault, IInv, TypeOK
<1>4. CASE ~b[p].session
  <2>1. b' = [b EXCEPT ![p] = EndPost(b[p], w)]
    BY <1>4 DEF TakeLock
  <2>2. /\ EndPost(b[p], w) \in Process /\ EndPost(b[p], w).at # "down"
        /\ Same(EndPost(b[p], w), b[p])
    BY <1>1, UpType, EndPostType
  <2> QED BY <1>1, <1>2, <2>1, <2>2, QuietInv DEF NoFault, IInv, TypeOK
<1> QED BY <1>3, <1>4

LEMMA PostStepInv ==
    ASSUME IInv, NEW p \in Proc, NEW w \in Who, Post(p, w)
    PROVE  IInv'
<1>1. b[p].at # "down" /\ UNCHANGED <<disk, orphans, revoked, lost>>
  BY UpWhen DEF Post
<1>2. CASE /\ b' = [b EXCEPT ![p] = EndPost(b[p], w)]
           /\ Fault \/ NoFault
           /\ queued' \in BOOLEAN
           /\ UNCHANGED overlap
  <2>1. /\ EndPost(b[p], w) \in Process /\ EndPost(b[p], w).at # "down"
        /\ Same(EndPost(b[p], w), b[p])
    BY <1>1, UpType, EndPostType
  <2> QED BY <1>1, <1>2, <2>1, QuietInv
<1>3. CASE /\ b' = [b EXCEPT ![p] = [Sent(b[p], w) EXCEPT !.post[w] = "auth"]]
           /\ overlap' = (overlap \/ UnderWay)
           /\ UNCHANGED <<queued, faults>>
  <2> DEFINE r == Sent(b[p], w)
             q == [r EXCEPT !.post[w] = "auth"]
  <2>1. /\ r \in Process /\ r.at = b[p].at /\ r.mem = b[p].mem
        /\ r.access = b[p].access /\ r.token = b[p].token /\ r.ws = b[p].ws
        /\ r.request = [b[p].request EXCEPT ![w] =
                         IF b[p].mem = "now" THEN "sent_now" ELSE "sent_stale"]
    BY UpType, SentType
  <2> HIDE DEF r
  <2>2. q \in Process /\ q.at = r.at /\ Same(q, r)
    BY <2>1 DEF Process, Same
  <2>3. b' = [b EXCEPT ![p] = q]
    BY <1>3 DEF r
  <2> HIDE DEF q
  <2>4. Sends(p, q, w)
    BY <1>1, <1>3, <2>1, <2>2, <2>3 DEF Sends, Same
  <2> QED BY <2>2, <2>4, SendsInv
<1> QED BY <1>1, <1>2, <1>3 DEF Post, Delivered, NoFault, IInv, TypeOK

LEMMA RefreshedStep ==
    ASSUME IInv, NEW p \in Proc, NEW w \in Who, NEW saved \in BOOLEAN,
           Refreshed(p, w, saved)
    PROVE  IInv'
<1> DEFINE k == Keep(b[p], w, saved)
<1>1. b[p].request[w] = "ok_now" /\ b[p].at # "down"
  <2>1. b[p].request[w] = "ok_now"
    BY DEF Refreshed, Answered, IInv, OnlyAnswer
  <2> QED BY <2>1, UpWhen
<1>2. /\ k \in Process /\ k.at = b[p].at /\ k.mem = "now" /\ k.access = b[p].access
      /\ k.token = b[p].token /\ k.ws = b[p].ws
      /\ k.request = [b[p].request EXCEPT ![w] = "none"]
  BY <1>1, UpType, KeepType DEF AgeOf
<1>3. UNCHANGED <<queued, orphans, revoked, lost, overlap>> /\ (Fault \/ NoFault)
  BY DEF Refreshed, SaveOr
<1>4. CASE saved
  <2> DEFINE q == [k EXCEPT !.access = "now", !.post[w] = "again"]
  <2>1. /\ q \in Process /\ q.at = b[p].at /\ q.mem = "now" /\ q.ws = b[p].ws
        /\ q.request = [b[p].request EXCEPT ![w] = "none"]
    BY <1>2 DEF Process, Age
  <2>2. b' = [b EXCEPT ![p] = q] /\ disk' = "now"
    BY <1>1, <1>4 DEF Refreshed, MayUse, SaveOr, AgeOf
  <2> HIDE DEF q
  <2>3. Takes(p, q, w, {})
    BY <1>1, <1>3, <2>1, <2>2, UpType, Nothing, OneFault DEF Takes, Process
  <2> QED BY <2>1, <2>3, TakesInv
<1>5. CASE ~saved
  <2> DEFINE q == EndPost(k, w)
  <2>1. q \in Process /\ q.at # "down" /\ Same(q, k)
    BY <1>1, <1>2, EndPostType
  <2>2. b' = [b EXCEPT ![p] = q] /\ disk' = disk
    BY <1>5 DEF Refreshed, MayUse, SaveOr
  <2> HIDE DEF q, k
  <2>3. Takes(p, q, w, {})
    BY <1>1, <1>2, <1>3, <2>1, <2>2, UpType, Nothing, OneFault DEF Takes, Same, Process
  <2> QED BY <2>1, <2>3, TakesInv
<1> QED BY <1>4, <1>5

LEMMA RefreshFailsStep ==
    ASSUME IInv, NEW p \in Proc, NEW w \in Who, RefreshFails(p, w)
    PROVE  IInv'
<1> DEFINE r == [b[p] EXCEPT !.request[w] = "none"]
           q == EndPost(r, w)
           gone == {b[p].request[w]}
<1>1. b[p].at # "down" /\ (Fault \/ NoFault) /\ Abandon(gone)
      /\ UNCHANGED <<disk, queued, revoked, overlap>> /\ b' = [b EXCEPT ![p] = q]
  BY UpWhen DEF RefreshFails
<1>2. /\ r \in Process /\ r.at = b[p].at /\ r.mem = b[p].mem /\ r.access = b[p].access
      /\ r.token = b[p].token
      /\ r.ws = b[p].ws /\ r.request = [b[p].request EXCEPT ![w] = "none"]
  <2>1. [b[p].request EXCEPT ![w] = "none"] \in [Who -> Request]
    BY UpType DEF Process, Request
  <2> QED BY <2>1, UpType DEF Process
<1>3. q \in Process /\ q.at # "down" /\ Same(q, r)
  BY <1>1, <1>2, EndPostType
<1> HIDE DEF q, r
<1>4. GoesOn(p, q, gone)
  BY <1>1, <1>2, <1>3, UpType, OneFault DEF GoesOn, Same, Process, IInv, TypeOK
<1> QED BY <1>3, <1>4, GoesOnInv

LEMMA PostAgainStep ==
    ASSUME IInv, NEW p \in Proc, NEW w \in Who, PostAgain(p, w)
    PROVE  IInv'
<1>1. b[p].at # "down" /\ UNCHANGED <<disk, orphans, revoked, faults, lost, overlap>>
  BY UpWhen DEF PostAgain
<1>2. queued' \in BOOLEAN
  BY DEF PostAgain, Delivered, IInv, TypeOK
<1>3. b' = [b EXCEPT ![p] = EndPost(b[p], w)]
  BY DEF PostAgain
<1>4. /\ EndPost(b[p], w) \in Process /\ EndPost(b[p], w).at # "down"
      /\ Same(EndPost(b[p], w), b[p])
  BY <1>1, UpType, EndPostType
<1> QED BY <1>1, <1>2, <1>3, <1>4, QuietInv DEF NoFault

--------------------------------------------------------------------------------
(* The other steps.                                                        *)

LEMMA RelayOrphanStep ==
    ASSUME IInv, NEW o \in Age, RelayOrphan(o)
    PROVE  IInv'
<1>0. o \in orphans /\ UNCHANGED <<queued, overlap, faults>>
  BY DEF RelayOrphan, NoFault
<1>1. lost \/ overlap
  BY <1>0 DEF IInv, HeldInv
<1>2. CASE /\ orphans' = orphans \ {o} /\ revoked' \in BOOLEAN
           /\ UNCHANGED <<b, disk, lost>>
  <2>1. TypeOK' /\ DownInv' /\ TokenInv'
    BY <1>0, <1>2 DEF IInv, TypeOK, DownInv, TokenInv
  <2>2. OnlyAnswer'
    BY <1>0, <1>2 DEF IInv, OnlyAnswer
  <2> QED BY <1>0, <1>1, <1>2, <2>1, <2>2 DEF IInv, HeldInv
<1>3. CASE /\ b' = [i \in Proc |-> Outdated(b[i])] /\ disk' = "stale"
           /\ orphans' = {Older(i) : i \in orphans \ {o}} /\ lost' = TRUE
           /\ o = "now" /\ UNCHANGED revoked
  <2>1. \A i \in Proc :
          /\ b'[i] \in Process /\ b'[i].at = b[i].at /\ b'[i].mem = "stale"
          /\ b'[i].access # "now"
          /\ b'[i].token # "now" /\ b'[i].ws # "open"
          /\ b'[i].request = [v \in Who |-> Older(b[i].request[v])]
    <3>1. \A i \in Proc : b[i] \in Process /\ b'[i] = Outdated(b[i])
      BY <1>3 DEF IInv, TypeOK
    <3> QED BY <3>1, OutdatedType, OutdatedFacts
  <2>2. orphans' \subseteq {"stale"}
    BY <1>3, OlderType DEF IInv, TypeOK
  <2>3. TypeOK'
    BY <1>0, <1>3, <2>1, <2>2 DEF IInv, TypeOK, Age
  <2>4. DownInv'
    <3> SUFFICES ASSUME NEW i \in Proc, b[i].at = "down"
                 PROVE  b'[i] = Down
      BY <2>1 DEF DownInv
    <3>1. b[i] = Down
      BY DEF IInv, DownInv
    <3>2. b'[i] = Outdated(Down)
      BY <1>3, <3>1
    <3> QED BY <3>2, OutdatedDown
  <2>5. \A i \in Proc, v \in Who : b[i].request[v] \in Request \ {"ok_now", "ok_stale"}
    <3>1. \A i \in Proc, v \in Who : b[i].request[v] \in Request
      BY DEF IInv, TypeOK, Process
    <3>2. "now" \in orphans
      BY <1>0, <1>3
    <3>3. \A i \in Proc, v \in Who : b[i].request[v] \notin {"ok_now", "ok_stale"}
      BY <3>2 DEF IInv, OnlyAnswer
    <3> QED BY <3>1, <3>3
  <2>6. \A i \in Proc, v \in Who : b'[i].request[v] \notin {"ok_now", "ok_stale"}
    <3>1. \A i \in Proc, v \in Who : b'[i].request[v] = Older(b[i].request[v])
      BY <2>1
    <3> QED BY <2>5, <3>1 DEF Older, Request
  <2>7. OnlyAnswer' /\ TokenInv' /\ HeldInv'
    BY <1>3, <2>1, <2>6 DEF OnlyAnswer, TokenInv, HeldInv
  <2> QED BY <2>3, <2>4, <2>7 DEF IInv
<1>4. \/ /\ orphans' = orphans \ {o} /\ (revoked' = revoked \/ revoked' = TRUE)
         /\ UNCHANGED <<b, disk, lost>>
      \/ /\ b' = [i \in Proc |-> Outdated(b[i])] /\ disk' = "stale"
         /\ orphans' = {Older(i) : i \in orphans \ {o}} /\ lost' = TRUE
         /\ o = "now" /\ UNCHANGED revoked
  BY DEF RelayOrphan
<1> QED BY <1>2, <1>3, <1>4 DEF IInv, TypeOK

LEMMA QueueStep ==
    ASSUME IInv, Queue
    PROVE  IInv'
<1>1. TypeOK'
  BY DEF Queue, IInv, TypeOK
<1>2. DownInv' /\ OnlyAnswer' /\ TokenInv'
  BY DEF Queue, IInv, DownInv, OnlyAnswer, TokenInv
<1>3. HeldInv'
  BY DEF Queue, IInv, HeldInv, AllDown
<1> QED BY <1>1, <1>2, <1>3 DEF IInv

\* When all are down there is no request and no token.
LEMMA Quiescent ==
    ASSUME IInv, AllDown
    PROVE  \A p \in Proc : /\ b[p] = Down /\ b[p].mem = "stale" /\ b[p].access = "none"
                          /\ b[p].token = "stale" /\ b[p].ws = "none"
                          /\ \A w \in Who : b[p].request[w] = "none"
<1>1. /\ Down.mem = "stale" /\ Down.access = "none"
      /\ Down.token = "stale"
      /\ Down.ws = "none" /\ \A v \in Who : Down.request[v] = "none"
  BY DEF Down
<1>2. \A p \in Proc : b[p] = Down
  BY DEF IInv, DownInv, AllDown
<1> QED BY <1>1, <1>2

LEMMA RotateStep ==
    ASSUME IInv, NEW saved \in BOOLEAN, Rotate(saved)
    PROVE  IInv'
<1>1. AllDown /\ UNCHANGED <<b, queued>>
  BY DEF Rotate
<1>2. DownInv' /\ OnlyAnswer' /\ TokenInv'
  BY <1>1, Quiescent DEF IInv, DownInv, OnlyAnswer, TokenInv, AllDown
<1>3. CASE disk = "now"
  <2>1. /\ disk' = IF saved THEN "now" ELSE "stale"
        /\ orphans' = {Older(i) : i \in orphans}
        /\ lost' = (lost \/ ~saved)
        /\ overlap' = (overlap \/ UnderWay)
        /\ UNCHANGED revoked
        /\ Fault \/ NoFault
    BY <1>3 DEF Rotate
  <2>2. orphans' \subseteq {"stale"} /\ (orphans = {} => orphans' = {})
    BY <2>1, OlderType DEF IInv, TypeOK
  <2>3. TypeOK'
    BY <1>1, <2>1, <2>2, OneFault DEF IInv, TypeOK, Age
  <2>4. HeldInv'
    BY <1>1, <2>1, <2>2, Quiescent DEF IInv, HeldInv, AllDown
  <2> QED BY <1>2, <2>3, <2>4 DEF IInv
<1>4. CASE disk # "now"
  <2>1. revoked' = TRUE /\ UNCHANGED <<disk, orphans, faults, lost, overlap>>
    BY <1>4 DEF Rotate
  <2>2. TypeOK'
    BY <1>1, <2>1 DEF IInv, TypeOK
  <2>3. HeldInv'
    BY <1>1, <1>4, <2>1 DEF IInv, HeldInv
  <2> QED BY <1>2, <2>2, <2>3 DEF IInv
<1> QED BY <1>3, <1>4

LEMMA EnrollStep ==
    ASSUME IInv, Enroll
    PROVE  IInv'
<1>1. /\ AllDown /\ UNCHANGED <<b, queued, faults>>
      /\ disk' = "now" /\ orphans' = {} /\ revoked' = FALSE
      /\ lost' = FALSE /\ overlap' = FALSE
  BY DEF Enroll
<1>2. TypeOK'
  BY <1>1 DEF IInv, TypeOK, Age
<1>3. DownInv' /\ OnlyAnswer' /\ TokenInv' /\ HeldInv'
  BY <1>1, Quiescent DEF IInv, DownInv, OnlyAnswer, TokenInv, HeldInv, AllDown
<1> QED BY <1>2, <1>3 DEF IInv

LEMMA InductiveStep == IInv /\ [Next]_vars => IInv'
<1> SUFFICES ASSUME IInv, [Next]_vars PROVE IInv'
  OBVIOUS
<1>1. CASE UNCHANGED vars
  <2>1. TypeOK' /\ DownInv' /\ OnlyAnswer' /\ TokenInv'
    BY <1>1 DEF vars, IInv, TypeOK, DownInv, OnlyAnswer, TokenInv
  <2>2. HeldInv'
    BY <1>1 DEF vars, IInv, HeldInv, AllDown
  <2> QED BY <2>1, <2>2 DEF IInv
<1>2. CASE Queue \/ Enroll
  BY <1>2, QueueStep, EnrollStep
<1>3. CASE \E saved \in BOOLEAN : Rotate(saved)
  BY <1>3, RotateStep
<1>4. CASE \E o \in Age : RelayOrphan(o)
  BY <1>4, RelayOrphanStep
<1>5. ASSUME NEW p \in Proc,
             \/ Start(p) \/ Dial(p) \/ AuthFails(p) \/ Flush(p) \/ Connect(p) \/ Drop(p)
             \/ Expire(p) \/ Leave(p) \/ LeaveByException(p) \/ Again(p) \/ Stop(p)
             \/ Crash(p) \/ Handle(p) \/ Wake(p)
             \/ \E saved \in BOOLEAN : Authenticated(p, saved)
      PROVE  IInv'
  BY <1>5, StartStep, DialStep, AuthFailsStep, FlushStep, ConnectStep, DropStep, ExpireStep,
     LeaveStep, AgainStep, StopStep, CrashStep, HandleStep, WakeStep, AuthenticatedStep
<1>6. ASSUME NEW p \in Proc, NEW w \in Who,
             \/ Relay(p, w) \/ TakeLock(p, w) \/ Post(p, w)
             \/ RefreshFails(p, w) \/ PostAgain(p, w)
             \/ \E saved \in BOOLEAN : Refreshed(p, w, saved)
      PROVE  IInv'
  BY <1>6, RelayStep, TakeLockStep, PostStepInv, RefreshFailsStep, PostAgainStep,
     RefreshedStep
<1> QED BY <1>1, <1>2, <1>3, <1>4, <1>5, <1>6 DEF Next

--------------------------------------------------------------------------------
\* The inductive invariant holds in every reachable state.
THEOREM Invariance == Spec => []IInv
BY InitInv, InductiveStep, PTL DEF Spec

\* One process runs, and no token is used ahead of the file, over any number of
\* failed writes, lost connections, rotations and restarts.
THEOREM Consistency == Spec => []Consistent
<1>1. IInv => Consistent
  BY DEF IInv, TokenInv, Consistent, BearerAfterDisk
<1> QED BY <1>1, Invariance, PTL

\* The credential Relay expects next is in memory, in an answer on its way or in the
\* file, unless an answer was lost or two authentications ran at once.
THEOREM CredentialHeld == Spec => []CredentialIsHeld
<1>1. IInv => CredentialIsHeld
  BY DEF IInv, HeldInv, CredentialIsHeld, AllDown
<1> QED BY <1>1, Invariance, PTL

================================================================================
