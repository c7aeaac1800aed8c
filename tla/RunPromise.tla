------------------------------ MODULE RunPromise -------------------------------
(***************************************************************************)
(* What the bridge promises Relay about a dispatch, whatever happens to    *)
(* its process: once it knows the dispatch it may give it to the agent,    *)
(* once, and report one outcome of it, once.                               *)
(***************************************************************************)
EXTENDS Naturals, Sequences

CONSTANTS Dispatch, Terminal

VARIABLES known, execs, sent

Init ==
    /\ known = {}
    /\ execs = [d \in Dispatch |-> 0]
    /\ sent = [d \in Dispatch |-> <<>>]

Accept(d) ==
    /\ known' = known \cup {d}
    /\ UNCHANGED <<execs, sent>>

Execute(d) ==
    /\ d \in known
    /\ execs[d] = 0
    /\ execs' = [execs EXCEPT ![d] = 1]
    /\ UNCHANGED <<known, sent>>

Report(d) ==
    /\ d \in known
    /\ sent[d] = <<>>
    /\ \E kind \in Terminal : sent' = [sent EXCEPT ![d] = <<kind>>]
    /\ UNCHANGED <<known, execs>>

Next == \E d \in Dispatch : Accept(d) \/ Execute(d) \/ Report(d)

Spec == Init /\ [][Next]_<<known, execs, sent>>
================================================================================
